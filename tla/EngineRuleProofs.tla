-------------------------- MODULE EngineRuleProofs --------------------------
(***************************************************************************)
(* Proofs about what each rule of Engine owns, for every number of         *)
(* goroutines, rules, listeners and addresses.  RulesInv says of each rule *)
(* which ports, map entries and registrations it has in every stage of the *)
(* calls that change it; with IdInv it is inductive, and PortsOwned,       *)
(* NoPanic, StatusHonest and BackendAgrees follow from it.                 *)
(***************************************************************************)
EXTENDS EngineProofs

(* The listeners that hold a port for rule i.                               *)
Ports(i) == {l \in Lsns : lsn[l] # Nil /\ lsn[l].open /\ lsn[l].id = i}

(* Listener l holds the address that the rule says, and no other port is    *)
(* held for it.                                                             *)
Holding(i, l) ==
  /\ l \in Lsns /\ Ports(i) = {l}
  /\ lsn[l].addr = heap[rules[i]].listen

(* Nothing of a stopped rule is left.                                       *)
Shut(i) == Ports(i) = {} /\ lns[i] = Nil /\ stop[i] = Nil

(* A rule nobody works on.                                                  *)
Settled(i) ==
  IF Local(i)
  THEN /\ backend[i] = Nil
       /\ \/ Shut(i) /\ heap[rules[i]].status = "error"
          \/ /\ Holding(i, lns[i]) /\ stop[i] = lns[i]
             /\ heap[rules[i]].status \in {"running", ""}
  ELSE /\ Shut(i)
       /\ backend[i] = IF Backend /\ Remote(i) THEN heap[rules[i]].target ELSE Nil

(* A local rule p works on.                                                 *)
ChangingLocal(p, i) ==
  LET f == frame[p] IN
  /\ backend[i] = Nil
  /\ f.pc \in {"listen", "putLn", "putStop", "fail",
               "stopClose", "stopSignal", "stopped", "selflock"}
  /\ f.pc \in {"listen", "fail", "stopped", "selflock"} => Shut(i)
  /\ f.pc = "putLn" => Holding(i, f.ln) /\ lns[i] = Nil /\ stop[i] = Nil
  /\ f.pc = "putStop" => Holding(i, f.ln) /\ lns[i] = f.ln /\ stop[i] = Nil
  /\ f.pc = "stopClose" => Ports(i) \subseteq {lns[i]} /\ stop[i] = lns[i]
  /\ f.pc = "stopSignal" => Ports(i) = {} /\ stop[i] = lns[i] /\ lns[i] # Nil
  /\ f.pc \in {"listen", "putLn", "putStop"} /\ f.op # "restart" =>
       heap[f.obj].status = "running"

(* A remote rule p works on.                                                *)
ChangingRemote(p, i) ==
  LET f == frame[p] IN
  /\ Shut(i)
  /\ f.pc \in {"pend", "rm", "send", "put"}
  /\ f.pc = "pend" => backend[i] = Nil
  /\ f.pc # "pend" => Backend
  /\ f.pc = "put" => f.arg.target = heap[f.obj].target

Changing(p, i) ==
  /\ rules[i] = frame[p].obj
  /\ IF Obj(p).typ = "local" THEN ChangingLocal(p, i) ELSE ChangingRemote(p, i)

RuleOK(i) ==
  /\ \A p, q \in Procs : Working(p, i) /\ Working(q, i) => p = q
  /\ \A p \in Procs : Working(p, i) => Changing(p, i)
  /\ (\A p \in Procs : ~Working(p, i)) => Settled(i)
  /\ \A p \in Procs : Inserting(p, i) =>
       Obj(p).status = "running" /\ \A q \in Procs : ~Working(q, i)

(* A call works on no rule whose ID is still to be given; Restart, between  *)
(* two rules, works on none, and it lists local rules only.                 *)
GivenOK == \A p \in Procs, i \in IDs : Working(p, i) => i < nextID
LoopOK == \A p \in Procs : at(p, "loop") => frame[p].obj = Nil
TodoOK == \A p \in Procs : \A i \in frame[p].todo : heap[rules[i]].typ = "local"

RulesInv == GivenOK /\ LoopOK /\ TodoOK /\ \A i \in IDs \ raced : RuleOK(i)
-----------------------------------------------------------------------------
(* What a step leaves of rule i, and of the calls on it.                    *)
SameRule(i) ==
  /\ rules'[i] = rules[i] /\ lns'[i] = lns[i] /\ stop'[i] = stop[i]
  /\ backend'[i] = backend[i]
  /\ Ports(i)' = Ports(i) /\ \A l \in Ports(i) : lsn'[l].addr = lsn[l].addr

SameObjects(i) ==
  \A o \in Objs : heap[o] # Nil /\ heap[o].id = i => heap'[o] = heap[o]

SameCalls(i) ==
  \A p \in Procs :
    /\ Working(p, i)' <=> Working(p, i)
    /\ Working(p, i) => frame'[p] = frame[p]
    /\ Inserting(p, i)' => Inserting(p, i) /\ frame'[p] = frame[p]

(* Rules keep their ID and their type for ever.                             *)
HeapKept ==
  \A o \in Objs : heap[o] # Nil =>
    heap'[o] # Nil /\ heap'[o].id = heap[o].id /\ heap'[o].typ = heap[o].typ

Others(p) == \A q \in Procs \ {p} : frame'[q] = frame[q]

LEMMA RulePointers ==
  ASSUME BaseInv, NEW i \in IDs
  PROVE  /\ rules[i] # Nil => /\ rules[i] \in Objs /\ heap[rules[i]] # Nil
                              /\ heap[rules[i]] \in Rule /\ heap[rules[i]].id = i
         /\ lns[i] \in Lsns \cup {Nil} /\ Nil \notin Lsns /\ Nil \notin Objs
BY NilAssumption DEF BaseInv, RefsOK, TypeOK

LEMMA CallPointers ==
  ASSUME BaseInv, NEW p \in Procs, NEW i \in IDs, Working(p, i) \/ Inserting(p, i)
  PROVE  /\ frame[p].obj \in Objs /\ heap[frame[p].obj] # Nil
         /\ heap[frame[p].obj].id = i /\ heap[frame[p].obj] \in Rule
<1>1. frame[p] \in Frame /\ FrameOK(p) /\ heap \in [Objs -> Rule \cup {Nil}]
  BY DEF BaseInv, TypeOK
<1>2. frame[p].obj \in Objs \cup {Nil}
  BY <1>1 DEF Frame
<1>3. CASE Working(p, i)
  BY <1>1, <1>2, <1>3 DEF Working, Obj
<1>4. CASE Inserting(p, i)
  BY <1>1, <1>2, <1>4 DEF Inserting, Obj, FrameOK, at
<1> QED BY <1>3, <1>4

LEMMA RuleSeen ==
  ASSUME BaseInv, NEW i \in IDs, SameRule(i), SameObjects(i)
  PROVE  /\ Local(i)' <=> Local(i)
         /\ Remote(i)' <=> Remote(i)
         /\ rules[i] # Nil => heap'[rules'[i]] = heap[rules[i]]
         /\ Shut(i)' <=> Shut(i)
BY RulePointers DEF SameRule, SameObjects, Local, Remote, Shut

LEMMA SettledKept ==
  ASSUME BaseInv, NEW i \in IDs, SameRule(i), SameObjects(i), Settled(i)
  PROVE  Settled(i)'
<1>1. CASE Local(i)
  <2>1. rules[i] # Nil
    BY <1>1 DEF Local
  <2>2. Holding(i, lns[i]) => Holding(i, lns[i])'
    BY <2>1, RuleSeen DEF SameRule, Holding
  <2> QED BY <1>1, <2>1, <2>2, RuleSeen DEF Settled, SameRule
<1>2. CASE ~Local(i)
  BY <1>2, RuleSeen DEF Settled, SameRule, Remote
<1> QED BY <1>1, <1>2

LEMMA RuleKept ==
  ASSUME BaseInv, NEW i \in IDs, RuleOK(i), SameRule(i), SameObjects(i), SameCalls(i)
  PROVE  RuleOK(i)'
<1>1. /\ Shut(i)' <=> Shut(i)
      /\ rules[i] # Nil => heap'[rules'[i]] = heap[rules[i]]
  BY RuleSeen
<1>2. Settled(i) => Settled(i)'
  BY SettledKept
<1>3. ASSUME NEW p \in Procs, Working(p, i)' PROVE Changing(p, i)'
  <2>1. Working(p, i) /\ Changing(p, i) /\ frame'[p] = frame[p]
    BY <1>3 DEF SameCalls, RuleOK
  <2>2. frame[p].obj # Nil /\ heap'[frame[p].obj] = heap[frame[p].obj]
    BY <2>1, CallPointers, RulePointers DEF SameObjects
  <2>3. rules[i] = frame[p].obj
    BY <2>1 DEF Changing
  <2>4. Holding(i, frame[p].ln) => Holding(i, frame[p].ln)'
    BY <1>1, <2>1, <2>2, <2>3 DEF SameRule, Holding
  <2>5. ChangingLocal(p, i) => ChangingLocal(p, i)'
    BY <1>1, <2>1, <2>2, <2>4 DEF ChangingLocal, SameRule
  <2>6. ChangingRemote(p, i) => ChangingRemote(p, i)'
    BY <1>1, <2>1, <2>2 DEF ChangingRemote, SameRule
  <2> QED BY <2>1, <2>2, <2>5, <2>6 DEF Changing, Obj, SameRule
<1>4. ASSUME NEW p \in Procs, Inserting(p, i)'
      PROVE  Obj(p)'.status = "running" /\ \A q \in Procs : ~Working(q, i)
  <2>1. Inserting(p, i) /\ frame'[p] = frame[p]
    BY <1>4 DEF SameCalls
  <2>2. heap'[frame[p].obj] = heap[frame[p].obj]
    BY <2>1, CallPointers DEF SameObjects
  <2> QED BY <2>1, <2>2 DEF RuleOK, Obj
<1> QED BY <1>2, <1>3, <1>4 DEF RuleOK, SameCalls

(* The other goroutines are where they were.                                *)
LEMMA OthersSame ==
  ASSUME BaseInv, HeapKept, NEW p \in Procs, Others(p), NEW q \in Procs \ {p}, NEW i \in IDs
  PROVE  /\ Working(q, i)' <=> Working(q, i)
         /\ Inserting(q, i)' <=> Inserting(q, i)
         /\ frame'[q] = frame[q]
<1>1. frame'[q] = frame[q] /\ frame[q] \in Frame /\ FrameOK(q)
  BY DEF Others, BaseInv, TypeOK
<1>2. frame[q].obj \in Objs \cup {Nil}
  BY <1>1 DEF Frame
<1> QED BY <1>1, <1>2 DEF HeapKept, Working, Inserting, Obj, at, FrameOK

(* A step of p that leaves rule i alone.                                    *)
LEMMA RuleElsewhere ==
  ASSUME BaseInv, HeapKept, NEW p \in Procs, Others(p), NEW i \in IDs, RuleOK(i),
         SameRule(i), SameObjects(i),
         ~Working(p, i), ~Working(p, i)', ~Inserting(p, i)'
  PROVE  RuleOK(i)'
BY OthersSame, RuleKept DEF SameCalls

(* A step of p on rule i, which no other call is at work on.                *)
LEMMA RuleMine ==
  ASSUME BaseInv, HeapKept, NEW p \in Procs, Others(p), NEW i \in IDs,
         \A q \in Procs \ {p} : ~Working(q, i) /\ ~Inserting(q, i),
         ~Inserting(p, i)',
         IF Working(p, i)' THEN Changing(p, i)' ELSE Settled(i)'
  PROVE  RuleOK(i)'
<1>1. \A q \in Procs \ {p} : ~Working(q, i)' /\ ~Inserting(q, i)'
  BY OthersSame
<1> QED BY <1>1 DEF RuleOK

LEMMA TodoKept ==
  ASSUME BaseInv, BaseInv', TodoOK, HeapKept, IdsKept,
         \A q \in Procs : frame'[q].todo \subseteq frame[q].todo
  PROVE  TodoOK'
<1> SUFFICES ASSUME NEW q \in Procs, NEW i \in frame'[q].todo
             PROVE  heap'[rules'[i]].typ = "local"
  BY DEF TodoOK
<1>1. frame[q] \in Frame /\ i \in frame[q].todo
  BY DEF BaseInv, TypeOK
<1>2. i \in IDs /\ heap[rules[i]].typ = "local"
  BY <1>1 DEF Frame, TodoOK
<1>3. rules[i] # Nil /\ rules'[i] # Nil
  BY <1>1 DEF BaseInv, FrameOK
<1>4. rules'[i] = rules[i]
  BY <1>2, <1>3 DEF IdsKept
<1> QED BY <1>2, <1>3, <1>4, RulePointers DEF HeapKept
-----------------------------------------------------------------------------
(* A step of p that changes at most rule i, hands out no ID and publishes   *)
(* no rule.                                                                 *)
LEMMA RuleStep ==
  ASSUME IdInv, RulesInv, BaseInv', IdsKept, HeapKept, NEW p \in Procs, Others(p),
         NEW i \in IDs, frame'[p].todo \subseteq frame[p].todo,
         frame'[p].pc = "loop" => frame'[p].obj = Nil,
         \A j \in IDs \ {i} :
           /\ SameRule(j) /\ SameObjects(j)
           /\ ~Working(p, j) /\ ~Working(p, j)' /\ ~Inserting(p, j)',
         Working(p, i)' => Working(p, i) \/ rules[i] # Nil,
         i \notin raced' => RuleOK(i)'
  PROVE  RulesInv'
<1>1. BaseInv /\ raced \subseteq raced' /\ nextID' = nextID
  BY DEF IdInv, IdsKept
<1>2. GivenOK'
  <2> SUFFICES ASSUME NEW q \in Procs, NEW j \in IDs, Working(q, j)' PROVE j < nextID'
    BY DEF GivenOK
  <2>1. Working(q, j) \/ rules[j] # Nil
    BY <1>1, OthersSame
  <2> QED BY <1>1, <2>1 DEF RulesInv, GivenOK, IdInv, IdsOK
<1>3. LoopOK'
  BY DEF RulesInv, LoopOK, Others, at
<1>4. TodoOK'
  <2>1. \A q \in Procs : frame'[q].todo \subseteq frame[q].todo
    BY DEF Others
  <2> QED BY <1>1, <2>1, TodoKept DEF RulesInv
<1>5. ASSUME NEW j \in IDs \ raced' PROVE RuleOK(j)'
  <2>1. RuleOK(j)
    BY <1>1, <1>5 DEF RulesInv
  <2> QED BY <1>1, <1>5, <2>1, RuleElsewhere
<1> QED BY <1>2, <1>3, <1>4, <1>5 DEF RulesInv

(* The objects of a rule p works on.                                        *)
On(p, o, i) == frame[p].obj = o /\ heap[o] # Nil /\ heap[o] \in Rule /\ heap[o].id = i

LEMMA OnRule ==
  ASSUME BaseInv, NEW p \in Procs, frame[p].pc \notin {"idle", "loop", "selflock"}
  PROVE  \E o \in Objs, i \in IDs : On(p, o, i)
BY Pointers DEF On, Obj

(* A step in the middle of a call on rule i.                                *)
LEMMA ContinueStep ==
  ASSUME IdInv, RulesInv, BaseInv', IdsKept, HeapKept, NEW p \in Procs, Others(p),
         NEW i \in IDs, NEW o \in Objs, On(p, o, i),
         frame[p].pc \notin {"idle", "insert"}, frame'[p].pc # "insert",
         frame'[p].obj \in {Nil, o}, frame'[p].pc = "loop" => frame'[p].obj = Nil,
         frame'[p].todo \subseteq frame[p].todo,
         \A j \in IDs \ {i} : SameRule(j) /\ SameObjects(j),
         i \notin raced /\ Changing(p, i) =>
           IF Working(p, i)' THEN Changing(p, i)' ELSE Settled(i)'
  PROVE  RulesInv'
<1>1. BaseInv /\ raced \subseteq raced'
  BY DEF IdInv, IdsKept
<1>2. Working(p, i) /\ o # Nil
  BY NilAssumption DEF On, Working, Obj
<1>3. heap'[o] # Nil /\ heap'[o].id = i
  BY DEF HeapKept, On
<1>4. \A j \in IDs \ {i} : ~Working(p, j) /\ ~Working(p, j)'
  BY <1>3 DEF Working, Obj, On
<1>5. \A j \in IDs : ~Inserting(p, j)'
  BY DEF Inserting, at
<1>6. ASSUME i \notin raced' PROVE RuleOK(i)'
  <2>1. RuleOK(i) /\ i \notin raced
    BY <1>1, <1>6 DEF RulesInv
  <2>2. Changing(p, i) /\ \A q \in Procs \ {p} : ~Working(q, i) /\ ~Inserting(q, i)
    BY <1>2, <2>1 DEF RuleOK
  <2> QED BY <1>1, <1>5, <2>1, <2>2, RuleMine
<1> QED BY <1>2, <1>4, <1>5, <1>6, RuleStep

(* A call that begins to work on rule i.  If another is at work on it, the  *)
(* ID is recorded; otherwise the rule is settled.                           *)
LEMMA BeginStep ==
  ASSUME IdInv, RulesInv, BaseInv', IdsKept, HeapKept, NEW p \in Procs, Others(p),
         NEW i \in IDs, rules[i] # Nil, raced' = Overlap(p, i),
         \A j \in IDs : ~Working(p, j), frame'[p].pc # "insert",
         \A j \in IDs \ {i} : ~Working(p, j)' /\ SameRule(j) /\ SameObjects(j),
         frame'[p].todo \subseteq frame[p].todo,
         frame'[p].pc = "loop" => frame'[p].obj = Nil,
         Settled(i) => IF Working(p, i)' THEN Changing(p, i)' ELSE Settled(i)'
  PROVE  RulesInv'
<1>1. BaseInv
  BY DEF IdInv
<1>2. \A j \in IDs : ~Inserting(p, j)'
  BY DEF Inserting, at
<1>3. ASSUME i \notin raced' PROVE RuleOK(i)'
  <2>1. i \notin raced /\ \A q \in Procs \ {p} : ~Working(q, i)
    BY <1>3 DEF Overlap
  <2>2. Settled(i)
    BY <2>1 DEF RulesInv, RuleOK
  <2>3. \A q \in Procs : ~Inserting(q, i)
    BY <2>1 DEF IdInv, IdsOK
  <2> QED BY <1>1, <1>2, <2>1, <2>2, <2>3, RuleMine
<1> QED BY <1>2, <1>3, RuleStep
-----------------------------------------------------------------------------
(* The assignments of the actions.                                          *)
LEMMA GotoFrame ==
  ASSUME BaseInv, NEW p \in Procs, NEW x, frame' = [frame EXCEPT ![p].pc = x]
  PROVE  /\ Others(p) /\ frame'[p].pc = x
         /\ frame'[p].op = frame[p].op /\ frame'[p].obj = frame[p].obj
         /\ frame'[p].ln = frame[p].ln /\ frame'[p].arg = frame[p].arg
         /\ frame'[p].todo = frame[p].todo
<1>1. frame \in [Procs -> Frame]
  BY DEF BaseInv, TypeOK
<1> QED BY <1>1 DEF Frame, Others

LEMMA GotoLnFrame ==
  ASSUME BaseInv, NEW p \in Procs, NEW x \in Labels, NEW l \in Lsns \cup {Nil},
         frame' = [frame EXCEPT ![p].pc = x, ![p].ln = l]
  PROVE  /\ Others(p) /\ frame'[p].pc = x /\ frame'[p].ln = l
         /\ frame'[p].op = frame[p].op /\ frame'[p].obj = frame[p].obj
         /\ frame'[p].arg = frame[p].arg /\ frame'[p].todo = frame[p].todo
<1>1. frame \in [Procs -> Frame]
  BY DEF BaseInv, TypeOK
<1> QED BY <1>1 DEF Frame, Others

LEMMA CallFrame ==
  ASSUME BaseInv, NEW p \in Procs, NEW f, frame' = [frame EXCEPT ![p] = f]
  PROVE  Others(p) /\ frame'[p] = f
BY DEF BaseInv, TypeOK, Others

LEMMA IdleFrame ==
  Idle.pc = "idle" /\ Idle.op = "none" /\ Idle.obj = Nil /\ Idle.todo = {}
BY DEF Idle

(* Assigning to the fields of one rule.                                     *)
LEMMA StatusSet ==
  ASSUME BaseInv, NEW o \in Objs, heap[o] # Nil, NEW s \in Status,
         heap' = SetStatus(o, s)
  PROVE  /\ HeapKept
         /\ \A j \in IDs \ {heap[o].id} : SameObjects(j)
         /\ heap'[o].status = s /\ heap'[o].typ = heap[o].typ /\ heap'[o].id = heap[o].id
         /\ heap'[o].listen = heap[o].listen /\ heap'[o].target = heap[o].target
<1>1. heap \in [Objs -> Rule \cup {Nil}] /\ heap[o] \in Rule
  BY DEF BaseInv, TypeOK
<1>2. \A x \in Objs \ {o} : heap'[x] = heap[x]
  BY <1>1 DEF SetStatus
<1>3. /\ heap'[o].status = s /\ heap'[o].typ = heap[o].typ /\ heap'[o].id = heap[o].id
      /\ heap'[o].listen = heap[o].listen /\ heap'[o].target = heap[o].target
      /\ heap'[o] \in Rule
  BY <1>1 DEF SetStatus, Rule
<1> QED BY <1>2, <1>3, NilAssumption DEF HeapKept, SameObjects

LEMMA ConfigureSet ==
  ASSUME BaseInv, NEW o \in Objs, heap[o] # Nil, NEW a \in Addrs, NEW t \in Targets,
         NEW s \in Status, heap' = Configure(o, a, t, s)
  PROVE  /\ HeapKept
         /\ \A j \in IDs \ {heap[o].id} : SameObjects(j)
         /\ heap'[o].status = s /\ heap'[o].typ = heap[o].typ /\ heap'[o].id = heap[o].id
         /\ heap'[o].listen = a /\ heap'[o].target = t
<1>1. heap \in [Objs -> Rule \cup {Nil}] /\ heap[o] \in Rule
  BY DEF BaseInv, TypeOK
<1>2. \A x \in Objs \ {o} : heap'[x] = heap[x]
  BY <1>1 DEF Configure
<1>3. /\ heap'[o].status = s /\ heap'[o].typ = heap[o].typ /\ heap'[o].id = heap[o].id
      /\ heap'[o].listen = a /\ heap'[o].target = t
      /\ heap'[o] \in Rule
  BY <1>1 DEF Configure, Rule
<1> QED BY <1>2, <1>3, NilAssumption DEF HeapKept, SameObjects

LEMMA HeapSame ==
  ASSUME heap' = heap
  PROVE  HeapKept /\ \A j \in IDs : SameObjects(j)
BY DEF HeapKept, SameObjects

(* Listeners as they were.                                                  *)
LEMMA PortsSame ==
  ASSUME lsn' = lsn
  PROVE  \A j \in IDs : Ports(j)' = Ports(j) /\ \A l \in Ports(j) : lsn'[l].addr = lsn[l].addr
BY DEF Ports

(* One listener, of rule i, opened or closed or neither.                    *)
LEMMA PortsSet ==
  ASSUME BaseInv, NEW i \in IDs, NEW l \in Lsns, NEW r \in Listener,
         lsn' = [lsn EXCEPT ![l] = r], r.id = i,
         lsn[l] # Nil /\ lsn[l].open => lsn[l].id = i
  PROVE  /\ \A j \in IDs \ {i} :
              Ports(j)' = Ports(j) /\ \A m \in Ports(j) : lsn'[m].addr = lsn[m].addr
         /\ Ports(i)' = IF r.open THEN Ports(i) \cup {l} ELSE Ports(i) \ {l}
         /\ \A m \in Lsns \ {l} : lsn'[m] = lsn[m]
         /\ lsn'[l] = r
<1>1. (\A m \in Lsns \ {l} : lsn'[m] = lsn[m]) /\ lsn'[l] = r /\ r # Nil
  BY NilAssumption DEF BaseInv, TypeOK
<1>2. \A j \in IDs \ {i} :
        Ports(j)' = Ports(j) /\ \A m \in Ports(j) : lsn'[m].addr = lsn[m].addr
  BY <1>1 DEF Ports
<1>3. Ports(i)' = IF r.open THEN Ports(i) \cup {l} ELSE Ports(i) \ {l}
  BY <1>1 DEF Ports
<1> QED BY <1>1, <1>2, <1>3

(* A listener that is neither opened nor closed.                            *)
LEMMA PortsUnmoved ==
  ASSUME BaseInv, NEW l \in Lsns, lsn[l] # Nil, NEW r,
         lsn' = [lsn EXCEPT ![l] = r], r # Nil,
         r.id = lsn[l].id, r.open = lsn[l].open, r.addr = lsn[l].addr
  PROVE  \A j \in IDs : Ports(j)' = Ports(j) /\ \A m \in Ports(j) : lsn'[m].addr = lsn[m].addr
<1>1. (\A m \in Lsns \ {l} : lsn'[m] = lsn[m]) /\ lsn'[l] = r
  BY DEF BaseInv, TypeOK
<1> QED BY <1>1 DEF Ports
-----------------------------------------------------------------------------
(* Remote rules                                                             *)

(* The registrations of other rules.                                        *)
LEMMA BackendSet ==
  ASSUME BaseInv, NEW i \in IDs, NEW t, backend' = [backend EXCEPT ![i] = t]
  PROVE  backend'[i] = t /\ \A j \in IDs \ {i} : backend'[j] = backend[j]
BY DEF BaseInv, TypeOK

(* What the stage of a call says of its rule.                               *)
LEMMA RemoteCall ==
  ASSUME NEW p \in Procs, NEW o \in Objs, NEW i \in IDs, On(p, o, i), Changing(p, i),
         frame[p].pc \in {"pend", "rm", "send", "put"}
  PROVE  rules[i] = o /\ o # Nil /\ heap[o].typ = "remote" /\ ChangingRemote(p, i)
<1>1. ~ChangingLocal(p, i)
  BY DEF ChangingLocal
<1> QED BY <1>1, NilAssumption DEF Changing, On, Obj, Rule

LEMMA LocalCall ==
  ASSUME NEW p \in Procs, NEW o \in Objs, NEW i \in IDs, On(p, o, i), Changing(p, i),
         frame[p].pc \notin {"pend", "rm", "send", "put"}
  PROVE  rules[i] = o /\ o # Nil /\ heap[o].typ = "local" /\ ChangingLocal(p, i)
<1>1. ~ChangingRemote(p, i)
  BY DEF ChangingRemote
<1> QED BY <1>1, NilAssumption DEF Changing, On, Obj

LEMMA AddPendingRules ==
  ASSUME IdInv, RulesInv, NEW p \in Procs, AddPending(p)
  PROVE  RulesInv'
<1>1. BaseInv /\ BaseInv' /\ IdsKept
  BY AddPendingBase DEF IdInv
<1>2. /\ frame[p].pc = "pend"
      /\ frame' = [frame EXCEPT ![p] = IF Backend THEN [@ EXCEPT !.pc = "send"] ELSE Idle]
      /\ heap' = SetStatus(frame[p].obj, IF Backend THEN "pending" ELSE "error")
      /\ UNCHANGED <<mu, nextID, rules, lns, stop, lsn, backend, boot, raced>>
  BY DEF AddPending, at
<1>3. PICK o \in Objs, i \in IDs : On(p, o, i)
  BY <1>1, <1>2, OnRule
<1>4. /\ HeapKept /\ \A j \in IDs \ {i} : SameObjects(j)
      /\ heap'[o].typ = heap[o].typ /\ heap'[o].id = i /\ heap'[o].target = heap[o].target
  BY <1>1, <1>2, <1>3, StatusSet DEF On, Status
<1>5. \A j \in IDs : Ports(j)' = Ports(j) /\ \A l \in Ports(j) : lsn'[l].addr = lsn[l].addr
  BY <1>2, PortsSame
<1>6. \A j \in IDs \ {i} : SameRule(j)
  BY <1>2, <1>5 DEF SameRule
<1>7. ASSUME Changing(p, i)
      PROVE  rules[i] = o /\ o # Nil /\ Shut(i)' /\ backend[i] = Nil /\ heap[o].typ = "remote"
  BY <1>2, <1>3, <1>5, <1>7, RemoteCall DEF ChangingRemote, Shut
<1>8. CASE Backend
  <2>1. frame' = [frame EXCEPT ![p].pc = "send"]
    BY <1>2, <1>8
  <2>2. /\ Others(p) /\ frame'[p].pc = "send" /\ frame'[p].obj = o
        /\ frame'[p].todo = frame[p].todo
    BY <1>1, <1>3, <2>1, GotoFrame DEF On
  <2>3. ASSUME Changing(p, i)
        PROVE  IF Working(p, i)' THEN Changing(p, i)' ELSE Settled(i)'
    <3>1. Working(p, i)'
      BY <1>4, <1>7, <2>2, <2>3, <1>3 DEF Working, Obj, HeapKept, On
    <3>2. ChangingRemote(p, i)' /\ rules'[i] = frame'[p].obj /\ Obj(p)'.typ # "local"
      BY <1>2, <1>4, <1>7, <1>8, <2>2, <2>3 DEF ChangingRemote, Obj
    <3> QED BY <3>1, <3>2 DEF Changing
  <2> QED BY <1>1, <1>2, <1>3, <1>4, <1>6, <2>2, <2>3, ContinueStep
<1>9. CASE ~Backend
  <2>1. Others(p) /\ frame'[p] = Idle
    BY <1>1, <1>2, <1>9, CallFrame
  <2>2. ~Working(p, i)'
    BY <2>1, IdleFrame DEF Working
  <2>3. ASSUME Changing(p, i) PROVE Settled(i)'
    BY <1>2, <1>4, <1>7, <1>9, <2>3 DEF Settled, Local, Remote
  <2> QED BY <1>1, <1>2, <1>3, <1>4, <1>6, <2>1, <2>2, <2>3, IdleFrame, ContinueStep
<1> QED BY <1>8, <1>9

LEMMA BackendRemoveRules ==
  ASSUME IdInv, RulesInv, NEW p \in Procs, BackendRemove(p)
  PROVE  RulesInv'
<1>1. BaseInv /\ BaseInv' /\ IdsKept
  BY BackendRemoveBase DEF IdInv
<1>2. /\ frame[p].pc = "rm" /\ frame' = [frame EXCEPT ![p].pc = "send"]
      /\ backend' = [backend EXCEPT ![heap[frame[p].obj].id] = Nil]
      /\ UNCHANGED <<mu, nextID, heap, rules, lns, stop, lsn, boot, raced>>
  BY DEF BackendRemove, at, Goto, Obj
<1>3. PICK o \in Objs, i \in IDs : On(p, o, i)
  BY <1>1, <1>2, OnRule
<1>4. /\ Others(p) /\ frame'[p].pc = "send" /\ frame'[p].obj = o
      /\ frame'[p].todo = frame[p].todo
  BY <1>1, <1>2, <1>3, GotoFrame DEF On
<1>5. HeapKept /\ \A j \in IDs : SameObjects(j)
  BY <1>2, HeapSame
<1>6. \A j \in IDs : Ports(j)' = Ports(j) /\ \A l \in Ports(j) : lsn'[l].addr = lsn[l].addr
  BY <1>2, PortsSame
<1>7. \A j \in IDs \ {i} : backend'[j] = backend[j]
  BY <1>1, <1>2, <1>3, BackendSet DEF On
<1>8. \A j \in IDs \ {i} : SameRule(j)
  BY <1>2, <1>6, <1>7 DEF SameRule
<1>9. ASSUME Changing(p, i) PROVE Working(p, i)' /\ Changing(p, i)'
  <2>1. rules[i] = o /\ o # Nil /\ heap[o].typ = "remote" /\ ChangingRemote(p, i)
    BY <1>2, <1>3, <1>9, RemoteCall
  <2>2. ChangingRemote(p, i)'
    BY <1>2, <1>4, <1>6, <2>1 DEF ChangingRemote, Shut
  <2> QED BY <1>2, <1>3, <1>4, <2>1, <2>2 DEF Changing, Working, Obj, On
<1> QED BY <1>1, <1>2, <1>3, <1>4, <1>5, <1>8, <1>9, ContinueStep

(* The copy that will be registered has the target the rule has: nobody     *)
(* else changes it before the call is over.                                 *)
LEMMA BackendCopyRules ==
  ASSUME IdInv, RulesInv, NEW p \in Procs, BackendCopy(p)
  PROVE  RulesInv'
<1>1. BaseInv /\ BaseInv' /\ IdsKept
  BY BackendCopyBase DEF IdInv
<1>2. /\ frame[p].pc = "send"
      /\ frame' = [frame EXCEPT ![p].pc = "put",
           ![p].arg = [listen |-> Obj(p).listen, target |-> Obj(p).target]]
      /\ UNCHANGED <<mu, nextID, heap, rules, lns, stop, lsn, backend, boot, raced>>
  BY DEF BackendCopy, at
<1>3. PICK o \in Objs, i \in IDs : On(p, o, i)
  BY <1>1, <1>2, OnRule
<1>4. /\ Others(p) /\ frame'[p].pc = "put" /\ frame'[p].obj = o
      /\ frame'[p].todo = frame[p].todo /\ frame'[p].arg.target = heap[o].target
  <2>1. frame \in [Procs -> Frame] /\ heap[o] = Obj(p)
    BY <1>1, <1>3 DEF BaseInv, TypeOK, On, Obj
  <2>2. frame'[p].pc = "put" /\ frame'[p].obj = o /\ frame'[p].todo = frame[p].todo /\ Others(p)
    BY <1>2, <1>3, <2>1 DEF Frame, Others, On
  <2>3. frame'[p].arg = [listen |-> Obj(p).listen, target |-> Obj(p).target]
    BY <1>2, <2>1 DEF Frame
  <2> QED BY <2>1, <2>2, <2>3
<1>5. HeapKept /\ \A j \in IDs : SameObjects(j)
  BY <1>2, HeapSame
<1>6. \A j \in IDs : Ports(j)' = Ports(j) /\ \A l \in Ports(j) : lsn'[l].addr = lsn[l].addr
  BY <1>2, PortsSame
<1>7. \A j \in IDs \ {i} : SameRule(j)
  BY <1>2, <1>6 DEF SameRule
<1>8. ASSUME Changing(p, i) PROVE Working(p, i)' /\ Changing(p, i)'
  <2>1. rules[i] = o /\ o # Nil /\ heap[o].typ = "remote" /\ ChangingRemote(p, i)
    BY <1>2, <1>3, <1>8, RemoteCall
  <2>2. ChangingRemote(p, i)'
    BY <1>2, <1>4, <1>6, <2>1 DEF ChangingRemote, Shut
  <2> QED BY <1>2, <1>3, <1>4, <2>1, <2>2 DEF Changing, Working, Obj, On
<1> QED BY <1>1, <1>2, <1>3, <1>4, <1>5, <1>7, <1>8, ContinueStep

LEMMA BackendAddRules ==
  ASSUME IdInv, RulesInv, NEW p \in Procs, BackendAdd(p)
  PROVE  RulesInv'
<1>1. BaseInv /\ BaseInv' /\ IdsKept
  BY BackendAddBase DEF IdInv
<1>2. /\ frame[p].pc = "put" /\ frame' = [frame EXCEPT ![p] = Idle]
      /\ backend' = [backend EXCEPT ![heap[frame[p].obj].id] = frame[p].arg.target]
      /\ UNCHANGED <<mu, nextID, heap, rules, lns, stop, lsn, boot, raced>>
  BY DEF BackendAdd, at, Return, Obj
<1>3. PICK o \in Objs, i \in IDs : On(p, o, i)
  BY <1>1, <1>2, OnRule
<1>4. Others(p) /\ frame'[p] = Idle
  BY <1>1, <1>2, CallFrame
<1>5. HeapKept /\ \A j \in IDs : SameObjects(j)
  BY <1>2, HeapSame
<1>6. \A j \in IDs : Ports(j)' = Ports(j) /\ \A l \in Ports(j) : lsn'[l].addr = lsn[l].addr
  BY <1>2, PortsSame
<1>7. backend'[i] = frame[p].arg.target /\ \A j \in IDs \ {i} : backend'[j] = backend[j]
  <2>1. backend' = [backend EXCEPT ![i] = frame[p].arg.target]
    BY <1>2, <1>3 DEF On
  <2> QED BY <1>1, <2>1, BackendSet
<1>8. \A j \in IDs \ {i} : SameRule(j)
  BY <1>2, <1>6, <1>7 DEF SameRule
<1>9. ASSUME Changing(p, i) PROVE Settled(i)'
  <2>1. rules[i] = o /\ o # Nil /\ heap[o].typ = "remote" /\ ChangingRemote(p, i)
    BY <1>2, <1>3, <1>9, RemoteCall
  <2>2. Shut(i)' /\ Backend /\ frame[p].arg.target = heap[o].target
    BY <1>2, <1>3, <1>6, <2>1 DEF ChangingRemote, Shut, On
  <2> QED BY <1>2, <1>7, <2>1, <2>2 DEF Settled, Local, Remote
<1>10. ~Working(p, i)'
  BY <1>4, IdleFrame DEF Working
<1> QED BY <1>1, <1>2, <1>3, <1>4, <1>5, <1>8, <1>9, <1>10, IdleFrame, ContinueStep

LEMMA RemoveRemoteRuleRules ==
  ASSUME IdInv, RulesInv, NEW p \in Procs, NEW i \in IDs, RemoveRemoteRule(p, i)
  PROVE  RulesInv'
<1>1. BaseInv /\ BaseInv' /\ IdsKept
  BY RemoveRemoteRuleBase DEF IdInv
<1>2. /\ frame[p].pc = "idle" /\ rules[i] # Nil /\ heap[rules[i]].typ = "remote"
      /\ backend' = IF Backend THEN [backend EXCEPT ![i] = Nil] ELSE backend
      /\ rules' = [rules EXCEPT ![i] = Nil] /\ raced' = Overlap(p, i)
      /\ UNCHANGED <<mu, nextID, heap, lns, stop, lsn, boot, frame>>
  BY DEF RemoveRemoteRule, at
<1>3. \A j \in IDs : ~Working(p, j) /\ ~Working(p, j)'
  BY <1>2 DEF Working
<1>4. HeapKept /\ \A j \in IDs : SameObjects(j)
  BY <1>2, HeapSame
<1>5. \A j \in IDs : Ports(j)' = Ports(j) /\ \A l \in Ports(j) : lsn'[l].addr = lsn[l].addr
  BY <1>2, PortsSame
<1>6. /\ rules'[i] = Nil /\ \A j \in IDs \ {i} : rules'[j] = rules[j] /\ backend'[j] = backend[j]
      /\ backend'[i] = IF Backend THEN Nil ELSE backend[i]
  BY <1>1, <1>2 DEF BaseInv, TypeOK
<1>7. \A j \in IDs \ {i} : SameRule(j)
  BY <1>2, <1>5, <1>6 DEF SameRule
<1>8. ASSUME Settled(i) PROVE Settled(i)'
  <2>1. ~Local(i) /\ ~Local(i)' /\ ~Remote(i)'
    BY <1>2, <1>6 DEF Local, Remote
  <2>2. Shut(i)' /\ backend'[i] = Nil
    BY <1>2, <1>5, <1>6, <1>8, <2>1 DEF Settled, Shut
  <2> QED BY <2>1, <2>2 DEF Settled
<1>9. Others(p)
  BY <1>2 DEF Others
<1> QED BY <1>1, <1>2, <1>3, <1>4, <1>7, <1>8, <1>9, BeginStep

LEMMA UpdateRemoteRuleRules ==
  ASSUME IdInv, RulesInv, NEW p \in Procs, NEW i \in IDs, UpdateRemoteRule(p, i)
  PROVE  RulesInv'
<1>1. BaseInv /\ BaseInv' /\ IdsKept
  BY UpdateRemoteRuleBase DEF IdInv
<1> DEFINE f(o) == [Idle EXCEPT !.pc = "rm", !.op = "update", !.obj = o]
<1>2. PICK a \in Addrs, t \in Targets :
      /\ frame[p].pc = "idle" /\ rules[i] # Nil /\ heap[rules[i]].typ = "remote"
      /\ heap' = Configure(rules[i], a, t, "pending")
      /\ frame' = IF Backend THEN [frame EXCEPT ![p] = f(rules[i])] ELSE frame
      /\ raced' = Overlap(p, i)
      /\ UNCHANGED <<mu, nextID, rules, lns, stop, lsn, backend, boot>>
  BY DEF UpdateRemoteRule, at
<1>3. PICK o \in Objs : o = rules[i] /\ heap[o] # Nil /\ heap[o] \in Rule /\ heap[o].id = i
  BY <1>1, <1>2, RulePointers
<1>4. f(o).pc = "rm" /\ f(o).obj = o /\ f(o).todo = {}
  BY DEF Idle
<1> HIDE DEF f
<1>5. /\ Others(p)
      /\ IF Backend THEN frame'[p] = f(o) ELSE frame'[p] = frame[p]
  BY <1>1, <1>2, <1>3, CallFrame DEF Others
<1>6. /\ HeapKept /\ \A j \in IDs \ {i} : SameObjects(j)
      /\ heap'[o].typ = "remote" /\ heap'[o] # Nil /\ heap'[o].id = i
  BY <1>1, <1>2, <1>3, ConfigureSet DEF Status, HeapKept
<1>7. \A j \in IDs : Ports(j)' = Ports(j) /\ \A l \in Ports(j) : lsn'[l].addr = lsn[l].addr
  BY <1>2, PortsSame
<1>8. \A j \in IDs \ {i} : SameRule(j)
  BY <1>2, <1>7 DEF SameRule
<1>9. \A j \in IDs : ~Working(p, j)
  BY <1>2 DEF Working
<1>10. \A j \in IDs \ {i} : ~Working(p, j)'
  BY <1>2, <1>4, <1>5, <1>6 DEF Working, Obj
<1>11. ASSUME Settled(i) PROVE Shut(i)' /\ (~Backend => backend'[i] = Nil)
  <2>1. ~Local(i)
    BY <1>2 DEF Local
  <2> QED BY <1>2, <1>7, <1>11, <2>1 DEF Settled, Shut
<1>12. ASSUME Settled(i)
       PROVE  IF Working(p, i)' THEN Changing(p, i)' ELSE Settled(i)'
  <2>1. CASE Backend
    <3>1. Working(p, i)'
      BY <1>3, <1>4, <1>5, <1>6, <2>1, NilAssumption DEF Working, Obj
    <3>2. ChangingRemote(p, i)'
      BY <1>4, <1>5, <1>11, <1>12, <2>1 DEF ChangingRemote
    <3> QED BY <1>2, <1>3, <1>4, <1>5, <1>6, <2>1, <3>1, <3>2 DEF Changing, Obj
  <2>2. CASE ~Backend
    <3>1. ~Working(p, i)'
      BY <1>2, <1>5, <2>2 DEF Working
    <3>2. ~Local(i)' /\ Shut(i)' /\ backend'[i] = Nil
      BY <1>2, <1>3, <1>6, <1>11, <1>12, <2>2 DEF Local
    <3> QED BY <2>2, <3>1, <3>2 DEF Settled
  <2> QED BY <2>1, <2>2
<1>13. /\ frame'[p].pc \notin {"insert", "loop"} /\ frame'[p].todo \subseteq frame[p].todo
  BY <1>2, <1>4, <1>5
<1> QED BY <1>1, <1>2, <1>6, <1>5, <1>8, <1>9, <1>10, <1>12, <1>13, BeginStep
-----------------------------------------------------------------------------
(* startLocked and stopLocked                                               *)

(* net.Listen takes the one port of a rule that had none.                   *)
LEMMA StartListenRules ==
  ASSUME IdInv, RulesInv, NEW p \in Procs, StartListen(p)
  PROVE  RulesInv'
<1>1. BaseInv /\ BaseInv' /\ IdsKept
  BY StartListenBase DEF IdInv
<1>2. PICK l \in Lsns :
      /\ frame[p].pc = "listen" /\ Unused(l)
      /\ lsn' = [lsn EXCEPT ![l] = NewListener(Obj(p).id, Obj(p).listen, "none")]
      /\ frame' = [frame EXCEPT ![p].pc = "putLn", ![p].ln = l]
      /\ UNCHANGED <<mu, nextID, heap, rules, lns, stop, backend, boot, raced>>
  BY DEF StartListen, at, CanBind
<1>3. PICK o \in Objs, i \in IDs : On(p, o, i)
  BY <1>1, <1>2, OnRule
<1>4. /\ Others(p) /\ frame'[p].pc = "putLn" /\ frame'[p].ln = l
      /\ frame'[p].op = frame[p].op /\ frame'[p].obj = o /\ frame'[p].todo = frame[p].todo
  <2>1. frame' = [frame EXCEPT ![p].pc = "putLn", ![p].ln = l]
    BY <1>2
  <2>2. /\ Others(p) /\ frame'[p].pc = "putLn" /\ frame'[p].ln = l
        /\ frame'[p].op = frame[p].op /\ frame'[p].obj = frame[p].obj
        /\ frame'[p].todo = frame[p].todo
    BY ZenonT(60), <1>1, <2>1, GotoLnFrame, "putLn" \in Labels DEF Labels
  <2> QED BY <1>3, <2>2 DEF On
<1>5. HeapKept /\ \A j \in IDs : SameObjects(j)
  BY <1>2, HeapSame
<1> DEFINE r == NewListener(i, heap[o].listen, "none")
<1>6. r \in Listener /\ r.id = i /\ r.open /\ r.addr = heap[o].listen
  BY <1>3 DEF NewListener, Listener, On, Rule
<1>7. lsn' = [lsn EXCEPT ![l] = r]
  BY <1>2, <1>3 DEF On, Obj
<1> HIDE DEF r
<1>8. lsn[l] # Nil => ~lsn[l].open
  BY <1>2 DEF Unused
<1>9. /\ \A j \in IDs \ {i} :
           Ports(j)' = Ports(j) /\ \A m \in Ports(j) : lsn'[m].addr = lsn[m].addr
      /\ Ports(i)' = Ports(i) \cup {l} /\ lsn'[l].addr = heap[o].listen
  <2>1. /\ \A j \in IDs \ {i} :
             Ports(j)' = Ports(j) /\ \A m \in Ports(j) : lsn'[m].addr = lsn[m].addr
        /\ Ports(i)' = IF r.open THEN Ports(i) \cup {l} ELSE Ports(i) \ {l}
        /\ lsn'[l] = r
    BY <1>1, <1>6, <1>7, <1>8, PortsSet
  <2> QED BY <1>6, <2>1
<1>10. \A j \in IDs \ {i} : SameRule(j)
  BY <1>2, <1>9 DEF SameRule
<1>11. ASSUME Changing(p, i) PROVE Working(p, i)' /\ Changing(p, i)'
  <2>1. rules[i] = o /\ o # Nil /\ heap[o].typ = "local" /\ ChangingLocal(p, i)
    BY <1>2, <1>3, <1>11, LocalCall
  <2>2. Shut(i)
    BY <1>2, <2>1 DEF ChangingLocal
  <2>3. Holding(i, l)' /\ lns'[i] = Nil /\ stop'[i] = Nil
    BY <1>2, <1>9, <2>1, <2>2 DEF Holding, Shut
  <2>4. ChangingLocal(p, i)'
    BY <1>2, <1>3, <1>4, <2>1, <2>3 DEF ChangingLocal, On
  <2> QED BY <1>2, <1>3, <1>4, <2>1, <2>4 DEF Changing, Working, Obj, On
<1> QED BY <1>1, <1>2, <1>3, <1>4, <1>5, <1>10, <1>11, ContinueStep

LEMMA StartListenFailsRules ==
  ASSUME IdInv, RulesInv, NEW p \in Procs, StartListenFails(p)
  PROVE  RulesInv'
<1>1. BaseInv /\ BaseInv' /\ IdsKept
  BY StartListenFailsBase DEF IdInv
<1>2. /\ frame[p].pc = "listen" /\ frame' = [frame EXCEPT ![p].pc = "fail"]
      /\ UNCHANGED <<mu, nextID, heap, rules, lns, stop, lsn, backend, boot, raced>>
  BY DEF StartListenFails, at, Goto
<1>3. PICK o \in Objs, i \in IDs : On(p, o, i)
  BY <1>1, <1>2, OnRule
<1>4. /\ Others(p) /\ frame'[p].pc = "fail" /\ frame'[p].obj = o
      /\ frame'[p].todo = frame[p].todo
  BY <1>1, <1>2, <1>3, GotoFrame DEF On
<1>5. HeapKept /\ \A j \in IDs : SameObjects(j)
  BY <1>2, HeapSame
<1>6. \A j \in IDs : Ports(j)' = Ports(j) /\ \A l \in Ports(j) : lsn'[l].addr = lsn[l].addr
  BY <1>2, PortsSame
<1>7. \A j \in IDs \ {i} : SameRule(j)
  BY <1>2, <1>6 DEF SameRule
<1>8. ASSUME Changing(p, i) PROVE Working(p, i)' /\ Changing(p, i)'
  <2>1. rules[i] = o /\ o # Nil /\ heap[o].typ = "local" /\ ChangingLocal(p, i)
    BY <1>2, <1>3, <1>8, LocalCall
  <2>2. Shut(i)' /\ backend[i] = Nil
    BY <1>2, <1>6, <2>1 DEF ChangingLocal, Shut
  <2>3. ChangingLocal(p, i)'
    BY <1>2, <1>4, <2>2 DEF ChangingLocal
  <2> QED BY <1>2, <1>3, <1>4, <2>1, <2>3 DEF Changing, Working, Obj, On
<1> QED BY <1>1, <1>2, <1>3, <1>4, <1>5, <1>7, <1>8, ContinueStep

LEMMA StartPutListenerRules ==
  ASSUME IdInv, RulesInv, NEW p \in Procs, StartPutListener(p)
  PROVE  RulesInv'
<1>1. BaseInv /\ BaseInv' /\ IdsKept
  BY StartPutListenerBase DEF IdInv
<1>2. /\ frame[p].pc = "putLn" /\ frame' = [frame EXCEPT ![p].pc = "putStop"]
      /\ lns' = [lns EXCEPT ![Obj(p).id] = frame[p].ln]
      /\ UNCHANGED <<mu, nextID, heap, rules, stop, lsn, backend, boot, raced>>
  BY DEF StartPutListener, at, Goto
<1>3. PICK o \in Objs, i \in IDs : On(p, o, i)
  BY <1>1, <1>2, OnRule
<1>4. /\ Others(p) /\ frame'[p].pc = "putStop" /\ frame'[p].obj = o
      /\ frame'[p].op = frame[p].op /\ frame'[p].ln = frame[p].ln
      /\ frame'[p].todo = frame[p].todo
  BY <1>1, <1>2, <1>3, GotoFrame DEF On
<1>5. HeapKept /\ \A j \in IDs : SameObjects(j)
  BY <1>2, HeapSame
<1>6. \A j \in IDs : Ports(j)' = Ports(j) /\ \A l \in Ports(j) : lsn'[l].addr = lsn[l].addr
  BY <1>2, PortsSame
<1>7. lns'[i] = frame[p].ln /\ \A j \in IDs \ {i} : lns'[j] = lns[j]
  BY <1>1, <1>2, <1>3 DEF On, Obj, BaseInv, TypeOK
<1>8. \A j \in IDs \ {i} : SameRule(j)
  BY <1>2, <1>6, <1>7 DEF SameRule
<1>9. ASSUME Changing(p, i) PROVE Working(p, i)' /\ Changing(p, i)'
  <2>1. rules[i] = o /\ o # Nil /\ heap[o].typ = "local" /\ ChangingLocal(p, i)
    BY <1>2, <1>3, <1>9, LocalCall
  <2>2. Holding(i, frame[p].ln) /\ stop[i] = Nil /\ backend[i] = Nil
    BY <1>2, <2>1 DEF ChangingLocal
  <2>3. Holding(i, frame[p].ln)'
    BY <1>2, <1>4, <1>6, <2>1, <2>2 DEF Holding
  <2>4. ChangingLocal(p, i)'
    BY <1>2, <1>3, <1>4, <1>7, <2>1, <2>2, <2>3 DEF ChangingLocal, On
  <2> QED BY <1>2, <1>3, <1>4, <2>1, <2>4 DEF Changing, Working, Obj, On
<1> QED BY <1>1, <1>2, <1>3, <1>4, <1>5, <1>8, <1>9, ContinueStep
(* An accept loop that starts, reports or ends.                             *)
LEMMA LoopSet ==
  ASSUME BaseInv, NEW l \in Lsns, lsn[l] # Nil, NEW x \in {"none", "accept", "report", "done"},
         lsn' = [lsn EXCEPT ![l].loop = x]
  PROVE  \A j \in IDs : Ports(j)' = Ports(j) /\ \A m \in Ports(j) : lsn'[m].addr = lsn[m].addr
<1> DEFINE r == [lsn[l] EXCEPT !.loop = x]
<1>1. lsn[l] \in Listener
  BY DEF BaseInv, TypeOK
<1>2. /\ r \in Listener /\ r.id = lsn[l].id /\ r.open = lsn[l].open
      /\ r.addr = lsn[l].addr
  BY <1>1 DEF Listener
<1>3. lsn' = [lsn EXCEPT ![l] = r]
  OBVIOUS
<1>4. r # Nil
  BY <1>2, NilAssumption
<1> HIDE DEF r
<1> QED BY <1>2, <1>3, <1>4, PortsUnmoved

(* The stop channel is published: the rule is settled, and running.         *)
LEMMA StartSpawnRules ==
  ASSUME IdInv, RulesInv, NEW p \in Procs, StartSpawn(p)
  PROVE  RulesInv'
<1>1. BaseInv /\ BaseInv' /\ IdsKept
  BY StartSpawnBase DEF IdInv
<1>2. /\ frame[p].pc = "putStop"
      /\ stop' = [stop EXCEPT ![Obj(p).id] = frame[p].ln]
      /\ lsn' = [lsn EXCEPT ![frame[p].ln].loop = "accept"]
      /\ IF frame[p].op = "restart"
         THEN /\ heap' = SetStatus(frame[p].obj, "running")
              /\ frame' = [frame EXCEPT ![p].pc = "loop", ![p].obj = Nil, ![p].ln = Nil]
         ELSE frame' = [frame EXCEPT ![p] = Idle] /\ heap' = heap
      /\ UNCHANGED <<nextID, rules, lns, backend, boot, raced>>
  BY DEF StartSpawn, at, Return
<1>3. PICK o \in Objs, i \in IDs : On(p, o, i)
  BY <1>1, <1>2, OnRule
<1>4. frame[p] \in Frame /\ FrameOK(p)
  BY <1>1 DEF BaseInv, TypeOK
<1>5. frame[p].ln \in Lsns /\ lsn[frame[p].ln] # Nil
  BY <1>2, <1>4 DEF Frame, FrameOK
<1>6. /\ Others(p) /\ frame'[p].todo \subseteq frame[p].todo /\ frame'[p].obj = Nil
      /\ frame'[p].pc \in {"idle", "loop"}
  <2>1. CASE frame[p].op = "restart"
    <3>1. frame' = [frame EXCEPT ![p].pc = "loop", ![p].obj = Nil, ![p].ln = Nil]
      BY <1>2, <2>1
    <3> QED BY <1>1, <1>4, <3>1 DEF BaseInv, TypeOK, Frame, Others
  <2>2. CASE frame[p].op # "restart"
    BY <1>1, <1>2, <2>2, CallFrame, IdleFrame
  <2> QED BY <2>1, <2>2
<1>7. /\ HeapKept /\ \A j \in IDs \ {i} : SameObjects(j)
      /\ heap'[o].typ = heap[o].typ /\ heap'[o].listen = heap[o].listen
      /\ heap'[o].status = IF frame[p].op = "restart" THEN "running" ELSE heap[o].status
  <2>1. CASE frame[p].op = "restart"
    BY <1>1, <1>2, <1>3, <2>1, StatusSet DEF On, Status
  <2>2. CASE frame[p].op # "restart"
    BY <1>2, <2>2, HeapSame
  <2> QED BY <2>1, <2>2
<1>8. \A j \in IDs : Ports(j)' = Ports(j) /\ \A l \in Ports(j) : lsn'[l].addr = lsn[l].addr
  BY <1>1, <1>2, <1>5, LoopSet
<1>9. stop'[i] = frame[p].ln /\ \A j \in IDs \ {i} : stop'[j] = stop[j]
  BY <1>1, <1>2, <1>3 DEF On, Obj, BaseInv, TypeOK
<1>10. \A j \in IDs \ {i} : SameRule(j)
  BY <1>2, <1>8, <1>9 DEF SameRule
<1>11. ASSUME Changing(p, i) PROVE Settled(i)'
  <2>1. rules[i] = o /\ o # Nil /\ heap[o].typ = "local" /\ ChangingLocal(p, i)
    BY <1>2, <1>3, <1>11, LocalCall
  <2>2. Holding(i, lns[i]) /\ lns[i] = frame[p].ln /\ backend[i] = Nil
    BY <1>2, <2>1 DEF ChangingLocal
  <2>3. Holding(i, lns[i])'
    BY <1>2, <1>7, <1>8, <2>1, <2>2 DEF Holding
  <2>4. heap'[o].status = "running"
    BY <1>2, <1>3, <1>7, <2>1 DEF ChangingLocal, On
  <2> QED BY <1>2, <1>7, <1>9, <2>1, <2>2, <2>3, <2>4 DEF Settled, Local
<1>12. ~Working(p, i)'
  BY <1>6 DEF Working
<1> QED BY <1>1, <1>2, <1>3, <1>6, <1>7, <1>10, <1>11, <1>12, ContinueStep

LEMMA StartFailedRules ==
  ASSUME IdInv, RulesInv, NEW p \in Procs, StartFailed(p)
  PROVE  RulesInv'
<1>1. BaseInv /\ BaseInv' /\ IdsKept
  BY StartFailedBase DEF IdInv
<1>2. /\ frame[p].pc = "fail"
      /\ heap' = SetStatus(frame[p].obj, "error")
      /\ frame' = [frame EXCEPT ![p] =
           IF frame[p].op = "restart" THEN [@ EXCEPT !.pc = "selflock"] ELSE Idle]
      /\ UNCHANGED <<nextID, rules, lns, stop, lsn, backend, boot, raced>>
  BY DEF StartFailed, at
<1>3. PICK o \in Objs, i \in IDs : On(p, o, i)
  BY <1>1, <1>2, OnRule
<1>4. /\ HeapKept /\ \A j \in IDs \ {i} : SameObjects(j)
      /\ heap'[o].typ = heap[o].typ /\ heap'[o].id = i /\ heap'[o].status = "error"
  BY <1>1, <1>2, <1>3, StatusSet DEF On, Status
<1>5. \A j \in IDs : Ports(j)' = Ports(j) /\ \A l \in Ports(j) : lsn'[l].addr = lsn[l].addr
  BY <1>2, PortsSame
<1>6. \A j \in IDs \ {i} : SameRule(j)
  BY <1>2, <1>5 DEF SameRule
<1>7. ASSUME Changing(p, i)
      PROVE  rules[i] = o /\ o # Nil /\ Shut(i)' /\ backend[i] = Nil /\ heap[o].typ = "local"
  <2>1. rules[i] = o /\ o # Nil /\ heap[o].typ = "local" /\ ChangingLocal(p, i)
    BY <1>2, <1>3, <1>7, LocalCall
  <2> QED BY <1>2, <1>5, <2>1 DEF ChangingLocal, Shut
<1>8. CASE frame[p].op = "restart"
  <2>1. frame' = [frame EXCEPT ![p].pc = "selflock"]
    BY <1>2, <1>8
  <2>2. /\ Others(p) /\ frame'[p].pc = "selflock" /\ frame'[p].obj = o
        /\ frame'[p].todo = frame[p].todo
    BY <1>1, <1>3, <2>1, GotoFrame DEF On
  <2>3. ASSUME Changing(p, i) PROVE Working(p, i)' /\ Changing(p, i)'
    <3>1. Working(p, i)'
      BY <1>4, <1>7, <2>2, <2>3, <1>3 DEF Working, Obj, HeapKept, On
    <3>2. ChangingLocal(p, i)'
      BY <1>2, <1>4, <1>7, <2>2, <2>3 DEF ChangingLocal
    <3> QED BY <1>2, <1>4, <1>7, <2>2, <2>3, <3>1, <3>2 DEF Changing, Obj
  <2> QED BY <1>1, <1>2, <1>3, <1>4, <1>6, <2>2, <2>3, ContinueStep
<1>9. CASE frame[p].op # "restart"
  <2>1. Others(p) /\ frame'[p] = Idle
    BY <1>1, <1>2, <1>9, CallFrame
  <2>2. ~Working(p, i)'
    BY <2>1, IdleFrame DEF Working
  <2>3. ASSUME Changing(p, i) PROVE Settled(i)'
    BY <1>2, <1>4, <1>7, <2>3 DEF Settled, Local
  <2> QED BY <1>1, <1>2, <1>3, <1>4, <1>6, <2>1, <2>2, <2>3, IdleFrame, ContinueStep
<1> QED BY <1>8, <1>9
LEMMA StopCloseRules ==
  ASSUME IdInv, RulesInv, NEW p \in Procs, StopClose(p)
  PROVE  RulesInv'
<1>1. BaseInv /\ BaseInv' /\ IdsKept
  BY StopCloseBase DEF IdInv
<1>2. /\ frame[p].pc = "stopClose"
      /\ IF lns[Obj(p).id] = Nil
         THEN frame' = [frame EXCEPT ![p].pc = "stopped"] /\ lsn' = lsn
         ELSE /\ lsn' = [lsn EXCEPT ![lns[Obj(p).id]].open = FALSE]
              /\ frame' = [frame EXCEPT ![p].pc = "stopSignal", ![p].ln = lns[Obj(p).id]]
      /\ UNCHANGED <<mu, nextID, heap, rules, lns, stop, backend, boot, raced>>
  BY DEF StopClose, at, Goto
<1>3. PICK o \in Objs, i \in IDs : On(p, o, i)
  BY <1>1, <1>2, OnRule
<1>4. Obj(p).id = i
  BY <1>3 DEF On, Obj
<1>5. HeapKept /\ \A j \in IDs : SameObjects(j)
  BY <1>2, HeapSame
<1>6. ASSUME Changing(p, i)
      PROVE  /\ rules[i] = o /\ o # Nil /\ heap[o].typ = "local" /\ ChangingLocal(p, i)
             /\ Ports(i) \subseteq {lns[i]} /\ stop[i] = lns[i] /\ backend[i] = Nil
  BY <1>2, <1>3, <1>6, LocalCall DEF ChangingLocal
<1>7. CASE lns[i] = Nil
  <2>1. frame' = [frame EXCEPT ![p].pc = "stopped"] /\ lsn' = lsn
    BY <1>2, <1>4, <1>7
  <2>2. /\ Others(p) /\ frame'[p].pc = "stopped" /\ frame'[p].obj = o
        /\ frame'[p].todo = frame[p].todo
    BY <1>1, <1>3, <2>1, GotoFrame DEF On
  <2>3. \A j \in IDs : Ports(j)' = Ports(j) /\ \A l \in Ports(j) : lsn'[l].addr = lsn[l].addr
    BY <2>1, PortsSame
  <2>4. \A j \in IDs \ {i} : SameRule(j)
    BY <1>2, <2>3 DEF SameRule
  <2>5. ASSUME Changing(p, i) PROVE Working(p, i)' /\ Changing(p, i)'
    <3>1. Ports(i) = {}
      BY <1>6, <1>7, <2>5, NilAssumption DEF Ports
    <3>2. ChangingLocal(p, i)'
      BY <1>2, <1>6, <1>7, <2>2, <2>3, <2>5, <3>1 DEF ChangingLocal, Shut
    <3> QED BY <1>2, <1>3, <1>6, <2>2, <2>5, <3>2 DEF Changing, Working, Obj, On
  <2> QED BY <1>1, <1>2, <1>3, <1>5, <2>2, <2>4, <2>5, ContinueStep
<1>8. CASE lns[i] # Nil
  <2>1. /\ lns[i] \in Lsns /\ lsn[lns[i]] # Nil /\ lsn[lns[i]].id = i
        /\ lsn[lns[i]] \in Listener
    BY <1>1, <1>8 DEF BaseInv, TypeOK, RefsOK
  <2>2. PICK l \in Lsns : l = lns[i]
    BY <2>1
  <2>3. frame' = [frame EXCEPT ![p].pc = "stopSignal", ![p].ln = l]
    BY <1>2, <1>4, <1>8, <2>2
  <2>4. /\ Others(p) /\ frame'[p].pc = "stopSignal" /\ frame'[p].obj = o
        /\ frame'[p].todo = frame[p].todo
    <3>1. Others(p) /\ frame'[p].pc = "stopSignal" /\ frame'[p].obj = frame[p].obj
          /\ frame'[p].todo = frame[p].todo
      BY <1>1, <2>3 DEF BaseInv, TypeOK, Frame, Others
    <3> QED BY <1>3, <3>1 DEF On
  <2> DEFINE r == [lsn[l] EXCEPT !.open = FALSE]
  <2>5. r \in Listener /\ r.id = i /\ ~r.open
    BY <2>1, <2>2 DEF Listener
  <2>6. lsn' = [lsn EXCEPT ![l] = r]
    BY <1>2, <1>4, <1>8, <2>2
  <2> HIDE DEF r
  <2>7. /\ \A j \in IDs \ {i} :
             Ports(j)' = Ports(j) /\ \A m \in Ports(j) : lsn'[m].addr = lsn[m].addr
        /\ Ports(i)' = Ports(i) \ {l}
    BY <1>1, <2>1, <2>2, <2>5, <2>6, PortsSet
  <2>8. \A j \in IDs \ {i} : SameRule(j)
    BY <1>2, <2>7 DEF SameRule
  <2>9. ASSUME Changing(p, i) PROVE Working(p, i)' /\ Changing(p, i)'
    <3>1. Ports(i)' = {}
      BY <1>6, <2>2, <2>7, <2>9
    <3>2. ChangingLocal(p, i)'
      BY <1>2, <1>6, <1>8, <2>4, <2>9, <3>1 DEF ChangingLocal
    <3> QED BY <1>2, <1>3, <1>6, <2>4, <2>9, <3>2 DEF Changing, Working, Obj, On
  <2> QED BY <1>1, <1>2, <1>3, <1>5, <2>4, <2>8, <2>9, ContinueStep
<1> QED BY <1>7, <1>8

LEMMA StopSignalRules ==
  ASSUME IdInv, RulesInv, NEW p \in Procs, StopSignal(p)
  PROVE  RulesInv'
<1>1. BaseInv /\ BaseInv' /\ IdsKept
  BY StopSignalBase DEF IdInv
<1>2. /\ frame[p].pc = "stopSignal" /\ stop[Obj(p).id] # Nil
      /\ lsn' = [lsn EXCEPT ![stop[Obj(p).id]].stopped = TRUE]
      /\ lns' = [lns EXCEPT ![Obj(p).id] = Nil]
      /\ stop' = [stop EXCEPT ![Obj(p).id] = Nil]
      /\ heap' = SetStatus(frame[p].obj, "stopped")
      /\ frame' = [frame EXCEPT ![p].pc = "stopped"]
      /\ UNCHANGED <<mu, nextID, rules, backend, boot, raced>>
  BY DEF StopSignal, at, Goto
<1>3. PICK o \in Objs, i \in IDs : On(p, o, i)
  BY <1>1, <1>2, OnRule
<1>4. Obj(p).id = i
  BY <1>3 DEF On, Obj
<1>5. /\ HeapKept /\ \A j \in IDs \ {i} : SameObjects(j)
      /\ heap'[o].typ = heap[o].typ /\ heap'[o].id = i
  BY <1>1, <1>2, <1>3, StatusSet DEF On, Status
<1>6. /\ Others(p) /\ frame'[p].pc = "stopped" /\ frame'[p].obj = o
      /\ frame'[p].todo = frame[p].todo
  BY <1>1, <1>2, <1>3, GotoFrame DEF On
<1>7. PICK l \in Lsns : l = stop[i] /\ lsn[l] # Nil /\ lsn[l] \in Listener
  BY <1>1, <1>2, <1>4 DEF BaseInv, TypeOK, RefsOK
<1>8. \A j \in IDs : Ports(j)' = Ports(j) /\ \A m \in Ports(j) : lsn'[m].addr = lsn[m].addr
  <2> DEFINE r == [lsn[l] EXCEPT !.stopped = TRUE]
  <2>1. r \in Listener /\ r.id = lsn[l].id /\ r.open = lsn[l].open /\ r.addr = lsn[l].addr
    BY <1>7 DEF Listener
  <2>2. lsn' = [lsn EXCEPT ![l] = r]
    BY <1>2, <1>4, <1>7
  <2>3. r # Nil
    BY <2>1, NilAssumption
  <2> HIDE DEF r
  <2> QED BY <1>1, <1>7, <2>1, <2>2, <2>3, PortsUnmoved
<1>9. lns'[i] = Nil /\ stop'[i] = Nil /\ \A j \in IDs \ {i} : lns'[j] = lns[j] /\ stop'[j] = stop[j]
  BY <1>1, <1>2, <1>4 DEF BaseInv, TypeOK
<1>10. \A j \in IDs \ {i} : SameRule(j)
  BY <1>2, <1>8, <1>9 DEF SameRule
<1>11. ASSUME Changing(p, i) PROVE Working(p, i)' /\ Changing(p, i)'
  <2>1. rules[i] = o /\ o # Nil /\ heap[o].typ = "local" /\ ChangingLocal(p, i)
    BY <1>2, <1>3, <1>11, LocalCall
  <2>2. Shut(i)' /\ backend[i] = Nil
    BY <1>2, <1>8, <1>9, <2>1 DEF ChangingLocal, Shut
  <2>3. ChangingLocal(p, i)'
    BY <1>2, <1>6, <2>2 DEF ChangingLocal
  <2>4. Working(p, i)'
    BY <1>3, <1>5, <1>6, <2>1 DEF Working, Obj, HeapKept, On
  <2> QED BY <1>2, <1>5, <1>6, <2>1, <2>3, <2>4 DEF Changing, Obj
<1> QED BY <1>1, <1>2, <1>3, <1>5, <1>6, <1>10, <1>11, ContinueStep

(* A rule on which no calls overlapped has its channel: no panic.           *)
LEMMA StopPanicsRules ==
  ASSUME IdInv, RulesInv, NEW p \in Procs, StopPanics(p)
  PROVE  RulesInv'
<1>1. BaseInv /\ BaseInv' /\ IdsKept
  BY StopPanicsBase DEF IdInv
<1>2. /\ frame[p].pc = "stopSignal" /\ stop[Obj(p).id] = Nil
      /\ IF frame[p].op = "update" THEN frame' = [frame EXCEPT ![p].pc = "dead"]
                                   ELSE frame' = [frame EXCEPT ![p] = Idle]
      /\ UNCHANGED <<nextID, heap, rules, lns, stop, lsn, backend, boot, raced>>
  BY DEF StopPanics, at, Goto, Return
<1>3. PICK o \in Objs, i \in IDs : On(p, o, i)
  BY <1>1, <1>2, OnRule
<1>4. /\ Others(p) /\ frame'[p].pc \in {"dead", "idle"} /\ frame'[p].obj \in {Nil, o}
      /\ frame'[p].todo \subseteq frame[p].todo
  <2>1. CASE frame[p].op = "update"
    BY <1>1, <1>2, <1>3, <2>1, GotoFrame DEF On
  <2>2. CASE frame[p].op # "update"
    BY <1>1, <1>2, <2>2, CallFrame, IdleFrame
  <2> QED BY <2>1, <2>2
<1>5. HeapKept /\ \A j \in IDs : SameObjects(j)
  BY <1>2, HeapSame
<1>6. \A j \in IDs : Ports(j)' = Ports(j) /\ \A l \in Ports(j) : lsn'[l].addr = lsn[l].addr
  BY <1>2, PortsSame
<1>7. \A j \in IDs \ {i} : SameRule(j)
  BY <1>2, <1>6 DEF SameRule
<1>8. ~Changing(p, i)
  BY <1>2, <1>3, LocalCall DEF ChangingLocal, On, Obj
<1> QED BY <1>1, <1>2, <1>3, <1>4, <1>5, <1>7, <1>8, ContinueStep
-----------------------------------------------------------------------------
(* What Remove, Update and Restart do with a stopped rule                   *)

LEMMA RemoveDeleteRules ==
  ASSUME IdInv, RulesInv, NEW p \in Procs, RemoveDelete(p)
  PROVE  RulesInv'
<1>1. BaseInv /\ BaseInv' /\ IdsKept
  BY RemoveDeleteBase DEF IdInv
<1>2. /\ frame[p].pc = "stopped" /\ frame' = [frame EXCEPT ![p] = Idle]
      /\ rules' = [rules EXCEPT ![Obj(p).id] = Nil]
      /\ UNCHANGED <<nextID, heap, lns, stop, lsn, backend, boot, raced>>
  BY DEF RemoveDelete, at, Return
<1>3. PICK o \in Objs, i \in IDs : On(p, o, i)
  BY <1>1, <1>2, OnRule
<1>4. Others(p) /\ frame'[p] = Idle
  BY <1>1, <1>2, CallFrame
<1>5. HeapKept /\ \A j \in IDs : SameObjects(j)
  BY <1>2, HeapSame
<1>6. \A j \in IDs : Ports(j)' = Ports(j) /\ \A l \in Ports(j) : lsn'[l].addr = lsn[l].addr
  BY <1>2, PortsSame
<1>7. rules'[i] = Nil /\ \A j \in IDs \ {i} : rules'[j] = rules[j]
  BY <1>1, <1>2, <1>3 DEF On, Obj, BaseInv, TypeOK
<1>8. \A j \in IDs \ {i} : SameRule(j)
  BY <1>2, <1>6, <1>7 DEF SameRule
<1>9. ASSUME Changing(p, i) PROVE Settled(i)'
  <2>1. ChangingLocal(p, i)
    BY <1>2, <1>3, <1>9, LocalCall
  <2>2. Shut(i)' /\ backend'[i] = Nil
    BY <1>2, <1>6, <2>1 DEF ChangingLocal, Shut
  <2> QED BY <1>7, <2>2 DEF Settled, Local, Remote
<1>10. ~Working(p, i)'
  BY <1>4, IdleFrame DEF Working
<1> QED BY <1>1, <1>2, <1>3, <1>4, <1>5, <1>8, <1>9, <1>10, IdleFrame, ContinueStep

LEMMA UpdateApplyRules ==
  ASSUME IdInv, RulesInv, NEW p \in Procs, UpdateApply(p)
  PROVE  RulesInv'
<1>1. BaseInv /\ BaseInv' /\ IdsKept
  BY UpdateApplyBase DEF IdInv
<1>2. /\ frame[p].pc = "stopped" /\ frame[p].op = "update"
      /\ heap' = Configure(frame[p].obj, frame[p].arg.listen, frame[p].arg.target, "running")
      /\ frame' = [frame EXCEPT ![p].pc = "listen", ![p].ln = Nil]
      /\ UNCHANGED <<mu, nextID, rules, lns, stop, lsn, backend, boot, raced>>
  BY DEF UpdateApply, at
<1>3. PICK o \in Objs, i \in IDs : On(p, o, i)
  BY <1>1, <1>2, OnRule
<1>4. frame[p].arg.listen \in Addrs /\ frame[p].arg.target \in Targets
  BY <1>1, <1>2 DEF BaseInv, TypeOK, FrameOK, Frame
<1>5. /\ HeapKept /\ \A j \in IDs \ {i} : SameObjects(j)
      /\ heap'[o].typ = heap[o].typ /\ heap'[o].id = i /\ heap'[o].status = "running"
  BY <1>1, <1>2, <1>3, <1>4, ConfigureSet DEF On, Status
<1>6. /\ Others(p) /\ frame'[p].pc = "listen" /\ frame'[p].obj = o
      /\ frame'[p].todo = frame[p].todo
  <2>1. Others(p) /\ frame'[p].pc = "listen" /\ frame'[p].obj = frame[p].obj
        /\ frame'[p].todo = frame[p].todo
    BY <1>1, <1>2 DEF BaseInv, TypeOK, Frame, Others
  <2> QED BY <1>3, <2>1 DEF On
<1>7. \A j \in IDs : Ports(j)' = Ports(j) /\ \A l \in Ports(j) : lsn'[l].addr = lsn[l].addr
  BY <1>2, PortsSame
<1>8. \A j \in IDs \ {i} : SameRule(j)
  BY <1>2, <1>7 DEF SameRule
<1>9. ASSUME Changing(p, i) PROVE Working(p, i)' /\ Changing(p, i)'
  <2>1. rules[i] = o /\ o # Nil /\ heap[o].typ = "local" /\ ChangingLocal(p, i)
    BY <1>2, <1>3, <1>9, LocalCall
  <2>2. Shut(i)' /\ backend[i] = Nil
    BY <1>2, <1>7, <2>1 DEF ChangingLocal, Shut
  <2>3. ChangingLocal(p, i)'
    BY <1>2, <1>5, <1>6, <2>2 DEF ChangingLocal
  <2>4. Working(p, i)'
    BY <1>3, <1>5, <1>6, <2>1 DEF Working, Obj, HeapKept, On
  <2> QED BY <1>2, <1>5, <1>6, <2>1, <2>3, <2>4 DEF Changing, Obj
<1> QED BY <1>1, <1>2, <1>3, <1>5, <1>6, <1>8, <1>9, ContinueStep

LEMMA RestartStartRules ==
  ASSUME IdInv, RulesInv, NEW p \in Procs, RestartStart(p)
  PROVE  RulesInv'
<1>1. BaseInv /\ BaseInv' /\ IdsKept
  BY RestartStartBase DEF IdInv
<1>2. /\ frame[p].pc = "stopped" /\ frame[p].op = "restart"
      /\ frame' = [frame EXCEPT ![p].pc = "listen", ![p].ln = Nil]
      /\ UNCHANGED <<mu, nextID, heap, rules, lns, stop, lsn, backend, boot, raced>>
  BY DEF RestartStart, at
<1>3. PICK o \in Objs, i \in IDs : On(p, o, i)
  BY <1>1, <1>2, OnRule
<1>4. HeapKept /\ \A j \in IDs : SameObjects(j)
  BY <1>2, HeapSame
<1>5. /\ Others(p) /\ frame'[p].pc = "listen" /\ frame'[p].obj = o
      /\ frame'[p].todo = frame[p].todo /\ frame'[p].op = "restart"
  <2>1. Others(p) /\ frame'[p].pc = "listen" /\ frame'[p].obj = frame[p].obj
        /\ frame'[p].todo = frame[p].todo /\ frame'[p].op = frame[p].op
    BY <1>1, <1>2 DEF BaseInv, TypeOK, Frame, Others
  <2> QED BY <1>2, <1>3, <2>1 DEF On
<1>6. \A j \in IDs : Ports(j)' = Ports(j) /\ \A l \in Ports(j) : lsn'[l].addr = lsn[l].addr
  BY <1>2, PortsSame
<1>7. \A j \in IDs \ {i} : SameRule(j)
  BY <1>2, <1>6 DEF SameRule
<1>8. ASSUME Changing(p, i) PROVE Working(p, i)' /\ Changing(p, i)'
  <2>1. rules[i] = o /\ o # Nil /\ heap[o].typ = "local" /\ ChangingLocal(p, i)
    BY <1>2, <1>3, <1>8, LocalCall
  <2>2. Shut(i)' /\ backend[i] = Nil
    BY <1>2, <1>6, <2>1 DEF ChangingLocal, Shut
  <2>3. ChangingLocal(p, i)'
    BY <1>2, <1>5, <2>2 DEF ChangingLocal
  <2> QED BY <1>2, <1>3, <1>5, <2>1, <2>3 DEF Changing, Working, Obj, On
<1> QED BY <1>1, <1>2, <1>3, <1>4, <1>5, <1>7, <1>8, ContinueStep
-----------------------------------------------------------------------------
(* The calls that stop a local rule first, and the reports on remote ones   *)

LEMMA StopBegins ==
  ASSUME IdInv, RulesInv, BaseInv', IdsKept, NEW p \in Procs, Others(p), NEW i \in IDs,
         rules[i] # Nil, heap[rules[i]].typ = "local", raced' = Overlap(p, i),
         \A j \in IDs : ~Working(p, j),
         frame'[p].pc = "stopClose", frame'[p].obj = rules[i],
         frame'[p].todo \subseteq frame[p].todo,
         UNCHANGED <<heap, rules, lns, stop, lsn, backend>>
  PROVE  RulesInv'
<1>1. BaseInv
  BY DEF IdInv
<1>2. PICK o \in Objs : o = rules[i] /\ heap[o] # Nil /\ heap[o] \in Rule /\ heap[o].id = i
  BY <1>1, RulePointers
<1>3. HeapKept /\ \A j \in IDs : SameObjects(j)
  BY HeapSame
<1>4. \A j \in IDs : Ports(j)' = Ports(j) /\ \A l \in Ports(j) : lsn'[l].addr = lsn[l].addr
  BY PortsSame
<1>5. \A j \in IDs : SameRule(j)
  BY <1>4 DEF SameRule
<1>6. \A j \in IDs \ {i} : ~Working(p, j)'
  BY <1>2 DEF Working, Obj
<1>7. ASSUME Settled(i) PROVE Working(p, i)' /\ Changing(p, i)'
  <2>1. /\ backend[i] = Nil /\ stop[i] = lns[i]
        /\ Ports(i) \subseteq {lns[i]}
    BY <1>7 DEF Settled, Local, Shut, Holding
  <2>2. ChangingLocal(p, i)'
    BY <1>4, <2>1 DEF ChangingLocal
  <2> QED BY <1>2, <2>2 DEF Changing, Working, Obj
<1> QED BY <1>1, <1>3, <1>5, <1>6, <1>7, BeginStep

LEMMA RemoveBeginRules ==
  ASSUME IdInv, RulesInv, NEW p \in Procs, NEW i \in IDs, RemoveBegin(p, i)
  PROVE  RulesInv'
<1>1. BaseInv /\ BaseInv' /\ IdsKept
  BY RemoveBeginBase DEF IdInv
<1> DEFINE f == [Idle EXCEPT !.pc = "stopClose", !.op = "remove", !.obj = rules[i]]
<1>2. /\ frame[p].pc = "idle" /\ rules[i] # Nil /\ heap[rules[i]].typ = "local"
      /\ frame' = [frame EXCEPT ![p] = f] /\ raced' = Overlap(p, i)
      /\ UNCHANGED <<nextID, heap, rules, lns, stop, lsn, backend, boot>>
  BY DEF RemoveBegin, at
<1>3. f.pc = "stopClose" /\ f.obj = rules[i] /\ f.todo = {}
  BY DEF Idle
<1> HIDE DEF f
<1>4. Others(p) /\ frame'[p] = f
  BY <1>1, <1>2, CallFrame
<1>5. \A j \in IDs : ~Working(p, j)
  BY <1>2 DEF Working
<1> QED BY <1>1, <1>2, <1>3, <1>4, <1>5, StopBegins

LEMMA UpdateBeginRules ==
  ASSUME IdInv, RulesInv, NEW p \in Procs, NEW i \in IDs, UpdateBegin(p, i)
  PROVE  RulesInv'
<1>1. BaseInv /\ BaseInv' /\ IdsKept
  BY UpdateBeginBase DEF IdInv
<1> DEFINE f(o, a, t) == [Idle EXCEPT !.pc = "stopClose", !.op = "update", !.obj = o,
                                      !.arg = [listen |-> a, target |-> t]]
<1>2. PICK a \in Addrs, t \in Targets :
      /\ frame[p].pc = "idle" /\ rules[i] # Nil /\ heap[rules[i]].typ = "local"
      /\ frame' = [frame EXCEPT ![p] = f(rules[i], a, t)] /\ raced' = Overlap(p, i)
      /\ UNCHANGED <<nextID, heap, rules, lns, stop, lsn, backend, boot>>
  BY DEF UpdateBegin, at
<1>3. /\ f(rules[i], a, t).pc = "stopClose" /\ f(rules[i], a, t).obj = rules[i]
      /\ f(rules[i], a, t).todo = {}
  BY DEF Idle
<1> HIDE DEF f
<1>4. Others(p) /\ frame'[p] = f(rules[i], a, t)
  BY <1>1, <1>2, CallFrame
<1>5. \A j \in IDs : ~Working(p, j)
  BY <1>2 DEF Working
<1> QED BY <1>1, <1>2, <1>3, <1>4, <1>5, StopBegins

LEMMA RestartRuleRules ==
  ASSUME IdInv, RulesInv, NEW p \in Procs, NEW i \in IDs, RestartRule(p, i)
  PROVE  RulesInv'
<1>1. BaseInv /\ BaseInv' /\ IdsKept
  BY RestartRuleBase DEF IdInv
<1>2. /\ frame[p].pc = "loop" /\ i \in frame[p].todo
      /\ frame' = [frame EXCEPT
           ![p].pc = "stopClose", ![p].obj = rules[i], ![p].todo = @ \ {i}]
      /\ raced' = Overlap(p, i)
      /\ UNCHANGED <<mu, nextID, heap, rules, lns, stop, lsn, backend, boot>>
  BY DEF RestartRule, at
<1>3. frame[p].obj = Nil
  BY <1>2 DEF RulesInv, LoopOK, at
<1>4. rules[i] # Nil /\ heap[rules[i]].typ = "local"
  BY <1>1, <1>2 DEF RulesInv, TodoOK, BaseInv, FrameOK
<1>5. /\ Others(p) /\ frame'[p].pc = "stopClose" /\ frame'[p].obj = rules[i]
      /\ frame'[p].todo \subseteq frame[p].todo
  <2>1. frame \in [Procs -> Frame]
    BY <1>1 DEF BaseInv, TypeOK
  <2> QED BY <1>2, <2>1 DEF Frame, Others
<1>6. \A j \in IDs : ~Working(p, j)
  BY <1>3 DEF Working
<1> QED BY <1>1, <1>2, <1>4, <1>5, <1>6, StopBegins

(* A report changes the address and the status of a remote rule, whoever is *)
(* at work on it.                                                           *)
LEMMA Reported ==
  ASSUME IdInv, RulesInv, BaseInv', IdsKept, HeapKept, NEW p \in Procs, Others(p),
         NEW i \in IDs, rules[i] # Nil, heap[rules[i]].typ = "remote",
         \A j \in IDs : ~Working(p, j) /\ ~Working(p, j)' /\ ~Inserting(p, j)',
         \A j \in IDs \ {i} : SameObjects(j),
         heap'[rules[i]].target = heap[rules[i]].target,
         frame'[p].todo \subseteq frame[p].todo, frame'[p].pc = "loop" => frame'[p].obj = Nil,
         UNCHANGED <<rules, lns, stop, lsn, backend, raced>>
  PROVE  RulesInv'
<1>1. BaseInv
  BY DEF IdInv
<1>2. PICK o \in Objs : /\ o = rules[i] /\ heap[o] # Nil /\ heap[o] \in Rule /\ heap[o].id = i
                        /\ heap'[o] # Nil /\ heap'[o].typ = "remote" /\ heap[o].typ = "remote"
                        /\ heap'[o].target = heap[o].target
  BY <1>1, RulePointers DEF HeapKept
<1>3. \A j \in IDs : Ports(j)' = Ports(j) /\ \A l \in Ports(j) : lsn'[l].addr = lsn[l].addr
  BY PortsSame
<1>4. \A j \in IDs : SameRule(j)
  BY <1>3 DEF SameRule
<1>5. ASSUME i \notin raced PROVE RuleOK(i)'
  <2>1. RuleOK(i)
    BY <1>5 DEF RulesInv
  <2>2. \A q \in Procs : ~Inserting(q, i)'
    BY <1>1, <1>2, <1>5, OthersSame DEF IdInv, IdsOK
  <2>3. ASSUME NEW q \in Procs, Working(q, i)' PROVE Working(q, i) /\ Changing(q, i)'
    <3>1. q # p /\ Working(q, i) /\ frame'[q] = frame[q]
      BY <1>1, <2>3, OthersSame
    <3>2. Changing(q, i) /\ frame[q].obj = o
      BY <1>2, <2>1, <3>1 DEF RuleOK, Changing
    <3>3. ChangingRemote(q, i)
      BY <1>2, <3>2 DEF Changing, Obj
    <3>4. ChangingRemote(q, i)'
      BY <1>2, <1>3, <3>1, <3>2, <3>3 DEF ChangingRemote, Shut
    <3> QED BY <1>2, <3>1, <3>2, <3>4 DEF Changing, Obj
  <2>4. ASSUME \A q \in Procs : ~Working(q, i)' PROVE Settled(i)'
    <3>1. Settled(i)
      BY <1>1, <2>1, <2>4, OthersSame DEF RuleOK
    <3>2. Shut(i)' /\ backend[i] = IF Backend THEN heap[o].target ELSE Nil
      BY <1>2, <1>3, <3>1 DEF Settled, Local, Remote, Shut
    <3> QED BY <1>2, <3>2 DEF Settled, Local, Remote
  <2> QED BY <2>1, <2>2, <2>3, <2>4 DEF RuleOK
<1> QED BY <1>2, <1>4, <1>5, RuleStep

LEMMA ReportRunningRules ==
  ASSUME IdInv, RulesInv, NEW p \in Procs, NEW i \in IDs, ReportRunning(p, i)
  PROVE  RulesInv'
<1>1. BaseInv /\ BaseInv' /\ IdsKept
  BY ReportRunningBase DEF IdInv
<1>2. PICK a \in Addrs \cup {Nil} :
      /\ frame[p].pc = "idle" /\ rules[i] # Nil /\ heap[rules[i]].typ = "remote"
      /\ heap' = Configure(rules[i], IF a = Nil THEN heap[rules[i]].listen ELSE a,
                           heap[rules[i]].target, "running")
      /\ UNCHANGED <<rules, lns, stop, lsn, backend, frame, raced>>
  BY DEF ReportRunning, at
<1>3. PICK o \in Objs : o = rules[i] /\ heap[o] # Nil /\ heap[o] \in Rule /\ heap[o].id = i
  BY <1>1, <1>2, RulePointers
<1>4. PICK b \in Addrs : heap' = Configure(o, b, heap[o].target, "running")
  BY <1>2, <1>3 DEF Rule
<1>5. heap[o].target \in Targets /\ "running" \in Status
  BY <1>3 DEF Rule, Status
<1>6. HeapKept /\ (\A j \in IDs \ {i} : SameObjects(j)) /\ heap'[o].target = heap[o].target
  BY <1>1, <1>3, <1>4, <1>5, ConfigureSet
<1>7. \A j \in IDs : ~Working(p, j) /\ ~Working(p, j)' /\ ~Inserting(p, j)'
  BY <1>2 DEF Working, Inserting, at
<1>8. Others(p)
  BY <1>2 DEF Others
<1> QED BY <1>1, <1>2, <1>3, <1>6, <1>7, <1>8, Reported

LEMMA ReportErrorRules ==
  ASSUME IdInv, RulesInv, NEW p \in Procs, NEW i \in IDs, ReportError(p, i)
  PROVE  RulesInv'
<1>1. BaseInv /\ BaseInv' /\ IdsKept
  BY ReportErrorBase DEF IdInv
<1> DEFINE f == [Idle EXCEPT !.pc = "selflock", !.op = "report"]
<1>2. /\ frame[p].pc = "idle" /\ rules[i] # Nil /\ heap[rules[i]].typ = "remote"
      /\ heap' = SetStatus(rules[i], "error") /\ frame' = [frame EXCEPT ![p] = f]
      /\ UNCHANGED <<rules, lns, stop, lsn, backend, raced>>
  BY DEF ReportError, at
<1>3. f.pc = "selflock" /\ f.obj = Nil /\ f.todo = {}
  BY DEF Idle
<1> HIDE DEF f
<1>4. PICK o \in Objs : o = rules[i] /\ heap[o] # Nil /\ heap[o] \in Rule /\ heap[o].id = i
  BY <1>1, <1>2, RulePointers
<1>5. HeapKept /\ (\A j \in IDs \ {i} : SameObjects(j)) /\ heap'[o].target = heap[o].target
  BY <1>1, <1>2, <1>4, StatusSet DEF Status
<1>6. Others(p) /\ frame'[p] = f
  BY <1>1, <1>2, CallFrame
<1>7. \A j \in IDs : ~Working(p, j) /\ ~Working(p, j)' /\ ~Inserting(p, j)'
  BY <1>2, <1>3, <1>6 DEF Working, Inserting, at
<1> QED BY <1>1, <1>2, <1>3, <1>4, <1>5, <1>6, <1>7, Reported
-----------------------------------------------------------------------------
(* Steps that touch no rule: Restart between two rules, the accept loops    *)

LEMMA NothingTouched ==
  ASSUME BaseInv, RulesInv, raced' = raced, TodoOK', LoopOK',
         \A j \in IDs : SameCalls(j) /\ Ports(j)' = Ports(j) /\ \A l \in Ports(j) : lsn'[l].addr = lsn[l].addr,
         UNCHANGED <<nextID, heap, rules, lns, stop, backend>>
  PROVE  RulesInv'
<1>1. \A j \in IDs : SameRule(j) /\ SameObjects(j)
  BY DEF SameRule, SameObjects
<1>2. ASSUME NEW j \in IDs \ raced' PROVE RuleOK(j)'
  BY <1>1, <1>2, RuleKept DEF RulesInv
<1>3. GivenOK'
  BY DEF RulesInv, GivenOK, SameCalls
<1> QED BY <1>2, <1>3 DEF RulesInv

LEMMA LoopSteps ==
  ASSUME BaseInv, RulesInv, lsn' = lsn \/ \E l \in Lsns : \E x \in {"done", "report"} :
                              lsn[l] # Nil /\ lsn' = [lsn EXCEPT ![l].loop = x],
         UNCHANGED <<nextID, heap, rules, lns, stop, backend, frame, raced>>
  PROVE  RulesInv'
<1>1. \A j \in IDs : Ports(j)' = Ports(j) /\ \A m \in Ports(j) : lsn'[m].addr = lsn[m].addr
  <2>1. CASE lsn' = lsn
    BY <2>1, PortsSame
  <2>2. ASSUME NEW l \in Lsns, NEW x \in {"done", "report"},
               lsn[l] # Nil, lsn' = [lsn EXCEPT ![l].loop = x]
        PROVE  \A j \in IDs : Ports(j)' = Ports(j) /\ \A m \in Ports(j) : lsn'[m].addr = lsn[m].addr
    BY <2>2, LoopSet
  <2> QED BY <2>1, <2>2
<1>2. \A j \in IDs : SameCalls(j)
  BY DEF SameCalls, Working, Inserting, Obj, at
<1>3. LoopOK' /\ TodoOK'
  BY DEF RulesInv, LoopOK, TodoOK, at
<1> QED BY <1>1, <1>2, <1>3, NothingTouched

LEMMA RestartBeginRules ==
  ASSUME IdInv, RulesInv, NEW p \in Procs, RestartBegin(p)
  PROVE  RulesInv'
<1> DEFINE S == {i \in IDs : rules[i] # Nil /\ heap[rules[i]].typ = "local"}
           f == [Idle EXCEPT !.pc = "loop", !.op = "restart", !.todo = S]
<1>1. /\ frame[p].pc = "idle" /\ frame' = [frame EXCEPT ![p] = f]
      /\ UNCHANGED <<nextID, heap, rules, lns, stop, lsn, backend, boot, raced>>
  BY DEF RestartBegin, at
<1>2. f.pc = "loop" /\ f.obj = Nil /\ f.todo = S
  BY DEF Idle
<1> HIDE DEF f
<1>3. BaseInv
  BY DEF IdInv
<1>4. Others(p) /\ frame'[p] = f
  BY <1>1, <1>3, CallFrame
<1>5. HeapKept
  BY <1>1, HeapSame
<1>6. ASSUME NEW j \in IDs PROVE SameCalls(j)
  <2>1. ~Working(p, j) /\ ~Working(p, j)' /\ ~Inserting(p, j)'
    BY <1>1, <1>2, <1>4 DEF Working, Inserting, at
  <2> QED BY <1>3, <1>4, <1>5, <2>1, OthersSame DEF SameCalls
<1>7. \A j \in IDs : Ports(j)' = Ports(j) /\ \A l \in Ports(j) : lsn'[l].addr = lsn[l].addr
  BY <1>1, PortsSame
<1>8. TodoOK'
  BY <1>1, <1>2, <1>4 DEF RulesInv, TodoOK, Others
<1>9. LoopOK'
  BY <1>2, <1>4 DEF RulesInv, LoopOK, Others, at
<1> QED BY <1>1, <1>3, <1>6, <1>7, <1>8, <1>9, NothingTouched

LEMMA RestartEndRules ==
  ASSUME IdInv, RulesInv, NEW p \in Procs, RestartEnd(p)
  PROVE  RulesInv'
<1>1. /\ frame[p].pc = "loop" /\ frame' = [frame EXCEPT ![p] = Idle]
      /\ UNCHANGED <<nextID, heap, rules, lns, stop, lsn, backend, boot, raced>>
  BY DEF RestartEnd, Return, at
<1>2. frame[p].obj = Nil
  BY <1>1 DEF RulesInv, LoopOK, at
<1>3. BaseInv
  BY DEF IdInv
<1>4. Others(p) /\ frame'[p] = Idle
  BY <1>1, <1>3, CallFrame
<1>5. HeapKept
  BY <1>1, HeapSame
<1>6. ASSUME NEW j \in IDs PROVE SameCalls(j)
  <2>1. ~Working(p, j) /\ ~Working(p, j)' /\ ~Inserting(p, j)'
    BY <1>2, <1>4, IdleFrame DEF Working, Inserting, at
  <2> QED BY <1>3, <1>4, <1>5, <2>1, OthersSame DEF SameCalls
<1>7. \A j \in IDs : Ports(j)' = Ports(j) /\ \A l \in Ports(j) : lsn'[l].addr = lsn[l].addr
  BY <1>1, PortsSame
<1>8. TodoOK'
  BY <1>1, <1>4, IdleFrame DEF RulesInv, TodoOK, Others
<1>9. LoopOK'
  BY <1>4, IdleFrame DEF RulesInv, LoopOK, Others, at
<1> QED BY <1>1, <1>3, <1>6, <1>7, <1>8, <1>9, NothingTouched
-----------------------------------------------------------------------------
(* New rules                                                                *)

LEMMA ObjectMade ==
  ASSUME BaseInv, NEW o \in Objs, heap[o] = Nil, NEW r \in Rule, heap' = [heap EXCEPT ![o] = r]
  PROVE  HeapKept /\ (\A j \in IDs : SameObjects(j)) /\ heap'[o] = r /\ r # Nil
<1>1. \A x \in Objs \ {o} : heap'[x] = heap[x]
  BY DEF BaseInv, TypeOK
<1>2. heap'[o] = r /\ r # Nil
  BY NilAssumption DEF BaseInv, TypeOK
<1> QED BY <1>1, <1>2 DEF HeapKept, SameObjects

(* Add reads the next ID: no call works on it yet, and its rule is absent.  *)
LEMMA AddBeginRules ==
  ASSUME IdInv, RulesInv, NEW p \in Procs, AddBegin(p)
  PROVE  RulesInv'
<1> DEFINE f(o) == [Idle EXCEPT !.pc = "insert", !.op = "add", !.obj = o]
<1>1. PICK o \in Objs, r \in Rule :
        /\ heap[o] = Nil /\ heap' = [heap EXCEPT ![o] = r]
        /\ r.id = nextID /\ r.status = "running" /\ frame' = [frame EXCEPT ![p] = f(o)]
  <2>1. PICK o \in Objs, c \in Config :
          /\ heap[o] = Nil
          /\ heap' = [heap EXCEPT ![o] =
               [id |-> nextID, typ |-> c.typ, listen |-> c.listen,
                target |-> c.target, status |-> "running"]]
          /\ frame' = [frame EXCEPT ![p] = f(o)]
    BY DEF AddBegin
  <2>2. [id |-> nextID, typ |-> c.typ, listen |-> c.listen,
         target |-> c.target, status |-> "running"] \in Rule
    BY <2>1 DEF AddBegin, Config, Rule, Status
  <2> QED BY <2>1, <2>2
<1>2. /\ frame[p].pc = "idle" /\ nextID \in IDs
      /\ raced \subseteq raced'
      /\ UNCHANGED <<nextID, rules, lns, stop, lsn, backend, boot>>
  BY DEF AddBegin, at
<1>3. f(o).pc = "insert" /\ f(o).obj = o /\ f(o).todo = {}
  BY DEF Idle
<1> HIDE DEF f
<1>4. BaseInv
  BY DEF IdInv
<1>5. Others(p) /\ frame'[p] = f(o)
  BY <1>1, <1>4, CallFrame
<1>6. HeapKept /\ (\A j \in IDs : SameObjects(j)) /\ heap'[o] = r
  BY <1>1, <1>4, ObjectMade
<1>7. \A j \in IDs : Ports(j)' = Ports(j) /\ \A l \in Ports(j) : lsn'[l].addr = lsn[l].addr
  BY <1>2, PortsSame
<1>8. \A j \in IDs : SameRule(j)
  BY <1>2, <1>7 DEF SameRule
<1>9. \A j \in IDs : ~Working(p, j) /\ ~Working(p, j)' /\ (Inserting(p, j)' => j = nextID)
  BY <1>1, <1>2, <1>3, <1>5, <1>6 DEF Working, Inserting, Obj, at
<1>10. ASSUME NEW j \in IDs, j = nextID
       PROVE  \A q \in Procs : ~Working(q, j) /\ ~Working(q, j)'
  <2>1. \A q \in Procs : ~Working(q, j)
    BY <1>2, <1>10, MaxIDAssumption DEF RulesInv, GivenOK, IDs
  <2> QED BY <1>4, <1>5, <1>6, <1>9, <2>1, OthersSame
<1>11. ASSUME NEW j \in IDs \ raced' PROVE RuleOK(j)'
  <2>1. RuleOK(j)
    BY <1>2, <1>11 DEF RulesInv
  <2>2. CASE j # nextID
    BY <1>4, <1>5, <1>6, <1>8, <1>9, <2>1, <2>2, RuleElsewhere
  <2>3. CASE j = nextID
    <3>1. Settled(j)'
      BY <1>4, <1>6, <1>8, <1>10, <2>1, <2>3, SettledKept DEF RuleOK
    <3>2. ASSUME NEW q \in Procs, Inserting(q, j)' PROVE Obj(q)'.status = "running"
      <4>1. CASE q = p
        BY <1>1, <1>3, <1>5, <1>6, <4>1 DEF Obj
      <4>2. CASE q # p
        <5>1. Inserting(q, j) /\ frame'[q] = frame[q]
          BY <1>4, <1>5, <1>6, <3>2, <4>2, OthersSame
        <5>2. heap'[frame[q].obj] = heap[frame[q].obj]
          BY <1>4, <1>6, <5>1, CallPointers DEF SameObjects
        <5>3. Obj(q).status = "running"
          BY <2>1, <5>1 DEF RuleOK
        <5> QED BY <5>1, <5>2, <5>3 DEF Obj
      <4> QED BY <4>1, <4>2
    <3> QED BY <1>10, <2>3, <3>1, <3>2 DEF RuleOK
  <2> QED BY <2>2, <2>3
<1>12. GivenOK'
  <2> SUFFICES ASSUME NEW q \in Procs, NEW j \in IDs, Working(q, j)' PROVE j < nextID'
    BY DEF GivenOK
  <2>1. Working(q, j)
    BY <1>4, <1>5, <1>6, <1>9, OthersSame
  <2> QED BY <1>2, <2>1 DEF RulesInv, GivenOK
<1>13. LoopOK'
  BY <1>3, <1>5 DEF RulesInv, LoopOK, Others, at
<1>14. TodoOK'
  <2> SUFFICES ASSUME NEW q \in Procs, NEW i \in frame'[q].todo
               PROVE  heap'[rules'[i]].typ = "local"
    BY DEF TodoOK
  <2>1. q # p /\ frame'[q] = frame[q] /\ frame[q] \in Frame
    BY <1>3, <1>4, <1>5 DEF Others, BaseInv, TypeOK
  <2>2. i \in IDs /\ rules[i] # Nil /\ heap[rules[i]].typ = "local"
    BY <1>4, <2>1 DEF Frame, BaseInv, FrameOK, RulesInv, TodoOK
  <2> QED BY <1>2, <1>4, <1>6, <2>2, RulePointers DEF HeapKept
<1> QED BY <1>11, <1>12, <1>13, <1>14 DEF RulesInv

(* AddInsert publishes the rule: no call can have found it before.          *)
LEMMA AddInsertRules ==
  ASSUME IdInv, RulesInv, NEW p \in Procs, AddInsert(p)
  PROVE  RulesInv'
<1>1. BaseInv /\ BaseInv'
  BY AddInsertBase DEF IdInv
<1>2. /\ frame[p].pc = "insert" /\ mu = Nil /\ nextID' = nextID + 1
      /\ rules' = [rules EXCEPT ![Obj(p).id] = frame[p].obj]
      /\ frame' = [frame EXCEPT ![p].pc = IF Obj(p).typ = "remote" THEN "pend" ELSE "listen"]
      /\ UNCHANGED <<mu, heap, lns, stop, lsn, backend, boot, raced>>
  BY DEF AddInsert, at, NextIDAfterAdd
<1>3. PICK o \in Objs, i \in IDs : On(p, o, i)
  BY <1>1, <1>2, OnRule
<1>4. Obj(p) = heap[o] /\ Obj(p).id = i /\ o # Nil
  BY <1>3, NilAssumption DEF On, Obj
<1>5. /\ Others(p) /\ frame'[p].obj = o /\ frame'[p].todo = frame[p].todo
      /\ frame'[p].pc = IF heap[o].typ = "remote" THEN "pend" ELSE "listen"
      /\ frame'[p].op = frame[p].op
  <2>1. frame \in [Procs -> Frame]
    BY <1>1 DEF BaseInv, TypeOK
  <2>2. /\ Others(p) /\ frame'[p].obj = frame[p].obj /\ frame'[p].todo = frame[p].todo
        /\ frame'[p].op = frame[p].op
        /\ frame'[p].pc = IF Obj(p).typ = "remote" THEN "pend" ELSE "listen"
    BY <1>2, <2>1 DEF Frame, Others
  <2> QED BY <1>3, <1>4, <2>2 DEF On
<1>6. HeapKept /\ \A j \in IDs : SameObjects(j)
  BY <1>2, HeapSame
<1>7. \A j \in IDs : Ports(j)' = Ports(j) /\ \A l \in Ports(j) : lsn'[l].addr = lsn[l].addr
  BY <1>2, PortsSame
<1>8. rules'[i] = o /\ \A j \in IDs \ {i} : rules'[j] = rules[j]
  BY <1>1, <1>2, <1>3, <1>4 DEF On, BaseInv, TypeOK
<1>9. \A j \in IDs \ {i} : SameRule(j)
  BY <1>2, <1>7, <1>8 DEF SameRule
<1>10. /\ Inserting(p, i) /\ (\A j \in IDs : ~Working(p, j) /\ ~Inserting(p, j)')
       /\ Working(p, i)' /\ \A j \in IDs \ {i} : ~Working(p, j)'
  BY <1>2, <1>3, <1>4, <1>5 DEF Inserting, Working, Obj, at, On
<1>11. i <= nextID
  BY <1>10 DEF IdInv, IdsOK
<1>12. ASSUME i \notin raced PROVE RuleOK(i)'
  <2>1. RuleOK(i) /\ rules[i] = Nil /\ \A q \in Procs \ {p} : ~Inserting(q, i)
    BY <1>10, <1>12 DEF RulesInv, IdInv, IdsOK
  <2>2. heap[o].status = "running" /\ \A q \in Procs : ~Working(q, i)
    BY <1>4, <1>10, <2>1 DEF RuleOK
  <2>3. Settled(i)
    BY <2>1, <2>2 DEF RuleOK
  <2>4. Shut(i) /\ backend[i] = Nil
    BY <2>1, <2>3 DEF Settled, Local, Remote
  <2>5. Shut(i)' /\ backend'[i] = Nil
    BY <1>2, <1>7, <2>4 DEF Shut
  <2>6. CASE heap[o].typ = "local"
    <3>1. ChangingLocal(p, i)'
      BY <1>2, <1>5, <2>2, <2>5, <2>6 DEF ChangingLocal
    <3>2. Changing(p, i)'
      BY <1>2, <1>5, <1>8, <2>6, <3>1 DEF Changing, Obj
    <3> QED BY <1>1, <1>5, <1>6, <1>10, <2>1, <2>2, <3>2, RuleMine
  <2>7. CASE heap[o].typ # "local"
    <3>1. heap[o].typ = "remote"
      BY <1>3, <2>7 DEF On, Rule
    <3>2. ChangingRemote(p, i)'
      BY <1>5, <2>5, <3>1 DEF ChangingRemote
    <3>3. Changing(p, i)'
      BY <1>2, <1>5, <1>8, <3>1, <3>2 DEF Changing, Obj
    <3> QED BY <1>1, <1>5, <1>6, <1>10, <2>1, <2>2, <3>3, RuleMine
  <2> QED BY <2>6, <2>7
<1>13. ASSUME NEW j \in IDs \ raced' PROVE RuleOK(j)'
  <2>1. RuleOK(j)
    BY <1>2, <1>13 DEF RulesInv
  <2>2. CASE j # i
    BY <1>1, <1>5, <1>6, <1>9, <1>10, <2>1, <2>2, RuleElsewhere
  <2>3. CASE j = i
    BY <1>2, <1>12, <1>13, <2>3
  <2> QED BY <2>2, <2>3
<1>14. ASSUME NEW q \in Procs, NEW j \in IDs, Working(q, j)' PROVE j < nextID'
  <2>1. j <= nextID
    <3>1. CASE q = p
      BY <1>10, <1>11, <1>14, <3>1
    <3>2. CASE q # p
      <4>1. j < nextID
        BY <1>1, <1>5, <1>6, <1>14, <3>2, OthersSame DEF RulesInv, GivenOK
      <4>2. j \in Nat /\ nextID \in Nat
        BY <1>1, MaxIDAssumption DEF BaseInv, TypeOK, IDs
      <4> QED BY <4>1, <4>2
    <3> QED BY <3>1, <3>2
  <2>2. j \in Nat /\ nextID \in Nat
    BY <1>1, MaxIDAssumption DEF BaseInv, TypeOK, IDs
  <2> QED BY <1>2, <2>1, <2>2
<1>15. GivenOK'
  BY <1>14 DEF GivenOK
<1>16. LoopOK'
  BY <1>5 DEF RulesInv, LoopOK, Others, at
<1>17. TodoOK'
  <2>1. \A q \in Procs : frame[q].todo = {}
    BY <1>1, <1>2, NilAssumption DEF BaseInv, FrameOK, LockOK
  <2>2. \A q \in Procs : frame'[q].todo = {}
    BY <1>5, <2>1 DEF Others
  <2> QED BY <2>2 DEF TodoOK
<1> QED BY <1>13, <1>15, <1>16, <1>17 DEF RulesInv

(* Restore registers a rule whose ID nothing has used, before any call.     *)
LEMMA RestoreRules ==
  ASSUME IdInv, RulesInv, NEW i \in IDs, Restore(i)
  PROVE  RulesInv'
<1>1. BaseInv /\ BaseInv'
  BY RestoreBase DEF IdInv
<1>2. i \in boot /\ frame' = frame /\ raced' = raced
  BY DEF Restore
<1>3. PICK o \in Objs :
        /\ heap[o] = Nil
        /\ rules' = [rules EXCEPT ![i] = o]
        /\ \/ RestoreRemote(i, o)
           \/ \E l \in Lsns :
                /\ CanBind(l, Saved[i].listen)
                /\ RestoreLocal(i, o, "")
                /\ lns' = [lns EXCEPT ![i] = l]
                /\ stop' = [stop EXCEPT ![i] = l]
                /\ lsn' = [lsn EXCEPT ![l] =
                             NewListener(i, Saved[i].listen, "accept")]
           \/ /\ RestoreLocal(i, o, "error")
              /\ UNCHANGED <<lns, stop, lsn>>
  BY DEF Restore
<1>4. Saved[i] \in Config
  BY <1>1, <1>2, SavedAssumption DEF BaseInv, TypeOK
<1>5. \A st \in Status : Restored(i, st) \in Rule
  BY <1>4 DEF Restored, Rule, Config
<1>6. PICK st \in Status :
        /\ heap' = [heap EXCEPT ![o] = Restored(i, st)]
        /\ \/ RestoreRemote(i, o)
           \/ RestoreLocal(i, o, "") /\ st = ""
           \/ RestoreLocal(i, o, "error") /\ st = "error"
  <2>1. \A b \in {"", "pending", "error"} : b \in Status
    BY DEF Status
  <2> QED BY <1>3, <2>1 DEF RestoreRemote, RestoreLocal
<1>7. /\ HeapKept /\ \A j \in IDs : SameObjects(j)
      /\ heap'[o] = Restored(i, st)
  BY <1>1, <1>3, <1>5, <1>6, ObjectMade
<1>8. /\ heap'[o].typ = Saved[i].typ /\ heap'[o].listen = Saved[i].listen
      /\ heap'[o].target = Saved[i].target /\ heap'[o].status = st
  BY <1>7 DEF Restored
<1>9. rules'[i] = o /\ o # Nil /\ \A j \in IDs \ {i} : rules'[j] = rules[j]
  BY <1>1, <1>3, NilAssumption DEF BaseInv, TypeOK
<1>10. \A p \in Procs : frame[p].pc = "idle" /\ frame[p].todo = {}
  <2>1. \A p \in Procs : frame[p].pc = "idle"
    BY <1>2 DEF IdInv, IdsOK, at
  <2> QED BY <1>1, <2>1 DEF BaseInv, FrameOK, Holds
<1>11. \A p \in Procs, j \in IDs : /\ ~Working(p, j) /\ ~Working(p, j)'
                                   /\ ~Inserting(p, j) /\ ~Inserting(p, j)'
  BY <1>2, <1>10 DEF Working, Inserting, at
<1>12. rules[i] = Nil
  BY <1>2 DEF IdInv, IdsOK
<1>13. i \notin raced => Shut(i) /\ backend[i] = Nil
  BY <1>11, <1>12 DEF RulesInv, RuleOK, Settled, Local, Remote
<1>14. /\ \A j \in IDs \ {i} : SameRule(j)
       /\ i \notin raced => Settled(i)'
  <2>1. CASE RestoreRemote(i, o)
    <3>1. /\ Saved[i].typ = "remote" /\ UNCHANGED <<lns, stop, lsn>>
          /\ backend' = IF Backend THEN [backend EXCEPT ![i] = Saved[i].target] ELSE backend
      BY <2>1 DEF RestoreRemote
    <3>2. /\ \A j \in IDs \ {i} : backend'[j] = backend[j]
          /\ backend'[i] = IF Backend THEN Saved[i].target ELSE backend[i]
      BY <1>1, <3>1 DEF BaseInv, TypeOK
    <3>3. \A j \in IDs : Ports(j)' = Ports(j) /\ \A l \in Ports(j) : lsn'[l].addr = lsn[l].addr
      BY <3>1, PortsSame
    <3>4. \A j \in IDs \ {i} : SameRule(j)
      BY <1>9, <3>1, <3>2, <3>3 DEF SameRule
    <3>5. ASSUME i \notin raced PROVE Settled(i)'
      <4>1. Shut(i)' /\ ~Local(i)' /\ Remote(i)'
        BY <1>8, <1>9, <1>13, <3>1, <3>3, <3>5 DEF Shut, Local, Remote
      <4> QED BY <1>8, <1>9, <1>13, <3>2, <3>5, <4>1 DEF Settled
    <3> QED BY <3>4, <3>5
  <2>2. ASSUME NEW l \in Lsns, Unused(l), RestoreLocal(i, o, ""), st = "",
               lns' = [lns EXCEPT ![i] = l], stop' = [stop EXCEPT ![i] = l],
               lsn' = [lsn EXCEPT ![l] = NewListener(i, Saved[i].listen, "accept")]
        PROVE  /\ \A j \in IDs \ {i} : SameRule(j)
               /\ i \notin raced => Settled(i)'
    <3> DEFINE r == NewListener(i, Saved[i].listen, "accept")
    <3>1. r \in Listener /\ r.id = i /\ r.open /\ r.addr = Saved[i].listen
      BY <1>4 DEF NewListener, Listener, Config
    <3>2. lsn' = [lsn EXCEPT ![l] = r] /\ Saved[i].typ = "local" /\ backend' = backend
      BY <2>2 DEF RestoreLocal
    <3> HIDE DEF r
    <3>3. lsn[l] # Nil => ~lsn[l].open
      BY <2>2 DEF Unused
    <3>4. /\ \A j \in IDs \ {i} :
               Ports(j)' = Ports(j) /\ \A m \in Ports(j) : lsn'[m].addr = lsn[m].addr
          /\ Ports(i)' = Ports(i) \cup {l} /\ lsn'[l].addr = Saved[i].listen
      <4>1. /\ \A j \in IDs \ {i} :
                 Ports(j)' = Ports(j) /\ \A m \in Ports(j) : lsn'[m].addr = lsn[m].addr
            /\ Ports(i)' = IF r.open THEN Ports(i) \cup {l} ELSE Ports(i) \ {l}
            /\ lsn'[l] = r
        BY ZenonT(60), <1>1, <3>1, <3>2, <3>3, PortsSet
      <4> QED BY <3>1, <4>1
    <3>5. /\ lns'[i] = l /\ stop'[i] = l
          /\ \A j \in IDs \ {i} : lns'[j] = lns[j] /\ stop'[j] = stop[j]
      BY <1>1, <2>2 DEF BaseInv, TypeOK
    <3>6. \A j \in IDs \ {i} : SameRule(j)
      BY <1>9, <3>2, <3>4, <3>5 DEF SameRule
    <3>7. ASSUME i \notin raced PROVE Settled(i)'
      <4>1. Holding(i, lns[i])'
        BY <1>8, <1>9, <1>13, <3>4, <3>5, <3>7 DEF Holding, Shut
      <4>2. Local(i)' /\ backend'[i] = Nil /\ heap'[rules'[i]].status = ""
        BY <1>8, <1>9, <1>13, <2>2, <3>2, <3>7 DEF Local
      <4> QED BY <3>5, <4>1, <4>2 DEF Settled
    <3> QED BY <3>6, <3>7
  <2>3. CASE RestoreLocal(i, o, "error") /\ st = "error" /\ UNCHANGED <<lns, stop, lsn>>
    <3>1. Saved[i].typ = "local" /\ backend' = backend
      BY <2>3 DEF RestoreLocal
    <3>2. \A j \in IDs : Ports(j)' = Ports(j) /\ \A l \in Ports(j) : lsn'[l].addr = lsn[l].addr
      BY <2>3, PortsSame
    <3>3. \A j \in IDs \ {i} : SameRule(j)
      BY <1>9, <2>3, <3>1, <3>2 DEF SameRule
    <3>4. ASSUME i \notin raced PROVE Settled(i)'
      <4>1. Shut(i)' /\ backend'[i] = Nil
        BY <1>13, <2>3, <3>1, <3>2, <3>4 DEF Shut
      <4>2. Local(i)' /\ heap'[rules'[i]].status = "error"
        BY <1>8, <1>9, <2>3, <3>1 DEF Local
      <4> QED BY <4>1, <4>2 DEF Settled
    <3> QED BY <3>3, <3>4
  <2>4. /\ RestoreLocal(i, o, "") => st = ""
        /\ RestoreLocal(i, o, "error") => st = "error"
    <3>1. \A b \in Status : RestoreLocal(i, o, b) => heap'[o].status = b
      BY <1>1 DEF RestoreLocal, Restored, BaseInv, TypeOK
    <3> QED BY <1>8, <3>1 DEF Status
  <2> QED BY <1>3, <2>1, <2>2, <2>3, <2>4 DEF CanBind
<1>15. ASSUME NEW j \in IDs \ raced' PROVE RuleOK(j)'
  <2>1. Settled(j)
    BY <1>2, <1>11, <1>15 DEF RulesInv, RuleOK
  <2>2. Settled(j)'
    BY <1>1, <1>2, <1>7, <1>14, <1>15, <2>1, SettledKept
  <2> QED BY <1>11, <2>2 DEF RuleOK
<1>16. GivenOK' /\ LoopOK' /\ TodoOK'
  BY <1>2, <1>10, <1>11 DEF GivenOK, LoopOK, TodoOK, at
<1> QED BY <1>15, <1>16 DEF RulesInv
-----------------------------------------------------------------------------
(* The inductive invariant                                                  *)

LEMMA InitRules == Init => RulesInv
<1> SUFFICES ASSUME Init PROVE RulesInv
  OBVIOUS
<1>1. \A p \in Procs : frame[p] = Idle
  BY DEF Init
<1>2. \A p \in Procs, j \in IDs : ~Working(p, j) /\ ~Inserting(p, j)
  BY <1>1, IdleFrame DEF Working, Inserting, at
<1>3. GivenOK /\ LoopOK /\ TodoOK
  BY <1>1, <1>2, IdleFrame DEF GivenOK, LoopOK, TodoOK, at
<1>4. ASSUME NEW j \in IDs PROVE Settled(j)
  BY DEF Init, Settled, Shut, Ports, Local, Remote
<1> QED BY <1>2, <1>3, <1>4 DEF RulesInv, RuleOK

LEMMA NextRules == IdInv /\ RulesInv /\ [Next]_vars => RulesInv'
<1> SUFFICES ASSUME IdInv, RulesInv, [Next]_vars PROVE RulesInv'
  OBVIOUS
<1>1. CASE UNCHANGED vars
  BY <1>1, LoopSteps DEF vars, IdInv
<1>2. ASSUME NEW id \in IDs, Restore(id) PROVE RulesInv'
  BY <1>2, RestoreRules
<1>3. ASSUME NEW p \in Procs, Call(p) PROVE RulesInv'
  BY <1>3, AddBeginRules, RestartBeginRules, RemoveRemoteRuleRules, RemoveBeginRules,
     UpdateRemoteRuleRules, UpdateBeginRules, ReportRunningRules, ReportErrorRules
     DEF Call
<1>4. ASSUME NEW p \in Procs, Acquire(p) PROVE RulesInv'
  BY <1>4, AddInsertRules, AddPendingRules DEF Acquire
<1>5. ASSUME NEW p \in Procs, Continue(p) PROVE RulesInv'
  BY <1>5, BackendRemoveRules, BackendCopyRules, BackendAddRules, StartListenRules,
     StartListenFailsRules, StartPutListenerRules, StartSpawnRules, StartFailedRules,
     StopCloseRules, StopSignalRules, StopPanicsRules, RemoveDeleteRules,
     UpdateApplyRules, RestartRuleRules, RestartStartRules, RestartEndRules
     DEF Continue
<1>6. ASSUME NEW l \in Lsns, AcceptError(l) \/ Loop(l) PROVE RulesInv'
  <2>1. PICK x \in {"done", "report"} : lsn[l] # Nil /\ lsn' = [lsn EXCEPT ![l].loop = x]
    BY <1>6 DEF Loop, AcceptError, AcceptClosed, AcceptReport
  <2>2. UNCHANGED <<nextID, heap, rules, lns, stop, backend, frame, raced>>
    BY <1>6 DEF Loop, AcceptError, AcceptClosed, AcceptReport
  <2> QED BY <2>1, <2>2, LoopSteps DEF IdInv
<1> QED BY <1>1, <1>2, <1>3, <1>4, <1>5, <1>6 DEF Next

(* In every state, RulesInv says what each rule owns that no two calls      *)
(* overlapped on: engine.go's Add, Remove, Update, Restart and Restore.     *)
THEOREM RulesInvariant == Spec => [](IdInv /\ RulesInv)
<1>1. Init => IdInv /\ RulesInv
  BY InitInv, InitRules
<1>2. (IdInv /\ RulesInv) /\ [Next]_vars => (IdInv /\ RulesInv)'
  BY NextInv, NextRules
<1> QED BY <1>1, <1>2, PTL DEF Spec

(* A rule that is quiet is settled.                                         *)
LEMMA QuietSettled ==
  ASSUME RulesInv, NEW i \in IDs, Quiet(i)
  PROVE  Settled(i)
BY DEF RulesInv, RuleOK, Quiet

(* Every open port belongs to a local rule that stopLocked finds it by: no  *)
(* order of Add, Remove, Update, Restart and failing net.Listen calls leaks *)
(* a listener (startLocked, stopLocked and their callers).                  *)
THEOREM PortsAreOwned == Spec => []PortsOwned
<1>1. IdInv /\ RulesInv => PortsOwned
  <2> SUFFICES ASSUME IdInv, RulesInv, NEW l \in Lsns, lsn[l] # Nil, lsn[l].open,
                      Quiet(lsn[l].id)
               PROVE  /\ Local(lsn[l].id)
                      /\ heap[rules[lsn[l].id]].listen = lsn[l].addr
                      /\ lns[lsn[l].id] = l /\ stop[lsn[l].id] = l
    BY DEF PortsOwned
  <2>1. PICK i \in IDs : i = lsn[l].id
    BY DEF IdInv, BaseInv, TypeOK, Listener
  <2>2. l \in Ports(i) /\ Settled(i)
    BY <2>1, QuietSettled DEF Ports
  <2>3. Local(i) /\ Holding(i, lns[i]) /\ stop[i] = lns[i]
    BY <2>2 DEF Settled, Shut
  <2> QED BY <2>1, <2>2, <2>3 DEF Holding
<1> QED BY <1>1, RulesInvariant, PTL

(* stopLocked closes the channel of the listener it just closed: no call    *)
(* panics on a nil channel, unless calls overlapped on the rule.            *)
THEOREM StopsDoNotPanic == Spec => []NoPanic
<1>1. IdInv /\ RulesInv => NoPanic
  <2> SUFFICES ASSUME IdInv, RulesInv, NEW p \in Procs, frame[p].pc = "stopSignal",
                      Obj(p).id \notin raced
               PROVE  stop[Obj(p).id] = lns[Obj(p).id]
    BY DEF NoPanic, at
  <2>1. PICK o \in Objs, i \in IDs : On(p, o, i)
    BY OnRule DEF IdInv
  <2>2. Obj(p).id = i /\ Working(p, i)
    BY <2>1, NilAssumption DEF On, Obj, Working
  <2>3. Changing(p, i)
    BY <2>2 DEF RulesInv, RuleOK
  <2>4. ChangingLocal(p, i)
    BY <2>1, <2>3, LocalCall
  <2> QED BY <2>2, <2>4 DEF ChangingLocal
<1> QED BY <1>1, RulesInvariant, PTL

(* List shows "error" for a local rule exactly when it has no listener.     *)
THEOREM StatusIsHonest == Spec => []StatusHonest
<1>1. IdInv /\ RulesInv => StatusHonest
  <2> SUFFICES ASSUME IdInv, RulesInv, NEW i \in IDs, Quiet(i), Local(i)
               PROVE  IF lns[i] = Nil THEN heap[rules[i]].status = "error"
                      ELSE /\ heap[rules[i]].status \in {"running", ""}
                           /\ lsn[lns[i]].open
    BY DEF StatusHonest
  <2>1. Settled(i)
    BY QuietSettled
  <2>2. CASE Shut(i) /\ heap[rules[i]].status = "error"
    BY <2>2 DEF Shut
  <2>3. CASE Holding(i, lns[i]) /\ heap[rules[i]].status \in {"running", ""}
    <3>1. lns[i] \in Ports(i)
      BY <2>3 DEF Holding
    <3>2. lns[i] # Nil
      BY <3>1, NilAssumption DEF Ports
    <3> QED BY <2>3, <3>1, <3>2 DEF Ports
  <2> QED BY <2>1, <2>2, <2>3 DEF Settled
<1> QED BY <1>1, RulesInvariant, PTL

(* The backend has registered the remote rules of the engine with their     *)
(* targets, and nothing else: Add, Update and Remove tell it of each change.*)
THEOREM BackendInSync == Spec => []BackendAgrees
<1>1. IdInv /\ RulesInv => BackendAgrees
  <2> SUFFICES ASSUME RulesInv, NEW i \in IDs, Quiet(i)
               PROVE  backend[i] = IF Backend /\ Remote(i)
                                   THEN heap[rules[i]].target ELSE Nil
    BY DEF BackendAgrees
  <2>1. Settled(i) /\ (Local(i) => ~Remote(i))
    BY QuietSettled DEF Local, Remote
  <2> QED BY <2>1 DEF Settled
<1> QED BY <1>1, RulesInvariant, PTL
=============================================================================
