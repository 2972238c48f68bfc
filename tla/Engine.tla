------------------------------- MODULE Engine -------------------------------
(***************************************************************************)
(* internal/engine/engine.go: the set of forwarding rules, the listeners   *)
(* of the local ones and the registrations of the remote ones, used by     *)
(* concurrent goroutines (one per HTTP request, and the tunnel callbacks)  *)
(* under one sync.Mutex that some steps of the code do not take.           *)
(*                                                                         *)
(* A call is cut into steps where another goroutine can run in between:    *)
(* at every acquisition of e.mu and, in the regions entered without it     *)
(* (or watched by the accept loops, which never take it), at every access  *)
(* to shared state.  startLocked and stopLocked are sub-routines shared by *)
(* their callers; frame[p].op says to which one they return.               *)
(***************************************************************************)
EXTENDS Naturals

CONSTANTS
  Procs,    \* goroutines that call the engine
  Objs,     \* addresses of *Rule objects; bounds the number of Adds
  Lsns,     \* listeners (with their stop channel and accept loop) alive at once
  Addrs,    \* listen addresses
  Targets,  \* target (and credential) part of a rule's configuration
  MaxID,    \* bound on the rule IDs handed out
  Saved,    \* rules.json at start-up: a function from IDs to configurations
  Backend,  \* whether SetRemoteBackend was called before serving
  Ops,      \* the calls the environment makes
  Nil

IDs == 1..MaxID

Config == [typ: {"local", "remote"}, listen: Addrs, target: Targets]

ASSUME MaxIDAssumption == MaxID \in Nat
ASSUME BackendAssumption == Backend \in BOOLEAN
ASSUME SavedAssumption == \E S \in SUBSET IDs : Saved \in [S -> Config]

VARIABLES
  mu,       \* the goroutine that holds e.mu, or Nil
  nextID,   \* e.nextID
  heap,     \* the *Rule objects
  rules,    \* e.rules
  lns,      \* e.lns
  stop,     \* e.stop; a channel is named after the listener it was made for
  lsn,      \* the listeners the process has opened, with their accept loops
  backend,  \* what the RemoteBackend has registered: rule ID -> target
  boot,     \* IDs that Restore has still to re-register
  frame,    \* the call each goroutine is executing
  raced     \* history: IDs on which two calls were in progress at once

vars == <<mu, nextID, heap, rules, lns, stop, lsn, backend, boot, frame, raced>>

Status == {"pending", "running", "stopped", "error", ""}

Rule == [id: IDs, typ: {"local", "remote"}, listen: Addrs, target: Targets,
         status: Status]

(* A listener, the state of its stop channel and that of its accept loop.  *)
Listener == [id: IDs, addr: Addrs, open: BOOLEAN, stopped: BOOLEAN,
             loop: {"none", "accept", "report", "done"}]

Labels == {"idle", "insert", "pend", "listen", "putLn", "putStop", "fail",
           "stopClose", "stopSignal", "stopped", "loop", "rm", "send", "put",
           "selflock", "dead"}

Frame == [pc: Labels, op: {"none", "add", "remove", "update", "restart", "report"},
          obj: Objs \cup {Nil}, ln: Lsns \cup {Nil},
          arg: [listen: Addrs, target: Targets] \cup {Nil},
          todo: SUBSET IDs]

Idle == [pc |-> "idle", op |-> "none", obj |-> Nil, ln |-> Nil, arg |-> Nil,
         todo |-> {}]

ASSUME NilAssumption ==
  Nil \notin Procs \cup Objs \cup Lsns \cup Addrs \cup Targets \cup Rule
            \cup Listener \cup [listen: Addrs, target: Targets]

(* Every variable holds values of the type its Go counterpart has.         *)
TypeOK ==
  /\ mu \in Procs \cup {Nil}
  /\ nextID \in Nat \ {0}
  /\ heap \in [Objs -> Rule \cup {Nil}]
  /\ rules \in [IDs -> Objs \cup {Nil}]
  /\ lns \in [IDs -> Lsns \cup {Nil}]
  /\ stop \in [IDs -> Lsns \cup {Nil}]
  /\ lsn \in [Lsns -> Listener \cup {Nil}]
  /\ backend \in [IDs -> Targets \cup {Nil}]
  /\ boot \in SUBSET (DOMAIN Saved)
  /\ frame \in [Procs -> Frame]
  /\ raced \in SUBSET IDs

Init ==
  /\ mu = Nil
  /\ nextID = 1
  /\ heap = [o \in Objs |-> Nil]
  /\ rules = [i \in IDs |-> Nil]
  /\ lns = [i \in IDs |-> Nil]
  /\ stop = [i \in IDs |-> Nil]
  /\ lsn = [l \in Lsns |-> Nil]
  /\ backend = [i \in IDs |-> Nil]
  /\ boot = DOMAIN Saved
  /\ frame = [p \in Procs |-> Idle]
  /\ raced = {}

-----------------------------------------------------------------------------
(* Helpers                                                                  *)

at(p, label) == frame[p].pc = label

Obj(p) == heap[frame[p].obj]

(* Goroutine p is past publishing or looking up the rule with this ID.     *)
Working(p, id) ==
  /\ frame[p].pc \notin {"idle", "insert"}
  /\ frame[p].obj # Nil
  /\ heap[frame[p].obj] # Nil
  /\ Obj(p).id = id

(* The history of overlaps after p starts to work on id.                   *)
Overlap(p, id) ==
  IF \E q \in Procs \ {p} : Working(q, id) THEN raced \cup {id} ELSE raced

(* A token for a new listener: unused, or left by one that is closed, whose *)
(* loop has exited and that nothing refers to.                              *)
Unused(l) ==
  /\ lsn[l] # Nil => ~lsn[l].open /\ lsn[l].loop = "done"
  /\ \A i \in IDs : lns[i] # l /\ stop[i] # l
  /\ \A p \in Procs : frame[p].ln # l

(* net.Listen can succeed only on an address no open listener holds; it may *)
(* fail at any time (bad address, port held by another process).            *)
CanBind(l, a) ==
  /\ Unused(l)
  /\ \A m \in Lsns : lsn[m] # Nil => ~(lsn[m].open /\ lsn[m].addr = a)

NewListener(id, a, state) ==
  [id |-> id, addr |-> a, open |-> TRUE, stopped |-> FALSE, loop |-> state]

SetStatus(o, s) == [heap EXCEPT ![o].status = s]

Configure(o, a, t, s) ==
  [heap EXCEPT ![o].listen = a, ![o].target = t, ![o].status = s]

Goto(p, label) == [frame EXCEPT ![p].pc = label]

Return(p) == [frame EXCEPT ![p] = Idle]

Serving(op) == boot = {} /\ op \in Ops

-----------------------------------------------------------------------------
(* Restore: runs alone, before the HTTP server starts.                      *)

\* Mutant: > for >=.
NextIDAfterRestoreOffByOne(id) == IF id > nextID THEN id + 1 ELSE nextID

NextIDAfterRestore(id) == IF id >= nextID THEN id + 1 ELSE nextID

Restored(id, status) ==
  [id |-> id, typ |-> Saved[id].typ, listen |-> Saved[id].listen,
   target |-> Saved[id].target, status |-> status]

RestoreRemote(id, o) ==
  /\ Saved[id].typ = "remote"
  /\ heap' = [heap EXCEPT ![o] =
                Restored(id, IF Backend THEN "pending" ELSE "error")]
  /\ backend' = IF Backend THEN [backend EXCEPT ![id] = Saved[id].target]
                ELSE backend
  /\ UNCHANGED <<lns, stop, lsn>>

RestoreLocal(id, o, status) ==
  /\ Saved[id].typ = "local"
  /\ heap' = [heap EXCEPT ![o] = Restored(id, status)]
  /\ UNCHANGED backend

(* The status of a rule that started is not assigned: it stays "".         *)
Restore(id) ==
  /\ id \in boot
  /\ boot' = boot \ {id}
  /\ nextID' = NextIDAfterRestore(id)
  /\ \E o \in Objs :
       /\ heap[o] = Nil
       /\ rules' = [rules EXCEPT ![id] = o]
       /\ \/ RestoreRemote(id, o)
          \/ \E l \in Lsns :
               /\ CanBind(l, Saved[id].listen)
               /\ RestoreLocal(id, o, "")
               /\ lns' = [lns EXCEPT ![id] = l]
               /\ stop' = [stop EXCEPT ![id] = l]
               /\ lsn' = [lsn EXCEPT ![l] =
                            NewListener(id, Saved[id].listen, "accept")]
          \/ /\ RestoreLocal(id, o, "error")
             /\ UNCHANGED <<lns, stop, lsn>>
  /\ UNCHANGED <<mu, frame, raced>>

-----------------------------------------------------------------------------
(* Add                                                                      *)

(* The ID is formatted from e.nextID before e.mu is taken.                  *)
AddBegin(p) ==
  /\ Serving("add")
  /\ at(p, "idle")
  /\ nextID \in IDs
  /\ \E o \in Objs, c \in Config :
       /\ heap[o] = Nil
       /\ heap' = [heap EXCEPT ![o] =
            [id |-> nextID, typ |-> c.typ, listen |-> c.listen,
             target |-> c.target, status |-> "running"]]
       /\ frame' = [frame EXCEPT ![p] =
            [Idle EXCEPT !.pc = "insert", !.op = "add", !.obj = o]]
  /\ raced' = IF \E q \in Procs \ {p} : at(q, "insert") /\ Obj(q).id = nextID
              THEN raced \cup {nextID} ELSE raced
  /\ UNCHANGED <<mu, nextID, rules, lns, stop, lsn, backend, boot>>

\* Mutant: -- for ++.
NextIDAfterAddBackwards == nextID - 1

NextIDAfterAdd == nextID + 1

AddInsert(p) ==
  /\ at(p, "insert")
  /\ mu = Nil
  /\ nextID' = NextIDAfterAdd
  /\ rules' = [rules EXCEPT ![Obj(p).id] = frame[p].obj]
  /\ frame' = [frame EXCEPT ![p].pc =
                 IF Obj(p).typ = "remote" THEN "pend" ELSE "listen"]
  /\ UNCHANGED <<mu, heap, lns, stop, lsn, backend, boot, raced>>

(* setStatus(r, StatusError) without a backend, else setStatus(r,           *)
(* StatusPending) and on to AddRemote.                                      *)
AddPending(p) ==
  /\ at(p, "pend")
  /\ mu = Nil
  /\ heap' = SetStatus(frame[p].obj, IF Backend THEN "pending" ELSE "error")
  /\ frame' = [frame EXCEPT ![p] =
                 IF Backend THEN [@ EXCEPT !.pc = "send"] ELSE Idle]
  /\ UNCHANGED <<mu, nextID, rules, lns, stop, lsn, backend, boot, raced>>

-----------------------------------------------------------------------------
(* Calls to the remote backend, made without e.mu by Add and Update         *)

(* remote.RemoveRemote(id)                                                  *)
BackendRemove(p) ==
  /\ at(p, "rm")
  /\ backend' = [backend EXCEPT ![Obj(p).id] = Nil]
  /\ frame' = Goto(p, "send")
  /\ UNCHANGED <<mu, nextID, heap, rules, lns, stop, lsn, boot, raced>>

(* The argument *r is copied without e.mu ...                               *)
BackendCopy(p) ==
  /\ at(p, "send")
  /\ frame' = [frame EXCEPT
       ![p].pc = "put",
       ![p].arg = [listen |-> Obj(p).listen, target |-> Obj(p).target]]
  /\ UNCHANGED <<mu, nextID, heap, rules, lns, stop, lsn, backend, boot, raced>>

(* ... and remote.AddRemote registers the copy.                             *)
BackendAdd(p) ==
  /\ at(p, "put")
  /\ backend' = [backend EXCEPT ![Obj(p).id] = frame[p].arg.target]
  /\ frame' = Return(p)
  /\ UNCHANGED <<mu, nextID, heap, rules, lns, stop, lsn, boot, raced>>

-----------------------------------------------------------------------------
(* startLocked: Update and Restart call it with e.mu held, Add without.     *)

StartListen(p) ==
  /\ at(p, "listen")
  /\ \E l \in Lsns :
       /\ CanBind(l, Obj(p).listen)
       /\ lsn' = [lsn EXCEPT ![l] = NewListener(Obj(p).id, Obj(p).listen, "none")]
       /\ frame' = [frame EXCEPT ![p].pc = "putLn", ![p].ln = l]
  /\ UNCHANGED <<mu, nextID, heap, rules, lns, stop, backend, boot, raced>>

StartListenFails(p) ==
  /\ at(p, "listen")
  /\ frame' = Goto(p, "fail")
  /\ UNCHANGED <<mu, nextID, heap, rules, lns, stop, lsn, backend, boot, raced>>

StartPutListener(p) ==
  /\ at(p, "putLn")
  /\ lns' = [lns EXCEPT ![Obj(p).id] = frame[p].ln]
  /\ frame' = Goto(p, "putStop")
  /\ UNCHANGED <<mu, nextID, heap, rules, stop, lsn, backend, boot, raced>>

\* Mutant: the stop channel is not stored in e.stop.
StartSpawnNoChannel(p) ==
  /\ at(p, "putStop")
  /\ lsn' = [lsn EXCEPT ![frame[p].ln].loop = "accept"]
  /\ mu' = IF frame[p].op = "update" THEN Nil ELSE mu
  /\ frame' = [frame EXCEPT ![p] =
       IF frame[p].op = "restart"
       THEN [@ EXCEPT !.pc = "loop", !.obj = Nil, !.ln = Nil] ELSE Idle]
  /\ UNCHANGED <<nextID, heap, rules, lns, stop, backend, boot, raced>>

(* Publish the stop channel, spawn the accept loop and return: Add and      *)
(* Update are done, Restart marks the rule running and goes on.             *)
StartSpawn(p) ==
  /\ at(p, "putStop")
  /\ stop' = [stop EXCEPT ![Obj(p).id] = frame[p].ln]
  /\ lsn' = [lsn EXCEPT ![frame[p].ln].loop = "accept"]
  /\ mu' = IF frame[p].op = "update" THEN Nil ELSE mu
  /\ IF frame[p].op = "restart"
     THEN /\ heap' = SetStatus(frame[p].obj, "running")
          /\ frame' = [frame EXCEPT
               ![p].pc = "loop", ![p].obj = Nil, ![p].ln = Nil]
     ELSE /\ frame' = Return(p)
          /\ UNCHANGED heap
  /\ UNCHANGED <<nextID, rules, lns, backend, boot, raced>>

\* Mutant: the status is not set to StatusError.
StartFailedKeepsStatus(p) ==
  /\ at(p, "fail")
  /\ mu' = IF frame[p].op = "update" THEN Nil ELSE mu
  /\ frame' = Return(p)
  /\ UNCHANGED <<nextID, heap, rules, lns, stop, lsn, backend, boot, raced>>

\* Mutant: Update returns the error without releasing e.mu.
StartFailedKeepsLock(p) ==
  /\ at(p, "fail")
  /\ heap' = SetStatus(frame[p].obj, "error")
  /\ frame' = Return(p)
  /\ UNCHANGED <<mu, nextID, rules, lns, stop, lsn, backend, boot, raced>>

(* startLocked returned an error.  Restart reports it with e.mu held, and   *)
(* reportError takes e.mu again: the goroutine waits for itself.            *)
StartFailed(p) ==
  /\ at(p, "fail")
  /\ heap' = SetStatus(frame[p].obj, "error")
  /\ mu' = IF frame[p].op = "update" THEN Nil ELSE mu
  /\ frame' = [frame EXCEPT ![p] =
                 IF frame[p].op = "restart" THEN [@ EXCEPT !.pc = "selflock"]
                 ELSE Idle]
  /\ UNCHANGED <<nextID, rules, lns, stop, lsn, backend, boot, raced>>

-----------------------------------------------------------------------------
(* stopLocked, called with e.mu held by Remove, Update and Restart          *)

\* Mutant: the listener is not closed, only its channel.
StopCloseLeavesOpen(p) ==
  /\ at(p, "stopClose")
  /\ LET l == lns[Obj(p).id] IN
     frame' = [frame EXCEPT ![p].pc = IF l = Nil THEN "stopped" ELSE "stopSignal",
                            ![p].ln = l]
  /\ UNCHANGED <<mu, nextID, heap, rules, lns, stop, lsn, backend, boot, raced>>

StopClose(p) ==
  /\ at(p, "stopClose")
  /\ LET l == lns[Obj(p).id] IN
     IF l = Nil
     THEN /\ frame' = Goto(p, "stopped")
          /\ UNCHANGED lsn
     ELSE /\ lsn' = [lsn EXCEPT ![l].open = FALSE]
          /\ frame' = [frame EXCEPT ![p].pc = "stopSignal", ![p].ln = l]
  /\ UNCHANGED <<mu, nextID, heap, rules, lns, stop, backend, boot, raced>>

StopSignal(p) ==
  /\ at(p, "stopSignal")
  /\ LET id == Obj(p).id IN
     /\ stop[id] # Nil
     /\ lsn' = [lsn EXCEPT ![stop[id]].stopped = TRUE]
     /\ lns' = [lns EXCEPT ![id] = Nil]
     /\ stop' = [stop EXCEPT ![id] = Nil]
  /\ heap' = SetStatus(frame[p].obj, "stopped")
  /\ frame' = Goto(p, "stopped")
  /\ UNCHANGED <<mu, nextID, rules, backend, boot, raced>>

(* e.stop has no channel for the ID (an Add is between its two map writes): *)
(* close(nil) panics.  net/http recovers the goroutine; Remove and Restart  *)
(* release e.mu in a deferred call, Update does not.                        *)
StopPanics(p) ==
  /\ at(p, "stopSignal")
  /\ stop[Obj(p).id] = Nil
  /\ IF frame[p].op = "update"
     THEN /\ frame' = Goto(p, "dead")
          /\ UNCHANGED mu
     ELSE /\ frame' = Return(p)
          /\ mu' = Nil
  /\ UNCHANGED <<nextID, heap, rules, lns, stop, lsn, backend, boot, raced>>

-----------------------------------------------------------------------------
(* Remove                                                                   *)

\* Mutant: the rule is deleted without telling the backend.
RemoveRemoteRuleSilently(p, id) ==
  /\ Serving("remove")
  /\ at(p, "idle")
  /\ mu = Nil
  /\ rules[id] # Nil
  /\ heap[rules[id]].typ = "remote"
  /\ rules' = [rules EXCEPT ![id] = Nil]
  /\ raced' = Overlap(p, id)
  /\ UNCHANGED <<mu, nextID, heap, lns, stop, lsn, backend, boot, frame>>

RemoveRemoteRule(p, id) ==
  /\ Serving("remove")
  /\ at(p, "idle")
  /\ mu = Nil
  /\ rules[id] # Nil
  /\ heap[rules[id]].typ = "remote"
  /\ backend' = IF Backend THEN [backend EXCEPT ![id] = Nil] ELSE backend
  /\ rules' = [rules EXCEPT ![id] = Nil]
  /\ raced' = Overlap(p, id)
  /\ UNCHANGED <<mu, nextID, heap, lns, stop, lsn, boot, frame>>

\* Mutant: the rule is deleted without stopLocked.
RemoveBeginNoStop(p, id) ==
  /\ Serving("remove")
  /\ at(p, "idle")
  /\ mu = Nil
  /\ rules[id] # Nil
  /\ heap[rules[id]].typ = "local"
  /\ rules' = [rules EXCEPT ![id] = Nil]
  /\ raced' = Overlap(p, id)
  /\ UNCHANGED <<mu, nextID, heap, lns, stop, lsn, backend, boot, frame>>

RemoveBegin(p, id) ==
  /\ Serving("remove")
  /\ at(p, "idle")
  /\ mu = Nil
  /\ rules[id] # Nil
  /\ heap[rules[id]].typ = "local"
  /\ mu' = p
  /\ frame' = [frame EXCEPT ![p] =
       [Idle EXCEPT !.pc = "stopClose", !.op = "remove", !.obj = rules[id]]]
  /\ raced' = Overlap(p, id)
  /\ UNCHANGED <<nextID, heap, rules, lns, stop, lsn, backend, boot>>

RemoveDelete(p) ==
  /\ at(p, "stopped")
  /\ frame[p].op = "remove"
  /\ rules' = [rules EXCEPT ![Obj(p).id] = Nil]
  /\ mu' = Nil
  /\ frame' = Return(p)
  /\ UNCHANGED <<nextID, heap, lns, stop, lsn, backend, boot, raced>>

-----------------------------------------------------------------------------
(* Update                                                                   *)

UpdateRemoteRule(p, id) ==
  /\ Serving("update")
  /\ at(p, "idle")
  /\ mu = Nil
  /\ rules[id] # Nil
  /\ heap[rules[id]].typ = "remote"
  /\ \E a \in Addrs, t \in Targets :
       heap' = Configure(rules[id], a, t, "pending")
  /\ frame' = IF Backend
              THEN [frame EXCEPT ![p] =
                 [Idle EXCEPT !.pc = "rm", !.op = "update", !.obj = rules[id]]]
              ELSE frame
  /\ raced' = Overlap(p, id)
  /\ UNCHANGED <<mu, nextID, rules, lns, stop, lsn, backend, boot>>

UpdateBegin(p, id) ==
  /\ Serving("update")
  /\ at(p, "idle")
  /\ mu = Nil
  /\ rules[id] # Nil
  /\ heap[rules[id]].typ = "local"
  /\ mu' = p
  /\ \E a \in Addrs, t \in Targets :
       frame' = [frame EXCEPT ![p] =
         [Idle EXCEPT !.pc = "stopClose", !.op = "update", !.obj = rules[id],
                      !.arg = [listen |-> a, target |-> t]]]
  /\ raced' = Overlap(p, id)
  /\ UNCHANGED <<nextID, heap, rules, lns, stop, lsn, backend, boot>>

UpdateApply(p) ==
  /\ at(p, "stopped")
  /\ frame[p].op = "update"
  /\ heap' = Configure(frame[p].obj, frame[p].arg.listen, frame[p].arg.target,
                        "running")
  /\ frame' = [frame EXCEPT ![p].pc = "listen", ![p].ln = Nil]
  /\ UNCHANGED <<mu, nextID, rules, lns, stop, lsn, backend, boot, raced>>

-----------------------------------------------------------------------------
(* Restart                                                                  *)

RestartBegin(p) ==
  /\ Serving("restart")
  /\ at(p, "idle")
  /\ mu = Nil
  /\ mu' = p
  /\ frame' = [frame EXCEPT ![p] =
       [Idle EXCEPT !.pc = "loop", !.op = "restart",
          !.todo = {i \in IDs : rules[i] # Nil /\ heap[rules[i]].typ = "local"}]]
  /\ UNCHANGED <<nextID, heap, rules, lns, stop, lsn, backend, boot, raced>>

RestartRule(p, id) ==
  /\ at(p, "loop")
  /\ id \in frame[p].todo
  /\ frame' = [frame EXCEPT
       ![p].pc = "stopClose", ![p].obj = rules[id], ![p].todo = @ \ {id}]
  /\ raced' = Overlap(p, id)
  /\ UNCHANGED <<mu, nextID, heap, rules, lns, stop, lsn, backend, boot>>

RestartStart(p) ==
  /\ at(p, "stopped")
  /\ frame[p].op = "restart"
  /\ frame' = [frame EXCEPT ![p].pc = "listen", ![p].ln = Nil]
  /\ UNCHANGED <<mu, nextID, heap, rules, lns, stop, lsn, backend, boot, raced>>

RestartEnd(p) ==
  /\ at(p, "loop")
  /\ frame[p].todo = {}
  /\ mu' = Nil
  /\ frame' = Return(p)
  /\ UNCHANGED <<nextID, heap, rules, lns, stop, lsn, backend, boot, raced>>

-----------------------------------------------------------------------------
(* UpdateRemoteStatus, called by the backend for one of its rules           *)

(* actualListen replaces the configured address unless it is empty.         *)
ReportRunning(p, id) ==
  /\ Serving("report")
  /\ at(p, "idle")
  /\ mu = Nil
  /\ rules[id] # Nil
  /\ heap[rules[id]].typ = "remote"
  /\ \E a \in Addrs \cup {Nil} :
       heap' = LET r == heap[rules[id]] IN
               Configure(rules[id], IF a = Nil THEN r.listen ELSE a, r.target,
                         "running")
  /\ UNCHANGED <<mu, nextID, rules, lns, stop, lsn, backend, boot, frame, raced>>

(* An error is passed on to reportError with e.mu held, as in Restart.      *)
ReportError(p, id) ==
  /\ Serving("report")
  /\ at(p, "idle")
  /\ mu = Nil
  /\ rules[id] # Nil
  /\ heap[rules[id]].typ = "remote"
  /\ heap' = SetStatus(rules[id], "error")
  /\ mu' = p
  /\ frame' = [frame EXCEPT ![p] = [Idle EXCEPT !.pc = "selflock", !.op = "report"]]
  /\ UNCHANGED <<nextID, rules, lns, stop, lsn, backend, boot, raced>>

-----------------------------------------------------------------------------
(* acceptLoop                                                               *)

(* Accept fails on an open listener (out of descriptors, say).              *)
AcceptError(l) ==
  /\ lsn[l] # Nil
  /\ lsn[l].loop = "accept"
  /\ lsn[l].open
  /\ lsn' = [lsn EXCEPT ![l].loop = IF lsn[l].stopped THEN "done" ELSE "report"]
  /\ UNCHANGED <<mu, nextID, heap, rules, lns, stop, backend, boot, frame, raced>>

(* Accept fails because the listener was closed.                            *)
AcceptClosed(l) ==
  /\ lsn[l] # Nil
  /\ lsn[l].loop = "accept"
  /\ ~lsn[l].open
  /\ lsn' = [lsn EXCEPT ![l].loop = IF lsn[l].stopped THEN "done" ELSE "report"]
  /\ UNCHANGED <<mu, nextID, heap, rules, lns, stop, backend, boot, frame, raced>>

(* reportError takes e.mu to read the handler; then the loop returns.       *)
AcceptReport(l) ==
  /\ lsn[l] # Nil
  /\ lsn[l].loop = "report"
  /\ mu = Nil
  /\ lsn' = [lsn EXCEPT ![l].loop = "done"]
  /\ UNCHANGED <<mu, nextID, heap, rules, lns, stop, backend, boot, frame, raced>>

-----------------------------------------------------------------------------
Call(p) ==
  \/ AddBegin(p)
  \/ RestartBegin(p)
  \/ \E id \in IDs :
       \/ RemoveRemoteRule(p, id)
       \/ RemoveBegin(p, id)
       \/ UpdateRemoteRule(p, id)
       \/ UpdateBegin(p, id)
       \/ ReportRunning(p, id)
       \/ ReportError(p, id)

(* The steps that first have to get e.mu.                                   *)
Acquire(p) == AddInsert(p) \/ AddPending(p)

Continue(p) ==
  \/ BackendRemove(p) \/ BackendCopy(p) \/ BackendAdd(p)
  \/ StartListen(p) \/ StartListenFails(p) \/ StartPutListener(p)
  \/ StartSpawn(p) \/ StartFailed(p)
  \/ StopClose(p) \/ StopSignal(p) \/ StopPanics(p)
  \/ RemoveDelete(p) \/ UpdateApply(p)
  \/ \E id \in IDs : RestartRule(p, id)
  \/ RestartStart(p) \/ RestartEnd(p)

Loop(l) == AcceptClosed(l) \/ AcceptReport(l)

Next ==
  \/ \E id \in IDs : Restore(id)
  \/ \E p \in Procs : Call(p) \/ Acquire(p) \/ Continue(p)
  \/ \E l \in Lsns : AcceptError(l) \/ Loop(l)

Spec == Init /\ [][Next]_vars

(* A goroutine that can run does; one that keeps finding e.mu taken gets it *)
(* eventually (sync.Mutex hands it over after 1ms of waiting).  Nobody is   *)
(* obliged to call the engine, and Accept is not obliged to fail.           *)
Fairness ==
  /\ WF_vars(\E id \in IDs : Restore(id))
  /\ \A p \in Procs : SF_vars(Acquire(p)) /\ WF_vars(Continue(p))
  /\ \A l \in Lsns : WF_vars(AcceptClosed(l)) /\ SF_vars(AcceptReport(l))

FairSpec == Spec /\ Fairness

-----------------------------------------------------------------------------
(* Properties                                                               *)

(* No call is in progress on the rule, and no two ever overlapped on it.    *)
(* Update and Remove of local rules, and Restart, exclude each other by     *)
(* e.mu, so only an unfinished Add or Update of a remote rule can overlap.  *)
Quiet(id) == id \notin raced /\ \A p \in Procs : ~Working(p, id)

Local(id) == rules[id] # Nil /\ heap[rules[id]].typ = "local"

Remote(id) == rules[id] # Nil /\ heap[rules[id]].typ = "remote"

(* Every port the process holds belongs to a local rule in e.rules that     *)
(* stopLocked can find it by: no sequence of Add, Remove, Update, Restart   *)
(* and failing net.Listen calls leaks a listener or leaves the old address  *)
(* of an updated rule bound (startLocked, stopLocked and their callers).    *)
PortsOwned ==
  \A l \in Lsns :
    lsn[l] # Nil /\ lsn[l].open =>
      LET id == lsn[l].id IN
      Quiet(id) => /\ Local(id)
                   /\ heap[rules[id]].listen = lsn[l].addr
                   /\ lns[id] = l
                   /\ stop[id] = l

(* What List shows of a local rule agrees with its listener: error exactly  *)
(* when it has none, never pending, never left stopped (Add, Update,        *)
(* Restart and Restore assign Status around startLocked and stopLocked).    *)
StatusHonest ==
  \A id \in IDs :
    Quiet(id) /\ Local(id) =>
      IF lns[id] = Nil THEN heap[rules[id]].status = "error"
      ELSE /\ heap[rules[id]].status \in {"running", ""}
           /\ lsn[lns[id]].open

(* The backend serves exactly the remote rules of the engine, with their    *)
(* current target, whatever mix of Add, Update, Remove and Restore calls on *)
(* other rules was interleaved.                                             *)
BackendAgrees ==
  \A id \in IDs :
    Quiet(id) => backend[id] = IF Backend /\ Remote(id)
                               THEN heap[rules[id]].target ELSE Nil

(* close(e.stop[id]) never meets a missing channel, so no stopLocked panics *)
(* (an Update that does keeps e.mu for ever), unless calls overlapped.      *)
NoPanic ==
  \A p \in Procs :
    at(p, "stopSignal") /\ Obj(p).id \notin raced =>
      stop[Obj(p).id] = lns[Obj(p).id]

(* Add never takes the ID of a rule that exists: e.nextID is past every ID  *)
(* restored or handed out, except when two Adds read it at the same time.   *)
IDsNotReused ==
  [][\A id \in IDs :
       rules[id] # Nil /\ rules'[id] # rules[id] =>
         rules'[id] = Nil \/ id \in raced]_vars

(* A goroutine that will never release e.mu again: it panicked in Update,   *)
(* or waits for itself in reportError.                                      *)
Stuck == \E q \in Procs : frame[q].pc \in {"dead", "selflock"}

(* Every call returns, however the others contend for e.mu, unless e.mu was *)
(* lost for good: no path of the code forgets to release it.                *)
CallsReturn == \A p \in Procs : ~at(p, "idle") ~> at(p, "idle") \/ Stuck

(* After stopLocked the accept loop exits, though stopLocked does not wait  *)
(* for it: no goroutine is left in Accept on behalf of a stopped rule.      *)
LoopsExit ==
  \A l \in Lsns :
    (lsn[l] # Nil /\ lsn[l].stopped /\ lsn[l].id \notin raced)
      ~> \/ lsn[l] # Nil /\ (lsn[l].loop = "done" \/ lsn[l].id \in raced)
         \/ Stuck

-----------------------------------------------------------------------------
(* The facts the properties rest on (proved inductive in EngineProofs)      *)

(* Goroutine p is in a section entered with e.mu held.                      *)
Holds(p) == frame[p].op # "add" /\ frame[p].pc \notin {"idle", "rm", "send", "put"}

(* e.mu is held by the goroutine that is in such a section: there is one.   *)
LockOK == \A p \in Procs : Holds(p) => mu = p

(* A call has the pointers it is about to follow.                           *)
FrameOK(p) ==
  /\ frame[p].pc \notin {"idle", "loop", "selflock"} =>
       frame[p].obj # Nil /\ heap[frame[p].obj] # Nil
  /\ frame[p].obj # Nil => heap[frame[p].obj] # Nil
  /\ frame[p].pc \in {"putLn", "putStop"} =>
       /\ frame[p].ln # Nil
       /\ lsn[frame[p].ln] # Nil
       /\ lsn[frame[p].ln].id = Obj(p).id
  /\ frame[p].pc \in {"stopClose", "stopSignal", "stopped"} =>
       frame[p].op \in {"remove", "update", "restart"}
  /\ frame[p].pc = "loop" => frame[p].op = "restart"
  /\ frame[p].pc = "put" => frame[p].arg # Nil
  /\ frame[p].pc \in {"stopClose", "stopSignal", "stopped"} /\ frame[p].op = "update" =>
       frame[p].arg # Nil
  /\ frame[p].todo # {} => frame[p].op = "restart" /\ Holds(p)
  /\ \A i \in frame[p].todo : rules[i] # Nil

(* e.rules, e.lns and e.stop hold what was stored under the ID.             *)
RefsOK ==
  \A i \in IDs :
    /\ rules[i] # Nil => heap[rules[i]] # Nil /\ heap[rules[i]].id = i
    /\ lns[i] # Nil => lsn[lns[i]] # Nil /\ lsn[lns[i]].id = i
    /\ stop[i] # Nil => lsn[stop[i]] # Nil /\ lsn[stop[i]].id = i

BaseInv == TypeOK /\ LockOK /\ (\A p \in Procs : FrameOK(p)) /\ RefsOK

(* The ID p read for a rule it has not published yet.                       *)
Inserting(p, i) == at(p, "insert") /\ Obj(p).id = i

(* e.nextID is past every published ID; an ID read before e.mu was taken is *)
(* still free, and read by one goroutine only, unless two reads coincided;  *)
(* Restore runs before any call.                                            *)
IdsOK ==
  /\ \A i \in IDs : rules[i] # Nil => i < nextID /\ i \notin boot
  /\ \A p \in Procs, i \in IDs :
       Inserting(p, i) =>
         /\ i <= nextID
         /\ i \notin raced => /\ rules[i] = Nil
                             /\ \A q \in Procs \ {p} : ~Inserting(q, i)
  /\ boot # {} => \A p \in Procs : at(p, "idle")

IdInv == BaseInv /\ IdsOK

-----------------------------------------------------------------------------
(* What a comment of engine.go says, and the code does not do               *)

(* engine.go:239, "Restart stops and restarts every running local rule,     *)
(* preserving state": it returns, also when a port cannot be bound again.   *)
RestartReturns ==
  \A p \in Procs : frame[p].op = "restart" ~> at(p, "idle")
=============================================================================
