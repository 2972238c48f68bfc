------------------------------- MODULE Daemon -------------------------------
(***************************************************************************)
(* The local daemon (runLocal in main.go): the REST API (api.go) over the  *)
(* engine, the rule store (store.go), the SSH manager (manager.go) and the *)
(* credential store (credentials.go), with crashes and restarts.           *)
(*                                                                         *)
(* The engine is reduced to its interface: its rules and e.mu, with a call *)
(* of Add, Update or List as one step; module Engine has the detail.  An   *)
(* SSH client is the set of rules it was given; SSHClient has the detail.  *)
(* What a rule says is one value: a local address, or the credential it is *)
(* forwarded with.                                                         *)
(***************************************************************************)
EXTENDS Naturals, FiniteSets, FiniteSetsExt

CONSTANTS
  Procs,       \* goroutines that serve requests
  MaxID,       \* bound on rule IDs
  MaxCred,     \* bound on credential IDs
  Locals,      \* what a local rule may say
  Cls,         \* SSH clients; one is used again when nothing refers to it
  Disks,       \* rules.json and credentials.json when it is first started
  MaxCalls,    \* bound on the requests that change something
  MaxCrashes,  \* bound on the crashes of the daemon
  Nil,
  Torn,        \* a file cut short by a crash or by a write that failed
  Gone         \* what the user knows of a rule that is deleted

IDs == 1..MaxID
Creds == 1..MaxCred
Confs == Locals \cup Creds

ASSUME BoundsAssumption == {MaxID, MaxCred, MaxCalls, MaxCrashes} \subseteq Nat
ASSUME DisksAssumption ==
  Disks \subseteq [rules: [IDs -> Confs \cup {Nil}], creds: SUBSET Creds]
ASSUME LocalsAssumption == Locals \cap Creds = {}
ASSUME NilAssumption ==
  /\ Nil \notin IDs \cup Confs \cup Cls \cup [cred: Creds, rules: SUBSET IDs]
  /\ Gone \notin Confs \cup {Nil}
ASSUME TornAssumption == Torn \notin [IDs -> Confs \cup {Nil}]

VARIABLES
  up,       \* the process: down, restoring rules, serving, or exited
  crashes,  \* number of crashes
  calls,    \* number of requests
  rfile,    \* rules.json
  cfile,    \* credentials.json
  nextID,   \* e.nextID
  rules,    \* domain of e.rules
  conf,     \* what each *Rule says, also after its removal
  creds,    \* domain of s.cs
  next,     \* s.next
  byRule,   \* m.byRule (and m.rules)
  clients,  \* m.clients (and m.cancel)
  cl,       \* the SSH clients that run: their credential and their rules
  frame,    \* the request each goroutine serves
  known,    \* history: what the user was last told a rule says
  unsaved,  \* history: rules whose last answer no write has brought to rules.json
  lost,     \* history: rules that were unsaved when the process died
  off,      \* history: rules reported as unavailable or cut off with a credential
  raced,    \* history: rules two requests worked on at the same time
  used      \* history: credential IDs in use since the daemon started

engine == <<nextID, rules, conf>>
manager == <<byRule, clients, cl>>
store == <<creds, next, used>>
files == <<rfile, cfile>>
process == <<up, crashes, calls>>
answers == <<known, unsaved, lost>>
vars == <<engine, manager, store, files, process, frame, answers, off, raced>>

Idle == [op |-> "none", pc |-> "idle", id |-> Nil, conf |-> Nil, cl |-> Nil,
         ids |-> {}, late |-> {}]

(* Every variable has its type, and e.nextID is above every rule's ID.      *)
TypeOK ==
  /\ up \in {"down", "boot", "up", "exited"} /\ crashes \in 0..MaxCrashes
  /\ calls \in 0..MaxCalls
  /\ rfile \in [IDs -> Confs \cup {Nil}] \cup {Torn}
  /\ cfile \in (SUBSET Creds) \cup {Torn}
  /\ nextID \in 1..(MaxID + 1) /\ rules \subseteq 1..(nextID - 1)
  /\ conf \in [IDs -> Confs \cup {Nil}]
  /\ creds \subseteq Creds /\ used \subseteq Creds /\ next \in 0..(MaxCred + 1)
  /\ byRule \in [IDs -> Creds \cup {Nil}]
  /\ clients \in [Creds -> Cls \cup {Nil}]
  /\ cl \in [Cls -> [cred: Creds, rules: SUBSET IDs] \cup {Nil}]
  /\ frame \in [Procs ->
       [op: {"none", "boot", "create", "update", "delete", "addcred",
             "delcred"},
        pc: {"idle", "restore", "register", "ensure", "get", "insert", "add",
             "unregister", "remove", "list", "save", "cut", "kill", "shutdown", "forget",
             "key"},
        id: IDs \cup {Nil}, conf: Creds \cup {Nil}, cl: Cls \cup {Nil},
        ids: SUBSET IDs, late: SUBSET IDs]]
  /\ known \in [IDs -> Confs \cup {Gone, Nil}]
  /\ unsaved \subseteq IDs /\ lost \subseteq IDs
  /\ off \subseteq IDs /\ raced \subseteq IDs

Init ==
  /\ up = "down" /\ crashes = 0 /\ calls = 0
  /\ \E d \in Disks : rfile = d.rules /\ cfile = d.creds
  /\ nextID = 1 /\ rules = {} /\ conf = [i \in IDs |-> Nil]
  /\ creds = {} /\ next = 0 /\ used = {}
  /\ byRule = [i \in IDs |-> Nil]
  /\ clients = [k \in Creds |-> Nil] /\ cl = [c \in Cls |-> Nil]
  /\ frame = [p \in Procs |-> Idle]
  /\ known = [i \in IDs |-> Nil] /\ unsaved = {} /\ lost = {}
  /\ off = {} /\ raced = {}

-----------------------------------------------------------------------------
(* Engine.Remove of a remote rule calls the manager with e.mu held.         *)
CanLock == \A p \in Procs : ~(/\ frame[p].op \in {"delete", "delcred"}
                              /\ frame[p].pc \in {"unregister", "remove"})

Goto(p, f) == frame' = [frame EXCEPT ![p] = f]
Remote(i) == conf[i] \in Creds

(* The call of p is at work on rule i in the engine or the manager.         *)
Working(p, i) == frame[p].id = i /\ frame[p].pc \notin {"list", "save"}

(* The requests once rule i is created or removed by p: who has made its    *)
(* list of rules already will save a list that is out of date.              *)
Overtake(p, i, f) ==
  [q \in Procs |-> IF q = p THEN f
                   ELSE IF frame[q].pc = "save" THEN [frame[q] EXCEPT !.late = @ \cup {i}]
                   ELSE frame[q]]

(* p starts to change rule i: its answer is open until p has saved.         *)
Begin(p, i) ==
  /\ known' = [known EXCEPT ![i] = Nil]
  /\ unsaved' = unsaved \ {i} /\ lost' = lost \ {i}
  /\ raced' = IF \E q \in Procs \ {p} : Working(q, i) THEN raced \cup {i} ELSE raced

Stop(p, i, f) == /\ rules' = rules \ {i}
                 /\ frame' = Overtake(p, i, f)

-----------------------------------------------------------------------------
(* Start: the credentials are loaded, then the saved rules are restored one *)
(* after the other, and only then does the API serve.                       *)

\* Mutant: the credentials are counted.
NextAfterLoadCounts(s) == Cardinality(s)

NextAfterLoad(s) == IF s = {} THEN 0 ELSE Max(s) + 1

(* A rules.json that cannot be parsed counts as an empty one.               *)
OnDisk(i) == IF rfile = Torn THEN Nil ELSE rfile[i]
Saved == {i \in IDs : OnDisk(i) # Nil}

Boot(p) ==
  /\ up = "down" /\ cfile # Torn
  /\ up' = "boot"
  /\ creds' = cfile /\ used' = cfile
  /\ next' = NextAfterLoad(cfile)
  /\ Goto(p, [Idle EXCEPT !.op = "boot", !.pc = "restore", !.ids = Saved])
  /\ UNCHANGED <<crashes, calls, files, engine, manager, answers, off, raced>>

(* A credentials file that cannot be parsed ends the daemon.                *)
BootFails ==
  /\ up = "down" /\ cfile = Torn
  /\ up' = "exited"
  /\ UNCHANGED <<crashes, calls, files, engine, manager, store, frame, answers, off, raced>>

\* Mutant: > where >= is needed.
NextIDAfterRestoreOffByOne(i) == IF i > nextID THEN i + 1 ELSE nextID

NextIDAfterRestore(i) == IF i >= nextID THEN i + 1 ELSE nextID

RestoreRule(p) ==
  /\ frame[p].pc = "restore" /\ frame[p].ids # {}
  /\ LET i == Min(frame[p].ids)
         f == [frame[p] EXCEPT !.ids = @ \ {i}]
     IN /\ nextID' = NextIDAfterRestore(i)
        /\ rules' = rules \cup {i}
        /\ conf' = [conf EXCEPT ![i] = rfile[i]]
        /\ Goto(p, IF rfile[i] \in Creds
                   THEN [f EXCEPT !.pc = "register", !.id = i, !.conf = rfile[i]]
                   ELSE f)
  /\ UNCHANGED <<process, files, store, manager, answers, off, raced>>

RestoreEnd(p) ==
  /\ frame[p].pc = "restore" /\ frame[p].ids = {}
  /\ up' = "up"
  /\ Goto(p, Idle)
  /\ UNCHANGED <<crashes, calls, files, engine, manager, store, answers, off, raced>>

-----------------------------------------------------------------------------
(* Manager.AddRemote, called without e.mu                                   *)

\* Mutant: Restore returns where it continues.
RegisteredReturns(f) ==
  IF f.op = "boot" THEN [Idle EXCEPT !.op = "boot", !.pc = "restore"]
  ELSE [Idle EXCEPT !.op = f.op, !.pc = "list", !.id = f.id]

Registered(f) ==
  IF f.op = "boot" THEN [Idle EXCEPT !.op = "boot", !.pc = "restore", !.ids = f.ids]
  ELSE [Idle EXCEPT !.op = f.op, !.pc = "list", !.id = f.id]

Register(p) ==
  /\ frame[p].pc = "register"
  /\ byRule' = [byRule EXCEPT ![frame[p].id] = frame[p].conf]
  /\ Goto(p, [frame[p] EXCEPT !.pc = "ensure"])
  /\ UNCHANGED <<process, files, engine, store, clients, cl, answers, off, raced>>

EnsureClient(p) ==
  /\ frame[p].pc = "ensure"
  /\ LET c == clients[frame[p].conf]
     IN Goto(p, [frame[p] EXCEPT !.pc = IF c = Nil THEN "get" ELSE "add", !.cl = c])
  /\ UNCHANGED <<process, files, engine, store, manager, answers, off, raced>>

(* A client starts to run before the manager knows of it.                   *)
StartClient(p) ==
  /\ frame[p].pc = "get" /\ frame[p].conf \in creds
  /\ \E c \in Cls :
       /\ cl[c] = Nil /\ \A q \in Procs : frame[q].cl # c
       /\ cl' = [cl EXCEPT ![c] = [cred |-> frame[p].conf, rules |-> {}]]
       /\ Goto(p, [frame[p] EXCEPT !.pc = "insert", !.cl = c])
  /\ UNCHANGED <<process, files, engine, store, byRule, clients, answers, off, raced>>

(* The credential does not exist, or its key cannot be read.                *)
Unavailable(p) ==
  /\ frame[p].pc = "get"
  /\ off' = off \cup {frame[p].id}
  /\ Goto(p, Registered(frame[p]))
  /\ UNCHANGED <<process, files, engine, store, manager, answers, raced>>

\* Mutant: the second of two new clients is not cancelled.
InsertClientKeepsBoth(p) ==
  /\ frame[p].pc = "insert"
  /\ LET k == frame[p].conf
     IN IF clients[k] = Nil
        THEN /\ clients' = [clients EXCEPT ![k] = frame[p].cl]
             /\ Goto(p, [frame[p] EXCEPT !.pc = "add"])
        ELSE /\ Goto(p, [frame[p] EXCEPT !.pc = "add", !.cl = clients[k]])
             /\ UNCHANGED clients
  /\ UNCHANGED <<process, files, engine, store, byRule, cl, answers, off, raced>>

InsertClient(p) ==
  /\ frame[p].pc = "insert"
  /\ LET k == frame[p].conf
     IN IF clients[k] = Nil
        THEN /\ clients' = [clients EXCEPT ![k] = frame[p].cl]
             /\ Goto(p, [frame[p] EXCEPT !.pc = "add"])
             /\ UNCHANGED cl
        ELSE /\ cl' = [cl EXCEPT ![frame[p].cl] = Nil]
             /\ Goto(p, [frame[p] EXCEPT !.pc = "add", !.cl = clients[k]])
             /\ UNCHANGED clients
  /\ UNCHANGED <<process, files, engine, store, byRule, answers, off, raced>>

ClientAdd(p) ==
  /\ frame[p].pc = "add"
  /\ LET c == frame[p].cl
     IN cl' = IF cl[c] = Nil THEN cl ELSE [cl EXCEPT ![c].rules = @ \cup {frame[p].id}]
  /\ off' = off \ {frame[p].id}
  /\ Goto(p, Registered(frame[p]))
  /\ UNCHANGED <<process, files, engine, store, byRule, clients, answers, raced>>

-----------------------------------------------------------------------------
(* Manager.RemoveRemote, called by Update without e.mu, by Remove with it   *)

\* Mutant: the credential is taken from the rule, which Update has changed.
RuleClientOfRule(i) == IF Remote(i) THEN clients[conf[i]] ELSE Nil

RuleClient(i) == IF byRule[i] = Nil THEN Nil ELSE clients[byRule[i]]

Unregister(p) ==
  /\ frame[p].pc = "unregister"
  /\ byRule' = [byRule EXCEPT ![frame[p].id] = Nil]
  /\ Goto(p, [frame[p] EXCEPT !.pc = "remove", !.cl = RuleClient(frame[p].id)])
  /\ UNCHANGED <<process, files, engine, store, clients, cl, answers, off, raced>>

(* Update then copies the rule for AddRemote; Remove deletes it from the    *)
(* engine and releases e.mu.                                                *)
ClientRemove(p) ==
  /\ frame[p].pc = "remove"
  /\ LET f == frame[p]
         i == f.id
     IN /\ cl' = IF f.cl = Nil \/ cl[f.cl] = Nil THEN cl
                 ELSE [cl EXCEPT ![f.cl].rules = @ \ {i}]
        /\ \/ /\ f.op = "update"
              /\ Goto(p, [f EXCEPT !.pc = "register", !.cl = Nil, !.conf = conf[i]])
              /\ UNCHANGED rules
           \/ f.op = "delete" /\ Stop(p, i, [f EXCEPT !.pc = "list", !.cl = Nil])
           \/ f.op = "delcred" /\ Stop(p, i, [f EXCEPT !.pc = "cut", !.cl = Nil, !.id = Nil])
  /\ UNCHANGED <<process, files, nextID, conf, store, byRule, clients, answers, off, raced>>

-----------------------------------------------------------------------------
(* Rules: the handlers of POST, PUT and DELETE /api/rules.  A local rule    *)
(* may fail to start: the answer is then an error and nothing is saved,     *)
(* but the engine keeps the rule.                                           *)

Serve(p) == up = "up" /\ frame[p] = Idle

AddRule(p, v) ==
  /\ Serve(p) /\ CanLock /\ nextID \in IDs
  /\ nextID' = nextID + 1
  /\ rules' = rules \cup {nextID}
  /\ conf' = [conf EXCEPT ![nextID] = v]
  /\ LET f == [Idle EXCEPT !.op = "create", !.id = nextID]
     IN \/ /\ v \in Creds
           /\ frame' = Overtake(p, nextID, [f EXCEPT !.pc = "register", !.conf = v])
        \/ v \in Locals /\ frame' = Overtake(p, nextID, [f EXCEPT !.pc = "list"])
        \/ v \in Locals /\ frame' = Overtake(p, nextID, Idle)
  /\ Begin(p, nextID)
  /\ UNCHANGED <<up, crashes, files, store, manager, off>>

UpdateRule(p, i, v) ==
  /\ Serve(p) /\ CanLock /\ i \in rules
  /\ conf[i] \in Creds <=> v \in Creds
  /\ conf' = [conf EXCEPT ![i] = v]
  /\ LET f == [Idle EXCEPT !.op = "update", !.id = i]
     IN \/ v \in Creds /\ Goto(p, [f EXCEPT !.pc = "unregister"])
        \/ v \in Locals /\ Goto(p, [f EXCEPT !.pc = "list"])
        \/ v \in Locals /\ Goto(p, Idle)
  /\ Begin(p, i)
  /\ UNCHANGED <<up, crashes, files, nextID, rules, store, manager, off>>

RemoveRule(p, i) ==
  /\ Serve(p) /\ CanLock /\ i \in rules
  /\ LET f == [Idle EXCEPT !.op = "delete", !.id = i]
     IN IF Remote(i) THEN Goto(p, [f EXCEPT !.pc = "unregister"]) /\ UNCHANGED rules
        ELSE Stop(p, i, [f EXCEPT !.pc = "list"])
  /\ Begin(p, i)
  /\ UNCHANGED <<up, crashes, files, nextID, conf, store, manager, off>>

(* saveRules: the list is taken under e.mu, the file written under the      *)
(* store's lock; the rules are read through their pointers as they are then.*)
ListRules(p) ==
  /\ frame[p].pc = "list" /\ CanLock
  /\ Goto(p, [frame[p] EXCEPT !.pc = "save", !.ids = rules])
  /\ UNCHANGED <<process, files, engine, store, manager, answers, off, raced>>

Persisted(s) == [i \in IDs |-> IF i \in s THEN conf[i] ELSE Nil]

(* What the user knows once p has answered: p's rule is as p left it, unless *)
(* another request is at work on it.                                        *)
Told(p) ==
  LET f == frame[p]
  IN [known EXCEPT ![f.id] =
        IF f.id \in f.late \/ \E q \in Procs \ {p} : frame[q].id = f.id THEN Nil
        ELSE IF f.id \in f.ids THEN conf[f.id] ELSE Gone]

(* A write leaves out, or brings back, the rules that came or went since p  *)
(* made its list: the user is not held to know of them any more.            *)
SaveRules(p) ==
  /\ frame[p].pc = "save"
  /\ rfile' = Persisted(frame[p].ids)
  /\ known' = [i \in IDs |-> IF i \in frame[p].late THEN Nil ELSE Told(p)[i]]
  /\ unsaved' = {}
  /\ Goto(p, Idle)
  /\ UNCHANGED <<process, cfile, engine, store, manager, lost, off, raced>>

(* The write fails, before or after the file was truncated; the error is    *)
(* ignored and the user is told of success.                                 *)
SaveRulesFails(p) ==
  /\ frame[p].pc = "save"
  /\ known' = Told(p)
  /\ \/ UNCHANGED rfile /\ unsaved' = unsaved \cup {frame[p].id}
     \/ rfile' = Torn /\ unsaved' = {i \in IDs : known'[i] \notin {Nil, Gone}}
  /\ Goto(p, Idle)
  /\ UNCHANGED <<process, cfile, engine, store, manager, lost, off, raced>>

-----------------------------------------------------------------------------
(* Credentials.  The store writes its file under its lock: one step.        *)

SaveCreds(s) == cfile' = s
SaveCredsFails == cfile' \in {cfile, Torn}

AddCred(p) ==
  /\ Serve(p) /\ next + 1 \in Creds
  /\ next' = next + 1
  /\ \/ /\ creds' = creds \cup {next + 1} /\ used' = used \cup {next + 1}
        /\ SaveCreds(creds')
        /\ frame' \in {frame, [frame EXCEPT ![p] =
                      [Idle EXCEPT !.op = "addcred", !.pc = "key", !.conf = next + 1]]}
     \/ UNCHANGED <<creds, used, frame>> /\ SaveCredsFails
  /\ UNCHANGED <<up, crashes, rfile, engine, manager, answers, off, raced>>

(* An uploaded key is written to a file named after the ID, and its path    *)
(* saved with the credential, which may be deleted by now.                  *)
SaveKey(p) ==
  /\ frame[p].pc = "key"
  /\ \/ UNCHANGED cfile
     \/ frame[p].conf \in creds /\ (SaveCreds(creds) \/ SaveCredsFails)
  /\ Goto(p, Idle)
  /\ UNCHANGED <<process, rfile, engine, store, manager, answers, off, raced>>

(* The login changes, which clients that already run do not hear of.        *)
UpdateCred(p, k) ==
  /\ Serve(p) /\ k \in creds
  /\ SaveCreds(creds) \/ SaveCredsFails
  /\ UNCHANGED <<up, crashes, rfile, engine, store, manager, frame, answers, off, raced>>

(* deleteCredential: the rules are listed, as pointers; each that says the  *)
(* credential when its turn comes is removed, whatever it says by then.     *)
(* rules.json is not written.  conf is read without a lock: IDs of one      *)
(* length are read as they were before or after a write.                    *)
DeleteCred(p, k) ==
  /\ Serve(p) /\ CanLock
  /\ Goto(p, [Idle EXCEPT !.op = "delcred", !.pc = "cut", !.conf = k, !.ids = rules])
  /\ UNCHANGED <<up, crashes, files, engine, store, manager, answers, off, raced>>

CutRule(p) ==
  /\ frame[p].pc = "cut" /\ frame[p].ids # {}
  /\ LET i == Min(frame[p].ids)
     IN Goto(p, IF conf[i] = frame[p].conf THEN [frame[p] EXCEPT !.pc = "kill"]
                ELSE [frame[p] EXCEPT !.ids = @ \ {i}])
  /\ UNCHANGED <<process, files, engine, store, manager, answers, off, raced>>

KillRule(p) ==
  /\ frame[p].pc = "kill" /\ CanLock
  /\ LET i == Min(frame[p].ids)
         f == [frame[p] EXCEPT !.ids = @ \ {i}]
     IN IF i \in rules
        THEN Begin(p, i) /\ Goto(p, [f EXCEPT !.id = i, !.pc = "unregister"])
        ELSE Goto(p, [f EXCEPT !.pc = "cut"]) /\ UNCHANGED <<answers, raced>>
  /\ UNCHANGED <<process, files, engine, store, manager, off>>

(* RemoveCredential under m.mu                                              *)
PurgeCred(p) ==
  /\ frame[p].pc = "cut" /\ frame[p].ids = {}
  /\ LET k == frame[p].conf
         cut == {i \in IDs : byRule[i] = k}
     IN /\ byRule' = [i \in IDs |-> IF i \in cut THEN Nil ELSE byRule[i]]
        /\ clients' = [clients EXCEPT ![k] = Nil]
        /\ off' = off \cup cut
        /\ raced' = raced \cup {i \in cut : \E q \in Procs : Working(q, i)}
        /\ Goto(p, [frame[p] EXCEPT !.pc = "shutdown", !.cl = clients[k]])
  /\ UNCHANGED <<process, files, engine, store, cl, answers>>

ShutdownClient(p) ==
  /\ frame[p].pc = "shutdown"
  /\ cl' = [c \in Cls |-> IF c = frame[p].cl THEN Nil ELSE cl[c]]
  /\ Goto(p, [frame[p] EXCEPT !.pc = "forget", !.cl = Nil])
  /\ UNCHANGED <<process, files, engine, store, byRule, clients, answers, off, raced>>

ForgetCred(p) ==
  /\ frame[p].pc = "forget"
  /\ creds' = creds \ {frame[p].conf}
  /\ \/ frame[p].conf \notin creds /\ UNCHANGED cfile
     \/ frame[p].conf \in creds /\ (SaveCreds(creds') \/ SaveCredsFails)
  /\ Goto(p, Idle)
  /\ UNCHANGED <<process, rfile, engine, next, used, manager, answers, off, raced>>

-----------------------------------------------------------------------------
(* The process dies, perhaps in the middle of writing a file.               *)
Crash ==
  /\ up \in {"boot", "up"} /\ crashes < MaxCrashes
  /\ up' = "down" /\ crashes' = crashes + 1 /\ UNCHANGED calls
  /\ \/ UNCHANGED files /\ lost' = lost \cup unsaved
     \/ /\ \E p \in Procs : frame[p].pc = "save"
        /\ rfile' = Torn /\ lost' = lost \cup {i \in IDs : known[i] \notin {Nil, Gone}}
        /\ UNCHANGED cfile
     \/ /\ \E p \in Procs : Serve(p) \/ frame[p].pc \in {"forget", "key"}
        /\ cfile' = Torn /\ lost' = lost \cup unsaved
        /\ UNCHANGED rfile
  /\ nextID' = 1 /\ rules' = {} /\ conf' = [i \in IDs |-> Nil]
  /\ creds' = {} /\ next' = 0 /\ used' = {}
  /\ byRule' = [i \in IDs |-> Nil]
  /\ clients' = [k \in Creds |-> Nil] /\ cl' = [c \in Cls |-> Nil]
  /\ frame' = [p \in Procs |-> Idle]
  /\ UNCHANGED known /\ unsaved' = {}
  /\ off' = {} /\ raced' = {}

Step(p) ==
  \/ RestoreRule(p) \/ RestoreEnd(p)
  \/ Register(p) \/ EnsureClient(p) \/ StartClient(p) \/ Unavailable(p)
  \/ InsertClient(p) \/ ClientAdd(p) \/ Unregister(p) \/ ClientRemove(p)
  \/ ListRules(p) \/ SaveRules(p) \/ SaveRulesFails(p)
  \/ CutRule(p) \/ KillRule(p) \/ PurgeCred(p) \/ ShutdownClient(p) \/ ForgetCred(p)
  \/ SaveKey(p)

Request(p) ==
  /\ calls < MaxCalls /\ calls' = calls + 1
  /\ \/ \E v \in Confs : AddRule(p, v)
     \/ \E i \in IDs, v \in Confs : UpdateRule(p, i, v)
     \/ \E i \in IDs : RemoveRule(p, i)
     \/ AddCred(p)
     \/ \E k \in Creds : UpdateCred(p, k) \/ DeleteCred(p, k)

Next ==
  \/ \E p \in Procs : Boot(p) \/ Step(p) \/ Request(p)
  \/ BootFails
  \/ Crash

Spec == Init /\ [][Next]_vars

-----------------------------------------------------------------------------
(* What an answer says of a rule holds: while the daemon serves the engine  *)
(* has the rule as the user was told, a failing write or not (api.go:35-36), *)
(* and rules.json says it too, also after other requests, crashes and       *)
(* restarts -- but for what a failed write left unsaved.  That such a       *)
(* request is answered as a success, and what it did may be gone after a    *)
(* restart, is against api.go:24-25 (every mutation is written through);    *)
(* the next write that succeeds saves it, and every other rule stays as it  *)
(* was told.  Nothing is known of a rule whose request is unfinished or was *)
(* refused, that was cut with its credential, or that came or went between  *)
(* another request's list of rules and its write.                           *)
Durable ==
  \A i \in IDs \ lost : known[i] # Nil =>
    /\ i \notin unsaved => OnDisk(i) = (IF known[i] = Gone THEN Nil ELSE known[i])
    /\ up = "up" => /\ i \in rules <=> known[i] # Gone
                    /\ i \in rules => conf[i] = known[i]

Quiet == up = "up" /\ \A p \in Procs : frame[p].pc \in {"idle", "list", "save", "key"}

(* Between requests a remote rule is forwarded by the client of the         *)
(* credential it names and by no other, and a rule that is removed or was   *)
(* reported as unavailable by none -- across any sequence of updates from   *)
(* one credential to another, deletions and restarts.  Rules that two       *)
(* requests worked on at once are excepted.                                 *)
ForwardsAgree == Quiet =>
  \A i \in IDs \ raced :
    {c \in Cls : cl[c] # Nil /\ i \in cl[c].rules} =
      IF i \in rules /\ Remote(i) /\ i \notin off THEN {clients[conf[i]]} ELSE {}

(* No SSH client is lost: one that runs is the manager's client of its      *)
(* credential, or a request is about to store it or to shut it down.        *)
ClientsOwned ==
  \A c \in Cls : cl[c] # Nil =>
    \/ clients[cl[c].cred] = c
    \/ \E p \in Procs : frame[p].cl = c /\ frame[p].pc \in {"insert", "shutdown"}

(* A credential gets an ID no other had since the daemon started, those     *)
(* loaded from the file included, deleted ones too.                         *)
CredIDsFresh == [][next' # next /\ up = "up" => next' \notin used]_vars
=============================================================================
