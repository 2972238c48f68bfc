# Verification of port-forwarder

TLA+ models of the Go program port-forwarder (`pf`), the TLC runs that check
them on small instances, and TLAPS proofs that hold for every instance. Paths
are relative to `src/`.

## 1. The system

`pf` forwards TCP ports. A *local* rule listens on this machine and relays each
connection to a target. A *remote* rule opens a port on a public host, either
through a plain sshd (`ssh -R`, the daemon) or through a `pf server` (the
tunnel). Rules and credentials are managed by a REST API and a web UI.

| Component | State | Operations | Interacts with |
|---|---|---|---|
| `internal/engine/engine.go` | rules, listeners, stop channels, `nextID`, one mutex | Add, Remove, Update, Restart, Restore, UpdateRemoteStatus, an accept loop per listener | called by HTTP handlers concurrently; calls a RemoteBackend; hands connections to forward |
| `internal/forward/forward.go` | two connections, a `sync.Once` | Relay: two copying goroutines, half-close, terminate | used by engine, ssh, tunnel |
| `internal/ssh/client.go` | registered rules, open remote listeners, the SSH connection | Add, Remove, Shutdown, Run (connect, subscribe all, wait, reconnect) | driven by manager; reports status by callback |
| `internal/ssh/manager.go`, `credentials.go` | client per credential, rule → credential, credentials on disk | AddRemote, RemoveRemote, RemoveCredential, ensureClient; Add, Update, Delete | backend of the daemon's engine |
| `internal/tunnel/client.go` | rules, control connection | Add, Remove, Run, handleOpen | JSON frames to the server |
| `internal/tunnel/server.go`, `protocol.go` | sessions, public listeners, pending connections | register, unregister, openData, close | frames and data connections of clients |
| `internal/api/api.go`, `internal/engine/store.go` | rules.json | a handler per route, saveRules after a change | engine, manager |
| `main.go` | - | wiring of the three modes, clientBackend | all |
| `internal/ssh/auth.go`, `internal/webui` | none | build auth methods; serve assets | - |

What is hard here: every HTTP request is a goroutine, and the engine's mutex
does not cover everything its methods touch; callbacks and backend calls are
made outside (and in two places inside) critical sections; Run reconnects while
rules change under it; two relay goroutines tear down the connections they
share; the engine changes before the file is written. `PROJECT.json` lists the
hazards with their lines.

What makes each part correct:

- *engine*: a port is open exactly for the rules that say so, IDs are not
  reused, a stopped rule's loop ends, no call blocks for ever, the backend
  knows the same remote rules as the engine;
- *forward*: bytes arrive once, in order, EOF last; nothing stays open;
- *ssh client*: every registered rule gets its listener on the current
  connection, no listener or connection is left behind;
- *tunnel*: the server's public listeners follow the client's rules across
  reconnects; a public connection meets the data connection made for it;
- *manager, store, API*: one client per credential; what a restart restores is
  what was running.

## 2. Plan

| Step | Modules | State |
|---|---|---|
| 1 | `Engine`, `MCEngine` | done: model, runs |
| 2 | `Relay` | done: model, runs |
| 3 | `SSHClient`, `MCSSHClient` | done: model, runs |
| 4 | `Tunnel`, `MCTunnel`: client and server over two FIFO channels, connection loss, restart of the server; `TunnelData`: public and data connections | done: models, runs |
| 5 | `Daemon`, `MCDaemon`: API handlers over an abstract engine, rules.json and credentials.json, one SSH client per credential, crash and restart | done: model, run |
| 6 | `Duplex`: what a relayed connection promises, implemented by `Relay` | done: refinement checked, its safety part proved |
| 7 | `EngineProofs`, `EngineRuleProofs`, `RelayProofs`, `SSHClientProofs`, `TunnelProofs`, `TunnelRuleProofs`, `TunnelDataProofs`, `DaemonProofs` | done: every invariant and every action property that a run checks is proved (section 5) |

What is left to TLC is liveness, the fairness that `Relay` owes `Duplex`, and
the two refuted comments.

## 3. Modules

### Engine

One action per atomic step of `engine.go`. `frame[p]` is the call goroutine p
executes: a label, the operation, the `*Rule` it works on, the listener in hand.
A call is cut where another goroutine can run: at every acquisition of `e.mu`,
and, where the code works without it (Add's start, the copy of `*r` for
AddRemote) or is watched by accept loops, at every access to shared state.

| Code | Actions |
|---|---|
| Add | AddBegin (reads `nextID` unlocked), AddInsert, then AddPending, BackendCopy, BackendAdd (remote) or the Start actions (local) |
| startLocked | StartListen / StartListenFails, StartPutListener, StartSpawn, StartFailed (the error path of each caller) |
| stopLocked | StopClose, StopSignal, StopPanics (`close` of a missing channel) |
| Remove | RemoveRemoteRule, or RemoveBegin, Stop..., RemoveDelete |
| Update | UpdateRemoteRule, BackendRemove, BackendCopy, BackendAdd, or UpdateBegin, Stop..., UpdateApply, Start... |
| Restart | RestartBegin, then per rule RestartRule, Stop..., RestartStart, Start...; RestartEnd |
| Restore | Restore, one step per rule, alone before serving (`main.go`, runLocal), in any order |
| UpdateRemoteStatus | ReportRunning, ReportError |
| acceptLoop, reportError | AcceptError, AcceptClosed, AcceptReport |

Abstractions. A configuration is a type, an address and a target; name and
credential go with the target. The empty type of a request is local, as in the
code. Port 0 is left out, so an address is bound at most once. `net.Listen` may
always fail. A listener, its stop channel and its accept loop are one token,
used again when nothing refers to it. UpdateRemoteStatus is called for remote
rules only, as the backends do. The fatal error of the Go runtime on concurrent
map writes would add only a terminal state; torn reads of a status string are
left out. AcceptError covers permanent failures of Accept; timeouts, which the
loop retries, change nothing.

A goroutine that calls reportError with `e.mu` held waits for itself
("selflock"); a panic inside Update leaves `e.mu` locked ("dead"), since
net/http recovers the panic and Update has no deferred Unlock.

`raced` is a history variable: the IDs on which two calls were in progress at
once. Local Update, Remove and Restart exclude each other by `e.mu`, so only an
unfinished Add, or the unlocked part of a remote Update, can overlap with
another call. The properties that the code keeps only without such overlaps
say so through `Quiet`; everything else (other rules, other orders, failures)
is unrestricted.

### Relay

One forwarded connection, from the dial of handleConn to the return of Relay.
`io.Copy` is cut into reads of any size and writes of one byte against a bounded
buffer; the peers and the network (send, half-close, reset, receive) are
external. `tcp` is the set of ends that are a `*net.TCPConn`: both in the engine
and the tunnel client, not the client end in ssh's relay (a channel), not the
upstream end in the tunnel server (a bridgeConn). closeWriteHalf closes the
other kind entirely. Close with unread data may destroy data under way to the
peer, as TCP does.

`Duplex` states what the two peers may rely on, without buffers, chunks or
goroutines: two streams, each delivered byte by byte in order, all of it while
both peers stay; once one has ended its connection (or the dial fails), both
are closed. `Relay` implements it (D in Relay, ImplementsDuplex), safety and
liveness, with `over` and `closed` read off the peers and the handler's phase.
After a peer has ended, Duplex promises no further delivery, because Relay does
not (relay_read_half below).

### SSHClient

`client.go` with one step per critical section of `c.mu`; `conn.Listen` is
called with `c.mu` held, so a subscribe is one step. Run is a goroutine with
labels top, dial, install, snapshot, sub, told, wait, drain, clear; callers run
Add, Remove and Shutdown. The transport and the sshd are external: a connection
may end at any time, which ends its listeners (Accept returns io.EOF);
`conn.Listen` may be refused. `refused` and `raced` are histories: rules refused
a listener, and rules changed in mid-subscribe, both since the current
connection was installed. `effective` is one too: what a rule last said while it
had no listener. A second Add of a rule that has one changes `c.pending` only
(SubscribeExists), so the listener forwards to the old target until the next
connection; ListenersAgree says of every listener that it forwards what is
effective. Status reports carry no state in this module; the relaying of a
connection is `Relay`.

### Tunnel

The control plane of `client.go` and `server.go`, composed. A connection is a
record with the state of both ends and a queue of frames each way; a connection
that the network lost without notice has `lost` set and carries nothing. Only
frames that change state are in the queues: register and unregister one way,
error the other; `registered` is read and ignored by the client, and neither
side sends a ping.

| Code | Actions |
|---|---|
| Client.Add, Remove | Add, Remove (store and read `c.enc` under `c.mu`), then Send |
| Client.Run | RunStops, ConnectFails, Connect, RunSnapshot, RunSend, RunServe, RunRead, RunEOF |
| Server.Serve | Accept, AcceptInsert, AcceptFails |
| clientSession.serve | Read, ReadFails, Deadline |
| register | RegisterListen, RegisterPublish or RegisterFails |
| unregister | UnregisterDelete, UnregisterClose, UnregisterWait |
| acceptPublic | acceptPublicEnds |
| clientSession.close | SessionEnd |
| Server.Close | CloseBegin, CloseSnapshot, CloseSession, CloseEnd |

Deadline stands for 120 s without a frame. Histories: `told`, the rules whose
failure reached the client since it connected and that were not changed after
it; `raced`, the rules changed since then while a frame for them was unsent.
`Cap` is the 30 s of Run's delay, `MaxCalls` the bound on calls; names of
connections and listeners are used again once nothing refers to them.

### TunnelData

The data plane: openData per public connection, handleOpen per open frame, over
the sessions of one client, one after the other. Ports of data listeners are
used again as soon as they are closed, while a handleOpen may still be about to
dial them; connection IDs start at 1 in each session (`nextID` belongs to the
session). A data connection is the handleOpen that dialed it, with the listener
its other end belongs to; a connection that a listener still has queued is
closed with it. `MaxConns` bounds the connections: those that have an ID in some
session and those whose ID is not drawn yet.

| Code | Actions |
|---|---|
| acceptPublic | acceptPublic |
| openData | Listen / ListenFails (with the drawing of the ID), Encode / EncodeFails, Accept / Deadline, ReadHeader / HeaderFails, RelayReturns; every return runs the deferred closes (Return) |
| Client.serve | serve |
| handleOpen | Dial / DialFails, WriteHeader / WriteFails, DialTarget / NoTarget (no such rule, or the target does not answer), HandlerReturns |
| connect, close | Reconnect, CloseSession, and Lose for the network |

The two ends of a data connection close each for itself: `open` is handleOpen's
end, which every one of its returns closes (End), `to` is the server's, which
openData closes (Return), and EndsTogether is that neither goroutine outlives the other. A relay
returns when the other end was closed, and fairness asks for that only; a return
of handleOpen that forgot to close leaves openData in its relay for ever.

`se.pending` is not represented: it is written and deleted, never read. Whether
the rule exists is a free choice; Tunnel has the rules. Bytes are the subject of
Relay.

### Daemon

runLocal as a whole, one step per critical section of `m.mu`, of the engine, or
of a store. The engine is its interface: `rules`, what each `*Rule` says (`conf`)
and `e.mu`; a call of Add, Update or List is one step on it, and Remove of a
remote rule holds `e.mu` while it is in the manager (CanLock). A local rule may
fail to start, with the error answer and without a save. An SSH client is the
set of rules it was given.

| Code | Actions |
|---|---|
| runLocal, NewCredStore, Restore | Boot, BootFails, RestoreRule, RestoreEnd |
| AddRemote, ensureClient | Register, EnsureClient, StartClient / Unavailable, InsertClient, ClientAdd |
| RemoveRemote | Unregister, ClientRemove |
| createRule, updateRule, deleteRule | AddRule, UpdateRule, RemoveRule, then the manager's actions, then saveRules |
| saveRules, Store.Save | ListRules, SaveRules / SaveRulesFails |
| createCredential, updateCredential | AddCred, SaveKey, UpdateCred |
| deleteCredential, RemoveCredential | DeleteCred, per rule CutRule and KillRule (then Unregister, ClientRemove), PurgeCred, ShutdownClient, ForgetCred |

deleteCredential takes a list of pointers (DeleteCred), and compares what each
rule says when its turn comes (CutRule, without a lock) before Engine.Remove
takes `e.mu` (KillRule): a rule that was moved to the credential since the list
was made goes, one that was moved away stays, and one that is moved away after
the comparison goes as well.

A file is what it says, or `Torn`: os.WriteFile truncates it first, so a failing
write and a crash in the middle leave it unreadable. Crash forgets all but the
files. Histories: `known`, what the last answer told the user of a rule, open
again while a request for the rule is under way (Told: a request whose write
failed answers like any other, api.go:34-38); `unsaved`, the rules whose last
answer no write has brought to rules.json, because their own write failed or a
later one tore the file; `lost`, those that were unsaved when the process died; `late` (in a frame), the rules
that came or went after that request made its list; `off`, the rules reported as
unavailable or cut off; `raced`, the rules two requests worked on at once;
`used`, the credential IDs since the start.

## 4. Runs

All runs have CHECK_DEADLOCK FALSE: an engine without requests, a finished
connection, a stopped Run and a daemon that could not read its credentials rest,
and so do models whose bound on calls is used up.

| Run | Bounds | Shows |
|---|---|---|
| engine | 2 goroutines, 3 rule objects, 2 listeners, 2 addresses, IDs 1..2, one saved local rule, no backend; Add, Remove, Update | types; PortsOwned, StatusHonest, NoPanic, IDsNotReused |
| engine_remote | 2 goroutines, 3 objects, IDs 1..3, a saved local and remote rule, 2 targets, backend | BackendAgrees |
| engine_live | 2 goroutines, 2 rules, 1 listener, Restart too, fairness | CallsReturn, LoopsExit, and PortsOwned, StatusHonest with Restart |
| relay | 3 bytes each way, buffer of 1, every kind of connection, fairness | InOrder, NothingLost, EOFIsLast, NoneLeftOpen, RelayReturns, ImplementsDuplex |
| ssh_client | 2 callers, 1 rule with 2 contents, 2 connections, 2 entries, cancellation | types, NothingForgotten, ListenersAgree, ListenersOwned, OneConnection, StopsOnce |
| ssh_client_live | 1 caller, 1 rule, cancellation, fairness | RunReturns, LoopsExit |
| tunnel | 2 callers, 3 calls, 1 rule, 2 addresses, 2 connections, 2 listeners, loss, crash | types, RulesAgree, PublicOwned |
| tunnel_live | 1 caller, 2 calls, 1 rule, 1 address, 2 connections, cancellation, Close, fairness | RunReturns, HandlersReturn |
| tunnel_data | 2 public connections and 2 handleOpen at a time, 2 sessions, 2 connections in all, 2 ports, fairness | Matched, DataOwned, PublicServed, EndsTogether |
| daemon | 2 goroutines, 3 changing requests, 1 crash, 2 rule IDs, 3 credential IDs, 3 SSH clients, 3 first states of the disk | Durable, ForwardsAgree, ClientsOwned, CredIDsFresh |

Why the bounds suffice for the cases of interest: two goroutines make every
overlap of two calls; three objects allow two Adds to race for one ID next to a
restored rule; two addresses allow an Update to move a rule and a second one to
want its port; two connection names allow an old connection to be held by a
caller while a new one is up; two entries allow an old listener to be closing
while a new one opens; a buffer of one byte makes every write block. In the
tunnel, two addresses and three calls allow a rule to be added, moved and
removed; two connections let a client be back while the server still serves its
old session, so that its port is taken; a delay cap of 2 makes Run reach it.
Two data ports and two public connections let a listener get the port of one
that is gone and leave its predecessor's handleOpen to dial it. In the daemon
the three disks (empty; one rule; a rule on each of two credentials) replace the
requests that would build them, three requests allow two to overlap after
another, and three clients let two be started for one credential next to one
that is being shut down. Without any one of the exceptions of Matched (a session
before), Durable (`late`, `unsaved`, `lost`) and ForwardsAgree (`raced`, `off`)
TLC finds the code breaking the rest; each is described below.

Runs that TLC refutes, each a comment the code does not keep:

| Run | Comment | What happens |
|---|---|---|
| engine_restart_returns | engine.go:239 | Restart reports a failed start with `e.mu` held and waits for itself; UpdateRemoteStatus does the same (208) |
| relay_read_half | forward.go:35-36 | the first EOF closes both connections, data of the other direction is lost |

Other disagreements met while reading, not the subject of a run: two concurrent
Adds can read one `nextID`, and the second rule replaces the first
(engine.go:89-94; IDsNotReused excepts exactly that); a Remove between Add's two
sections leaves a port that nobody owns, although startLocked asks for `e.mu` and
Remove "stops and deletes" (engine.go:121, 301, 135; PortsOwned excepts it); a
rule removed or replaced after subscribeAll's snapshot is opened as it was
(ssh/client.go:202-213 against 83 and 68-69; ListenersAgree excepts it); without
any overlap, a second ssh Add of a rule that has a listener returns early and
the old target is forwarded until the connection is made again, although the
comment says that Add "takes effect immediately" (209-212 against 68-69;
ListenersAgree states what the code does, with `effective`; the engine removes a
rule before it adds it again, so the daemon meets this only if Updates overlap); a tunnel Remove between
Run's snapshot and its send is undone by the register that follows
(tunnel/client.go:67, 124; RulesAgree excepts it through `raced`), and
Server.Close between a register's Listen and its publication leaves the public
port open (tunnel/server.go:114, 193; PublicOwned is stated until Close); the
read deadline that "detects dead clients" (155) also cuts idle live ones;
stopLocked does
not wait for the loop (engine.go:314); a restored rule that runs has an empty
status (260); a failed Accept leaves the status running (14); ssh Add reports a
nil error without a connection (client.go:25-26, 79); Shutdown does not prevent
reconnects, the manager's cancel does (95-96); SetOnRule of the tunnel client is
called for errors only (tunnel/client.go:46-47); the credential list is not
ordered (credentials.go:67).

In the daemon: "every rule mutation is written through" (api.go:24-25) does not
hold of deleteCredential, which saves nothing (255-263), of an Add or Update that
fails to start but stays in the engine, or of a list another request has
overtaken (34): such rules come back, or are lost, with a restart. Nor does it
of a write that fails: saveRules ignores the error and the request is answered
as a success (34-38, 99-100), so that what the user was told may be gone after a
restart, and other rules with it if the file was torn. What the comment there
promises (35-36: the running rules stay, only restart persistence is lost) does
hold: Durable checks that the engine agrees with every answer, failed writes
included, and excepts from the file alone what is in `unsaved` or `lost`. A torn
rules.json is taken as no rules at all and overwritten by the next save; a torn
credentials.json ends the daemon (main.go:197, 214). IDs of credentials continue
above the highest on disk, so that after deleting the newest ones a restart
hands their IDs out again, and a saved rule may refer to another login
(credentials.go:52). updateCredential does not reach a client that runs
(api.go:222). Remote status reports are only logged (main.go:202): the rule stays
pending in the UI. In the tunnel, a handleOpen of the session before may reach a
listener of this one with an ID that matches by chance, since IDs restart
(server.go:286); ReadString of the header has no deadline of its own (258), so a
client that connects and sends nothing holds the public connection until it
closes: handleOpen writes at once.

Fairness. Goroutines that can run do (weak fairness per goroutine). A goroutine
that waits for `e.mu` gets it although others keep taking it (strong fairness):
sync.Mutex hands itself over after a millisecond. In Relay the network delivers
what was written, and a dial ends (10 s timeout). In SSHClient a dial and a
Listen return, successfully or not. In Tunnel time passes: the read deadline of a
silent session expires, and TCP keepalive reports a lost connection. RunReturns
depends on the first, since the client's serve does not look at ctx. In
TunnelData a dial ends, the listener's deadline passes, and a relay returns once
its data connection was closed at the other end (that is RelayReturns of Relay);
a user who just stays connected keeps his relay. Daemon has no liveness: nothing
bounds a Client.Add that waits for a silent sshd. Nobody has to call, send, close or fail.

## 5. Proofs

Each proof module EXTENDS the component it is about. A theorem holds for every
number of goroutines, rules, addresses, connections and listeners, every stream
and every first state of the disk. The only assumptions are the named ones of
the component modules, and TLC evaluates them in the runs of the component:
bounds are natural numbers (`Cap` at least 1, at least one session),
`Backend` is a Boolean, `Saved` and `Disks` are files of the right type, a local
rule names no credential (`Locals`), and `Nil`, `Gone` and `Torn` are no values
of the types they stand next to.

| Module | Invariants proved (`Spec => []...`, or an action property) | Inductive invariant |
|---|---|---|
| `EngineProofs` | TypeOK, IDsNotReused | IdInv |
| `EngineRuleProofs` | PortsOwned, NoPanic, StatusHonest, BackendAgrees | IdInv and RulesInv |
| `RelayProofs` | TypeOK, InOrder, NothingLost, EOFIsLast, NoneLeftOpen; Spec => D!Spec | RelayInv |
| `SSHClientProofs` | TypeOK, NothingForgotten, ListenersAgree, ListenersOwned, StopsOnce, OneConnection | ClientInv |
| `TunnelProofs` | TypeOK, PublicOwned | BaseInv; PublicOwned with it |
| `TunnelRuleProofs` | RulesAgree | BaseInv and AgreeInv |
| `TunnelDataProofs` | TypeOK, Matched, DataOwned | DataInv |
| `DaemonProofs` | TypeOK, ClientsOwned, CredIDsFresh, Durable, ForwardsAgree | BaseInv, DurableInv, ForwardInv |

Every module goes the same way: the inductive invariant in named parts, lemmas
about what a step leaves alone, one lemma per action (several where the action
ends in different ways), the step lemma over the disjuncts of `Next`, and the
theorems. None of the properties is inductive alone. What each needs besides
itself:

*Engine, types and IDs.* The type of a step's result depends on the pointers a
frame holds, hence FrameOK (a call has the rule and the listener its label
needs) and RefsOK (the maps hold what was stored under that ID), and on nobody
else changing the maps in a locked section, hence LockOK. IDsNotReused needs
IdsOK: `nextID` is above every published ID, an ID read by an unfinished Add is
still free and read by that Add only unless two reads coincided, and Restore is
over before any call.

*Engine, rules.* The four properties speak of rules nobody works on; a call
breaks each of them half-way and repairs it. RuleOK(i) closes the gap for every
ID not in `raced`: at most one goroutine works on i; while it does, its label
says exactly what `e.rules`, `e.listeners`, `e.stop`, the port and the backend
hold for i (Changing: no port before the listen, only the frame's own listener
until it is in both maps, only the registered one while stopLocked closes it;
Inserting for an Add that has not published its rule); when nobody does, the properties
hold (Settled). The remaining parts say that calls work on IDs below `nextID`
only (GivenOK), so that an Add starts on an ID nobody has, and that Restart's
list holds local rules and its loop no object (TodoOK, LoopOK). A step on one ID
leaves RuleOK of the others alone by the locality lemmas (SameRule, SameObjects,
SameCalls); LockOK keeps two calls of one ID apart.

*Relay.* Flow(e): what the receiver has, what is under way to it, what io.Copy
holds and what it has not read are consecutive pieces of the sender's stream
while both connections work, and the survivors stay consecutive once one does
not. Label(e): which labels of a copying goroutine go with which states of the
two connections; it leaves its loop with both of them up only after the FIN and
behind the last byte. OnceOK: whoever is past `once.Do` finds both connections closed.
The refinement shows for each action that it is a step of Duplex or leaves
`sent`, `got`, `over` and `closed` as they are; a delivery needs Flow (it is the
next byte), the step that ends the dial or the last Close needs OnceOK.

*SSHClient.* HeldOK: what a caller and Run hold at each label, such as the
connection a subscribe was started for. EntsOK: an open listener is in `c.lns`
under its own ID or in one Shutdown's list, never in two places, and its stop
channel is still open there. ConnOK: a connection that is up is the one Run has;
nobody has seen it before it is installed, and only a Shutdown takes it out of
`c.conn` afterwards. AgreeOK: a
subscribe under way has the rule's content unless the rule is in `raced`.
ForgottenOK, from the snapshot on: a registered rule has a listener, was refused
one, is still in Run's snapshot, or is with a caller that subscribes on Run's
connection. An Add before the snapshot is in it, and one after it sees the
connection (ConnOK): there is no moment in between.

*Tunnel, ports.* ClientOK relates `c.enc`, Run's label and the client's end of
the connection; FrameOK what callers are about to write; SessionOK what the
stages of a session have (the message being handled, the listener between Listen
and publication, the server's end); OwnersOK gives each listener one place in
one live session; ServerOK relates Serve and Close to the sessions. PublicOwned
then is kept by every action.

*Tunnel, rules.* Frames for one rule overtake neither each other nor a snapshot,
yet at any moment several may be under way. AgreeInv says which one decides:
on a connection that works, for every rule not in `raced`, each frame still
unsent is the one the client's table asks for (Want); if none is unsent, the
last frame for the rule in the channel is; if there is none, the one the session
handles is, in whatever stage; else the session's table agrees already, or an
error frame for the rule is on its way back or was received (Served). RulesAgree
is the last case.

*TunnelData.* Stage(u): what openData has in each of its stages (listener, ID,
frame written or not, connection accepted). IDsDiffer: a session draws no ID
twice. NotDialled: a handleOpen has a connection only through its dial. Room:
the bound on connections still has an ID for each listener that will draw one.
Matched follows since openData compares the header's ID and IDs of one session
differ; DataOwned is part of the invariant.

*Daemon.* BaseInv: what a request has at each label (FrameOK), how far the boot
is (BootOK), that the manager's clients run for their credentials, that one
about to be stored is known to its request alone and one about to be shut down
is no longer in the table (ClientsOK), and that no credential in use has an ID
above the counter (CredsOK). DurableInv: no answer stands for a rule a request
works on (AnswersOpen), and the list a pending save will write is right for
every rule that neither came nor went since (ListsRight); so a save that comes
late writes nothing an answer contradicts; and answers are unsaved only while
the daemon serves (UnsavedUp), so that a restart restores what the file says of
every rule outside `lost`. ForwardInv has the form of the
engine's: for a rule not in `raced` one request works on it, Changing says what
`byRule` and the clients hold at its label, and Settled holds otherwise; a
client about to be shut down counts no more. A deletion of a credential is at
work on a rule from KillRule on, whatever the rule said at CutRule.

The exceptions the proofs carry are those of the properties (`raced`, `late`,
`off`, `told`, `unsaved`, `lost`, a session before; section 4).

Model-checked only:

- liveness under fairness, which the prover cannot reason about: CallsReturn,
  LoopsExit (both), RelayReturns, RunReturns (both), HandlersReturn,
  PublicServed, EndsTogether;
- of ImplementsDuplex (D!FairSpec), that Relay's fairness gives Duplex's;
- the two refuted comments of section 4.

Each inductive invariant was also checked by TLC, as an invariant of the
instance its component's run uses (the engine's with a backend and with Restart
too); that is how wrong candidates were found before they were proved.

## 6. Not modelled

- Which authentication methods a credential yields (`internal/ssh/auth.go`):
  stateless I/O. That it yields none is Unavailable in Daemon.
- clientBackend (`main.go`) with the engine over the tunnel client: its nil
  report after every Client.Add may follow an error that came first, so no
  agreement of status and registration could be stated beyond RulesAgree.
- A silent sshd under `c.mu` and `e.mu` (ssh/client.go:213, engine.go:146).
- Handlers and methods that read only (listRules, health, Probe, Clients), the
  web UI, flags, logging, and the shutdown of the HTTP server.
