----------------------------- MODULE SSHClient -----------------------------
(***************************************************************************)
(* internal/ssh/client.go: the reverse forwards of one SSH credential.     *)
(* Run keeps one connection up and re-opens the listeners of all rules;    *)
(* other goroutines call Add, Remove and Shutdown meanwhile.               *)
(*                                                                         *)
(* Every access to the client's maps is made under c.mu, which is also     *)
(* held while conn.Listen waits for the sshd: a step is one such section,  *)
(* and goroutines interleave between them.  The sshd and the transport are *)
(* external: a connection may break at any time, which ends the listeners  *)
(* made on it, and conn.Listen may be refused.                             *)
(***************************************************************************)
EXTENDS Naturals

CONSTANTS
  Callers,   \* goroutines that call Add, Remove and Shutdown
  IDs,       \* rule IDs
  Contents,  \* what a ClientRule says besides its ID
  Conns,     \* *ssh.Client values; a name is used again when nothing refers to it
  Ents,      \* *lnEntry values; likewise
  Ops,       \* the calls the environment makes
  Nil

MaxBackoff == 30

VARIABLES
  pending,    \* c.pending
  lns,        \* c.lns
  conn,       \* c.conn
  ent,        \* the entries: listener, stop channel and accept loop
  alive,      \* connections that have not ended
  run,        \* the goroutine in Run: label, its conn, the snapshot it works on
  backoff,    \* Run's backoff, in seconds
  cancelled,  \* ctx
  frame,      \* the calls in progress
  refused,    \* history: rules whose conn.Listen was refused since c.conn was set
  raced,      \* history: rules changed since then with a subscribe under way
  effective   \* history: what each rule last said while it had no listener

vars == <<pending, lns, conn, ent, alive, run, backoff, cancelled, frame,
          refused, raced, effective>>

NoRules == [i \in IDs |-> Nil]

Entry == [id: IDs, content: Contents, conn: Conns, open: BOOLEAN,
          stops: 0..2, loop: {"none", "accept", "done"}]

ASSUME NilAssumption ==
  Nil \notin Callers \cup Contents \cup Conns \cup Ents \cup Entry

Idle == [pc |-> "idle", id |-> Nil, content |-> Nil, conn |-> Nil,
         ent |-> Nil, closing |-> {}]

(* Every variable has its type; the reconnect delay stays within its cap.   *)
TypeOK ==
  /\ pending \in [IDs -> Contents \cup {Nil}]
  /\ lns \in [IDs -> Ents \cup {Nil}]
  /\ conn \in Conns \cup {Nil}
  /\ ent \in [Ents -> Entry \cup {Nil}]
  /\ alive \subseteq Conns
  /\ run \in [pc: {"top", "dial", "install", "snapshot", "sub", "told", "wait",
                   "drain", "clear", "stopped"},
              conn: Conns \cup {Nil}, ent: Ents \cup {Nil},
              todo: [IDs -> Contents \cup {Nil}]]
  /\ backoff \in 1..MaxBackoff
  /\ cancelled \in BOOLEAN
  /\ frame \in [Callers ->
       [pc: {"idle", "sub", "told", "closing"}, id: IDs \cup {Nil},
        content: Contents \cup {Nil}, conn: Conns \cup {Nil},
        ent: Ents \cup {Nil}, closing: SUBSET Ents]]
  /\ refused \subseteq IDs
  /\ raced \subseteq IDs
  /\ effective \in [IDs -> Contents \cup {Nil}]

Init ==
  /\ pending = NoRules
  /\ lns = NoRules
  /\ conn = Nil
  /\ ent = [e \in Ents |-> Nil]
  /\ alive = {}
  /\ run = [pc |-> "top", conn |-> Nil, ent |-> Nil, todo |-> NoRules]
  /\ backoff = 1
  /\ cancelled = FALSE
  /\ frame = [p \in Callers |-> Idle]
  /\ refused = {}
  /\ raced = {}
  /\ effective = NoRules

-----------------------------------------------------------------------------
(* Helpers                                                                  *)

at(p, label) == frame[p].pc = label

(* Some goroutine is about to call subscribe for the rule.                  *)
Subscribing(id) ==
  \/ run.todo[id] # Nil
  \/ \E p \in Callers : at(p, "sub") /\ frame[p].id = id

FreeEnt(e) ==
  /\ ent[e] # Nil => ~ent[e].open /\ ent[e].loop # "accept"
  /\ \A i \in IDs : lns[i] # e
  /\ run.ent # e
  /\ \A p \in Callers : frame[p].ent # e /\ e \notin frame[p].closing

FreeConn(k) ==
  /\ k \notin alive
  /\ conn # k /\ run.conn # k
  /\ \A p \in Callers : frame[p].conn # k

(* The entries after the listeners of those in E are closed ...             *)
Closed(E) ==
  [e \in Ents |-> IF e \in E THEN [ent[e] EXCEPT !.open = FALSE] ELSE ent[e]]

(* ... and their stop channels too.                                         *)
Stopped(E) ==
  [e \in Ents |-> IF e \in E THEN [ent[e] EXCEPT !.open = FALSE, !.stops = @ + 1]
                  ELSE ent[e]]

Listening == {lns[i] : i \in {j \in IDs : lns[j] # Nil}}

OpenOn(k) == {e \in Ents : ent[e] # Nil /\ ent[e].open /\ ent[e].conn = k}

-----------------------------------------------------------------------------
(* Transport                                                                *)

(* The connection k ends: it broke, or conn.Close was called.               *)
End(k) ==
  /\ alive' = alive \ {k}
  /\ ent' = Closed(OpenOn(k))

ConnDies(k) ==
  /\ k \in alive
  /\ End(k)
  /\ UNCHANGED <<pending, lns, conn, run, backoff, cancelled, frame, refused, raced, effective>>

Cancel ==
  /\ "cancel" \in Ops
  /\ ~cancelled
  /\ cancelled' = TRUE
  /\ UNCHANGED <<pending, lns, conn, ent, alive, run, backoff, frame, refused, raced, effective>>

-----------------------------------------------------------------------------
(* subscribe                                                                *)

(* The section of subscribe under c.mu, for rule (id, c) on connection k.   *)
(* result is the entry made, or Nil when the rule has one already or        *)
(* conn.Listen failed.                                                      *)
SubscribeExists(id) ==
  /\ lns[id] # Nil
  /\ UNCHANGED <<lns, ent, refused>>

SubscribeFails(id, k) ==
  /\ lns[id] = Nil
  /\ refused' = IF k \in alive THEN refused \cup {id} ELSE refused
  /\ UNCHANGED <<lns, ent>>

\* Mutant: an entry the rule has already is overwritten.
SubscribeOKOverwrites(id, c, k, e) ==
  /\ k \in alive
  /\ FreeEnt(e)
  /\ ent' = [ent EXCEPT ![e] = [id |-> id, content |-> c, conn |-> k,
                                open |-> TRUE, stops |-> 0, loop |-> "none"]]
  /\ lns' = [lns EXCEPT ![id] = e]
  /\ UNCHANGED refused

SubscribeOK(id, c, k, e) ==
  /\ lns[id] = Nil
  /\ k \in alive
  /\ FreeEnt(e)
  /\ ent' = [ent EXCEPT ![e] = [id |-> id, content |-> c, conn |-> k,
                                open |-> TRUE, stops |-> 0, loop |-> "none"]]
  /\ lns' = [lns EXCEPT ![id] = e]
  /\ UNCHANGED refused

(* After the status report the accept loop is spawned, if there is an entry. *)
Spawned(e) == IF e = Nil THEN ent ELSE [ent EXCEPT ![e].loop = "accept"]

-----------------------------------------------------------------------------
(* Add, Remove, Shutdown                                                    *)

(* With no connection up, Add reports the rule at once, with a nil error.   *)
(* A rule that has a listener already is registered with what it says now,  *)
(* and keeps the listener (SubscribeExists): what it says takes effect when *)
(* the listener is gone.                                                    *)
AddBegin(p, id, c) ==
  /\ "add" \in Ops
  /\ at(p, "idle")
  /\ pending' = [pending EXCEPT ![id] = c]
  /\ frame' = [frame EXCEPT ![p] =
       [Idle EXCEPT !.pc = IF conn # Nil THEN "sub" ELSE "told",
                    !.id = id, !.content = c, !.conn = conn]]
  /\ refused' = refused \ {id}
  /\ raced' = IF Subscribing(id) THEN raced \cup {id} ELSE raced
  /\ effective' = IF lns[id] = Nil THEN [effective EXCEPT ![id] = c] ELSE effective
  /\ UNCHANGED <<lns, conn, ent, alive, run, backoff, cancelled>>

AddSubscribe(p) ==
  /\ at(p, "sub")
  /\ LET id == frame[p].id  k == frame[p].conn IN
     \/ /\ SubscribeExists(id)
        /\ frame' = [frame EXCEPT ![p] = Idle]
     \/ /\ SubscribeFails(id, k)
        /\ frame' = [frame EXCEPT ![p] = Idle]
     \/ \E e \in Ents :
          /\ SubscribeOK(id, frame[p].content, k, e)
          /\ frame' = [frame EXCEPT ![p].pc = "told", ![p].ent = e]
  /\ UNCHANGED <<pending, conn, alive, run, backoff, cancelled, raced, effective>>

AddReport(p) ==
  /\ at(p, "told")
  /\ ent' = Spawned(frame[p].ent)
  /\ frame' = [frame EXCEPT ![p] = Idle]
  /\ UNCHANGED <<pending, lns, conn, alive, run, backoff, cancelled, refused, raced, effective>>

\* Mutant: the rule leaves c.pending but its entry stays in c.lns.
RemoveForgetsOnly(p, id) ==
  /\ "remove" \in Ops
  /\ at(p, "idle")
  /\ pending' = [pending EXCEPT ![id] = Nil]
  /\ raced' = IF Subscribing(id) THEN raced \cup {id} ELSE raced
  /\ effective' = [effective EXCEPT ![id] = Nil]
  /\ UNCHANGED <<lns, conn, ent, alive, run, backoff, cancelled, frame, refused>>

Remove(p, id) ==
  /\ "remove" \in Ops
  /\ at(p, "idle")
  /\ ent' = IF lns[id] = Nil THEN ent ELSE Stopped({lns[id]})
  /\ lns' = [lns EXCEPT ![id] = Nil]
  /\ pending' = [pending EXCEPT ![id] = Nil]
  /\ raced' = IF Subscribing(id) THEN raced \cup {id} ELSE raced
  /\ effective' = [effective EXCEPT ![id] = Nil]
  /\ UNCHANGED <<conn, alive, run, backoff, cancelled, frame, refused>>

\* Mutant: c.lns keeps the entries that Shutdown is about to close.
ShutdownBeginKeepsMap(p) ==
  /\ "shutdown" \in Ops
  /\ at(p, "idle")
  /\ conn' = Nil
  /\ pending' = NoRules
  /\ frame' = [frame EXCEPT ![p] =
       [Idle EXCEPT !.pc = "closing", !.conn = conn, !.closing = Listening]]
  /\ raced' = raced \cup {i \in IDs : Subscribing(i)}
  /\ effective' = NoRules
  /\ UNCHANGED <<lns, ent, alive, run, backoff, cancelled, refused>>

ShutdownBegin(p) ==
  /\ "shutdown" \in Ops
  /\ at(p, "idle")
  /\ conn' = Nil
  /\ lns' = NoRules
  /\ pending' = NoRules
  /\ frame' = [frame EXCEPT ![p] =
       [Idle EXCEPT !.pc = "closing", !.conn = conn, !.closing = Listening]]
  /\ raced' = raced \cup {i \in IDs : Subscribing(i)}
  /\ effective' = NoRules
  /\ UNCHANGED <<ent, alive, run, backoff, cancelled, refused>>

ShutdownEntry(p, e) ==
  /\ at(p, "closing")
  /\ e \in frame[p].closing
  /\ ent' = Stopped({e})
  /\ frame' = [frame EXCEPT ![p].closing = @ \ {e}]
  /\ UNCHANGED <<pending, lns, conn, alive, run, backoff, cancelled, refused, raced, effective>>

ShutdownEnd(p) ==
  /\ at(p, "closing")
  /\ frame[p].closing = {}
  /\ IF frame[p].conn = Nil THEN UNCHANGED <<alive, ent>> ELSE End(frame[p].conn)
  /\ frame' = [frame EXCEPT ![p] = Idle]
  /\ UNCHANGED <<pending, lns, conn, run, backoff, cancelled, refused, raced, effective>>

-----------------------------------------------------------------------------
(* Run                                                                      *)

\* Mutant: the loop condition does not look at ctx.
RunTopForever ==
  /\ run.pc = "top"
  /\ run' = [run EXCEPT !.pc = "dial"]
  /\ UNCHANGED <<pending, lns, conn, ent, alive, backoff, cancelled, frame,
                 refused, raced, effective>>

RunTop ==
  /\ run.pc = "top"
  /\ run' = [run EXCEPT !.pc = IF cancelled THEN "stopped" ELSE "dial"]
  /\ UNCHANGED <<pending, lns, conn, ent, alive, backoff, cancelled, frame,
                 refused, raced, effective>>

\* Mutant: the delay is doubled without the cap.
nextBackoffUncapped(d) == 2 * d

nextBackoff(d) == IF d >= MaxBackoff THEN MaxBackoff
                  ELSE IF 2 * d > MaxBackoff THEN MaxBackoff ELSE 2 * d

(* dial fails, or ctx ends while it waits; failAll reports every rule.      *)
DialFails ==
  /\ run.pc = "dial"
  /\ run' = [run EXCEPT !.pc = "top"]
  /\ backoff' = nextBackoff(backoff)
  /\ UNCHANGED <<pending, lns, conn, ent, alive, cancelled, frame, refused, raced, effective>>

DialOK ==
  /\ run.pc = "dial"
  /\ \E k \in Conns :
       /\ FreeConn(k)
       /\ alive' = alive \cup {k}
       /\ run' = [run EXCEPT !.pc = "install", !.conn = k]
  /\ backoff' = 1
  /\ UNCHANGED <<pending, lns, conn, ent, cancelled, frame, refused, raced, effective>>

\* Mutant: the connection is not published to Add.
RunInstallPrivately ==
  /\ run.pc = "install"
  /\ ent' = Closed(Listening)
  /\ lns' = NoRules
  /\ run' = [run EXCEPT !.pc = "snapshot"]
  /\ refused' = {}
  /\ raced' = {}
  /\ effective' = pending
  /\ UNCHANGED <<pending, conn, alive, backoff, cancelled, frame>>

(* Publish the connection and drop the listeners of earlier ones; races of  *)
(* the past are over, since what they left behind goes with it.             *)
RunInstall ==
  /\ run.pc = "install"
  /\ conn' = run.conn
  /\ ent' = Closed(Listening)
  /\ lns' = NoRules
  /\ run' = [run EXCEPT !.pc = "snapshot"]
  /\ refused' = {}
  /\ raced' = {}
  /\ effective' = pending
  /\ UNCHANGED <<pending, alive, backoff, cancelled, frame>>

RunSnapshot ==
  /\ run.pc = "snapshot"
  /\ run' = [run EXCEPT !.pc = "sub", !.todo = pending]
  /\ UNCHANGED <<pending, lns, conn, ent, alive, backoff, cancelled, frame,
                 refused, raced, effective>>

RunSubscribe(id) ==
  /\ run.pc = "sub"
  /\ run.todo[id] # Nil
  /\ \/ /\ SubscribeExists(id) \/ SubscribeFails(id, run.conn)
        /\ run' = [run EXCEPT !.todo[id] = Nil]
     \/ \E e \in Ents :
          /\ SubscribeOK(id, run.todo[id], run.conn, e)
          /\ run' = [run EXCEPT !.pc = "told", !.ent = e, !.todo[id] = Nil]
  /\ UNCHANGED <<pending, conn, alive, backoff, cancelled, frame, raced, effective>>

RunReport ==
  /\ run.pc = "told"
  /\ ent' = Spawned(run.ent)
  /\ run' = [run EXCEPT !.pc = "sub", !.ent = Nil]
  /\ UNCHANGED <<pending, lns, conn, alive, backoff, cancelled, frame, refused, raced, effective>>

RunSubscribed ==
  /\ run.pc = "sub"
  /\ run.todo = NoRules
  /\ run' = [run EXCEPT !.pc = "wait"]
  /\ UNCHANGED <<pending, lns, conn, ent, alive, backoff, cancelled, frame,
                 refused, raced, effective>>

(* The two cases of the select: both may be ready.                          *)
RunDead ==
  /\ run.pc = "wait"
  /\ run.conn \notin alive
  /\ run' = [run EXCEPT !.pc = "drain"]
  /\ UNCHANGED <<pending, lns, conn, ent, alive, backoff, cancelled, frame,
                 refused, raced, effective>>

\* Mutant: the connection is not closed when ctx ends.
RunCancelledKeepsConn ==
  /\ run.pc = "wait"
  /\ cancelled
  /\ run' = [run EXCEPT !.pc = "clear"]
  /\ UNCHANGED <<pending, lns, conn, ent, alive, backoff, cancelled, frame,
                 refused, raced, effective>>

RunCancelled ==
  /\ run.pc = "wait"
  /\ cancelled
  /\ End(run.conn)
  /\ run' = [run EXCEPT !.pc = "clear"]
  /\ UNCHANGED <<pending, lns, conn, backoff, cancelled, frame, refused, raced, effective>>

RunDrain ==
  /\ run.pc = "drain"
  /\ ent' = Closed(Listening)
  /\ lns' = NoRules
  /\ effective' = pending
  /\ run' = [run EXCEPT !.pc = "clear"]
  /\ UNCHANGED <<pending, conn, alive, backoff, cancelled, frame, refused, raced>>

(* clearConn, then back to the loop condition.  After ctx ended the code    *)
(* returns at once, and the loop condition would have it return too.        *)
RunClear ==
  /\ run.pc = "clear"
  /\ conn' = Nil
  /\ run' = [run EXCEPT !.pc = "top", !.conn = Nil]
  /\ UNCHANGED <<pending, lns, ent, alive, backoff, cancelled, frame, refused, raced, effective>>

-----------------------------------------------------------------------------
(* acceptLoop                                                               *)

\* Mutant: EOF is retried like a transient error.
AcceptEOFRetries(e) ==
  /\ ent[e] # Nil
  /\ ent[e].loop = "accept"
  /\ ~ent[e].open
  /\ ent[e].stops > 0
  /\ ent' = [ent EXCEPT ![e].loop = "done"]
  /\ UNCHANGED <<pending, lns, conn, alive, run, backoff, cancelled, frame,
                 refused, raced, effective>>

(* Accept returns io.EOF, once the listener is closed or its connection has *)
(* ended.                                                                   *)
AcceptEOF(e) ==
  /\ ent[e] # Nil
  /\ ent[e].loop = "accept"
  /\ ~ent[e].open
  /\ ent' = [ent EXCEPT ![e].loop = "done"]
  /\ UNCHANGED <<pending, lns, conn, alive, run, backoff, cancelled, frame,
                 refused, raced, effective>>

-----------------------------------------------------------------------------
Call(p) ==
  \/ \E id \in IDs : Remove(p, id) \/ \E c \in Contents : AddBegin(p, id, c)
  \/ ShutdownBegin(p)

Continue(p) ==
  \/ AddSubscribe(p) \/ AddReport(p)
  \/ \E e \in Ents : ShutdownEntry(p, e)
  \/ ShutdownEnd(p)

Run ==
  \/ RunTop \/ DialFails \/ DialOK \/ RunInstall \/ RunSnapshot
  \/ \E id \in IDs : RunSubscribe(id)
  \/ RunReport \/ RunSubscribed \/ RunDead \/ RunCancelled
  \/ RunDrain \/ RunClear

Environment == Cancel \/ \E k \in Conns : ConnDies(k)

Next ==
  \/ \E p \in Callers : Call(p) \/ Continue(p)
  \/ Run
  \/ \E e \in Ents : AcceptEOF(e)
  \/ Environment

Spec == Init /\ [][Next]_vars

(* The scheduler runs the goroutines, and the sshd answers or the           *)
(* connection breaks: dial and conn.Listen return.  Neither is obliged to   *)
(* succeed, and nobody is obliged to call.                                  *)
Fairness ==
  /\ WF_vars(Run)
  /\ \A p \in Callers : WF_vars(Continue(p))
  /\ \A e \in Ents : WF_vars(AcceptEOF(e))

FairSpec == Spec /\ Fairness

-----------------------------------------------------------------------------
(* Properties                                                               *)

(* While Run waits on a live connection that no Shutdown is closing, every  *)
(* rule registered has a listener, was refused one, or is being subscribed: *)
(* an Add that comes while the connection is being set up is neither missed *)
(* by subscribeAll nor left for "the next reconnect".                       *)
NothingForgotten ==
  /\ run.pc = "wait"
  /\ run.conn \in alive
  /\ \A p \in Callers : at(p, "closing") => frame[p].conn # run.conn
  => \A id \in IDs :
       pending[id] # Nil => lns[id] # Nil \/ id \in refused \/ Subscribing(id)

(* What a listener in c.lns forwards to is what its rule said when it was   *)
(* opened, by the Add that found the rule without a listener or by the last *)
(* connection, and the rule was not removed since.  A second Add of a rule  *)
(* that has a listener does not change that, although the comment of Add    *)
(* (client.go:68-69) says that it takes effect immediately: it takes effect *)
(* when the connection is made again.  Excepted are rules that were changed *)
(* while a subscribe for them was under way, until the next connection.     *)
ListenersAgree ==
  \A id \in IDs \ raced :
    lns[id] # Nil => pending[id] # Nil /\ ent[lns[id]].content = effective[id]

(* Every listener that is open on the sshd can be found in c.lns, or is     *)
(* about to be closed by a Shutdown: none is leaked by overwriting,         *)
(* reconnecting or removing.                                                *)
ListenersOwned ==
  \A e \in Ents :
    ent[e] # Nil /\ ent[e].open =>
      \/ lns[ent[e].id] = e
      \/ \E p \in Callers : e \in frame[p].closing

(* A stop channel is closed at most once: neither Remove nor Shutdown meets  *)
(* one the other has closed, which would panic.                             *)
StopsOnce == \A e \in Ents : ent[e] # Nil => ent[e].stops <= 1

(* At most one connection is up, the one Run works with: none is left       *)
(* behind by a reconnect, by Shutdown or when ctx ends.                     *)
OneConnection ==
  \A k \in alive :
    k = run.conn /\ run.pc \notin {"top", "dial", "clear", "stopped"}

(* Run returns once ctx is cancelled, wherever it is: waiting for a dial,   *)
(* subscribing, or in the select with both cases ready.                     *)
RunReturns == cancelled ~> run.pc = "stopped"

(* No accept loop outlives its listener, although drainListeners and Run    *)
(* close listeners without closing their stop channel.                      *)
LoopsExit ==
  \A e \in Ents :
    (ent[e] # Nil /\ ~ent[e].open /\ ent[e].loop # "done")
      ~> (ent[e] # Nil /\ (ent[e].loop = "done" \/ ent[e].open))
=============================================================================
