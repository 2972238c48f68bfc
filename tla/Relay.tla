------------------------------- MODULE Relay -------------------------------
(***************************************************************************)
(* One forwarded connection: engine.handleConn and ssh's Client.relay dial *)
(* the target of an accepted connection and hand both to forward.Relay     *)
(* (internal/forward/forward.go), which runs one goroutine per direction.  *)
(*                                                                         *)
(* A byte is its position in the stream its peer sends.  The network and   *)
(* the two peers are external: rx[e] has arrived at connection e and was   *)
(* not read, tx[e] was written to it and not received by its peer.         *)
(***************************************************************************)
EXTENDS Naturals, SequencesExt

CONSTANTS
  MaxBytes,  \* bytes a peer sends at most
  Cap        \* bytes a connection buffers towards its peer

Ends == {"client", "upstream"}

ASSUME MaxBytesAssumption == MaxBytes \in Nat
ASSUME CapAssumption == Cap \in Nat \ {0}

Other(e) == IF e = "client" THEN "upstream" ELSE "client"

VARIABLES
  phase,  \* of the goroutine that owns the connection
  peer,   \* what the peer has done to the connection
  sent,   \* number of bytes the peer has sent
  rx, tx,
  got,    \* what the peer has received
  conn,   \* state of our end
  pipe,   \* pipe[e]: the goroutine that copies to e from Other(e)
  hold,   \* what that goroutine has read and not yet written
  once,   \* sync.Once: nobody, the goroutine inside, or "done"
  tcp     \* the connections that are a *net.TCPConn

vars == <<phase, peer, sent, rx, tx, got, conn, pipe, hold, once, tcp>>

Stream == Seq(1..MaxBytes)

(* handleConn of the engine and of the tunnel client relay two TCP          *)
(* connections; the client end is an SSH channel in ssh's Client.relay, and *)
(* the upstream end a bridgeConn in the tunnel server's openData.           *)
Kinds == {Ends, {"upstream"}, {"client"}}

(* Every variable has its type, and no buffer grows past its capacity.      *)
TypeOK ==
  /\ phase \in {"dial", "relay", "done"}
  /\ peer \in [Ends -> {"open", "fin", "reset"}]
  /\ sent \in [Ends -> 0..MaxBytes]
  /\ \A s \in {rx, tx, got, hold} : s \in [Ends -> Stream]
  /\ \A e \in Ends : Len(tx[e]) <= Cap
  /\ conn \in [Ends -> {"none", "open", "half", "closed"}]
  /\ pipe \in [Ends -> {"none", "copy", "write", "half", "term", "close",
                        "done"}]
  /\ once \in Ends \cup {"nobody", "done"}
  /\ tcp \in Kinds

Init ==
  /\ phase = "dial"
  /\ peer = [e \in Ends |-> "open"]
  /\ sent = [e \in Ends |-> 0]
  /\ rx = [e \in Ends |-> <<>>]
  /\ tx = [e \in Ends |-> <<>>]
  /\ got = [e \in Ends |-> <<>>]
  /\ conn = [e \in Ends |-> IF e = "client" THEN "open" ELSE "none"]
  /\ pipe = [e \in Ends |-> "none"]
  /\ hold = [e \in Ends |-> <<>>]
  /\ once = "nobody"
  /\ tcp \in Kinds

-----------------------------------------------------------------------------
(* The peers and the network                                                *)

PeerSend(e) ==
  /\ conn[e] \notin {"none", "closed"}
  /\ peer[e] = "open"
  /\ sent[e] < MaxBytes
  /\ sent' = [sent EXCEPT ![e] = @ + 1]
  /\ rx' = [rx EXCEPT ![e] = Append(@, sent[e] + 1)]
  /\ UNCHANGED <<phase, peer, tx, got, conn, pipe, hold, once, tcp>>

PeerFin(e) ==
  /\ conn[e] # "none"
  /\ peer[e] = "open"
  /\ peer' = [peer EXCEPT ![e] = "fin"]
  /\ UNCHANGED <<phase, sent, rx, tx, got, conn, pipe, hold, once, tcp>>

(* The connection breaks: what is in flight is lost both ways.              *)
PeerReset(e) ==
  /\ conn[e] # "none"
  /\ peer[e] # "reset"
  /\ peer' = [peer EXCEPT ![e] = "reset"]
  /\ rx' = [rx EXCEPT ![e] = <<>>]
  /\ tx' = [tx EXCEPT ![e] = <<>>]
  /\ UNCHANGED <<phase, sent, got, conn, pipe, hold, once, tcp>>

PeerRead(e) ==
  /\ peer[e] # "reset"
  /\ tx[e] # <<>>
  /\ got' = [got EXCEPT ![e] = Append(@, Head(tx[e]))]
  /\ tx' = [tx EXCEPT ![e] = Tail(@)]
  /\ UNCHANGED <<phase, peer, sent, rx, conn, pipe, hold, once, tcp>>

-----------------------------------------------------------------------------
(* handleConn                                                               *)

Dial ==
  /\ phase = "dial"
  /\ phase' = "relay"
  /\ conn' = [conn EXCEPT !["upstream"] = "open"]
  /\ pipe' = [e \in Ends |-> "copy"]
  /\ UNCHANGED <<peer, sent, rx, tx, got, hold, once, tcp>>

DialFails ==
  /\ phase = "dial"
  /\ phase' = "done"
  /\ conn' = [conn EXCEPT !["client"] = "closed"]
  /\ UNCHANGED <<peer, sent, rx, tx, got, pipe, hold, once, tcp>>

(* wg.Wait returns.  terminate has closed both connections: the deferred    *)
(* Close calls of handleConn change nothing.                                *)
Return ==
  /\ phase = "relay"
  /\ \A e \in Ends : pipe[e] = "done"
  /\ phase' = "done"
  /\ UNCHANGED <<peer, sent, rx, tx, got, conn, pipe, hold, once, tcp>>

-----------------------------------------------------------------------------
(* pipe: io.Copy, closeWriteHalf, terminate                                 *)

(* One Read of io.Copy returns some of what has arrived ...                 *)
PipeRead(e) ==
  LET src == Other(e) IN
  /\ pipe[e] = "copy"
  /\ conn[src] # "closed"
  /\ rx[src] # <<>>
  /\ \E n \in 1..Len(rx[src]) :
       /\ hold' = [hold EXCEPT ![e] = SubSeq(rx[src], 1, n)]
       /\ rx' = [rx EXCEPT ![src] = SubSeq(@, n + 1, Len(@))]
  /\ pipe' = [pipe EXCEPT ![e] = "write"]
  /\ UNCHANGED <<phase, peer, sent, tx, got, conn, once, tcp>>

\* Mutant: EOF is acted on while bytes are still unread.
PipeEOFEarly(e) ==
  /\ pipe[e] = "copy"
  /\ conn[Other(e)] # "closed"
  /\ peer[Other(e)] = "fin"
  /\ pipe' = [pipe EXCEPT ![e] = "half"]
  /\ UNCHANGED <<phase, peer, sent, rx, tx, got, conn, hold, once, tcp>>

(* ... or EOF, once everything before it was read ...                       *)
PipeEOF(e) ==
  /\ pipe[e] = "copy"
  /\ conn[Other(e)] # "closed"
  /\ rx[Other(e)] = <<>>
  /\ peer[Other(e)] = "fin"
  /\ pipe' = [pipe EXCEPT ![e] = "half"]
  /\ UNCHANGED <<phase, peer, sent, rx, tx, got, conn, hold, once, tcp>>

(* ... or an error: the peer reset the connection, or terminate closed it.  *)
PipeReadError(e) ==
  /\ pipe[e] = "copy"
  /\ conn[Other(e)] = "closed" \/ peer[Other(e)] = "reset"
  /\ pipe' = [pipe EXCEPT ![e] = "half"]
  /\ UNCHANGED <<phase, peer, sent, rx, tx, got, conn, hold, once, tcp>>

\* Mutant: back-pressure is ignored.
PipeWriteUnbounded(e) ==
  /\ pipe[e] = "write"
  /\ conn[e] = "open"
  /\ peer[e] # "reset"
  /\ tx' = [tx EXCEPT ![e] = @ \o hold[e]]
  /\ hold' = [hold EXCEPT ![e] = <<>>]
  /\ pipe' = [pipe EXCEPT ![e] = "copy"]
  /\ UNCHANGED <<phase, peer, sent, rx, got, conn, once, tcp>>

\* Mutant: the rest of a partly written chunk is dropped.
PipeWriteShort(e) ==
  /\ pipe[e] = "write"
  /\ conn[e] = "open"
  /\ peer[e] # "reset"
  /\ Len(tx[e]) < Cap
  /\ tx' = [tx EXCEPT ![e] = Append(@, Head(hold[e]))]
  /\ hold' = [hold EXCEPT ![e] = <<>>]
  /\ pipe' = [pipe EXCEPT ![e] = "copy"]
  /\ UNCHANGED <<phase, peer, sent, rx, got, conn, once, tcp>>

(* Write blocks while the peer does not read and the buffer is full.        *)
PipeWrite(e) ==
  /\ pipe[e] = "write"
  /\ conn[e] = "open"
  /\ peer[e] # "reset"
  /\ Len(tx[e]) < Cap
  /\ tx' = [tx EXCEPT ![e] = Append(@, Head(hold[e]))]
  /\ hold' = [hold EXCEPT ![e] = Tail(@)]
  /\ pipe' = [pipe EXCEPT ![e] = IF Len(hold[e]) = 1 THEN "copy" ELSE "write"]
  /\ UNCHANGED <<phase, peer, sent, rx, got, conn, once, tcp>>

PipeWriteError(e) ==
  /\ pipe[e] = "write"
  /\ conn[e] # "open" \/ peer[e] = "reset"
  /\ hold' = [hold EXCEPT ![e] = <<>>]
  /\ pipe' = [pipe EXCEPT ![e] = "half"]
  /\ UNCHANGED <<phase, peer, sent, rx, tx, got, conn, once, tcp>>

(* Close discards what has arrived; TCP then resets the connection, and the *)
(* peer may lose what it has not received.                                  *)
Close(e) ==
  /\ conn' = [conn EXCEPT ![e] = "closed"]
  /\ rx' = [rx EXCEPT ![e] = <<>>]
  /\ \/ tx' = tx
     \/ rx[e] # <<>> /\ tx' = [tx EXCEPT ![e] = <<>>]

\* Mutant: the goroutine returns without calling terminate.
closeWriteHalfOnly(e) ==
  /\ pipe[e] = "half"
  /\ pipe' = [pipe EXCEPT ![e] = "done"]
  /\ conn' = [conn EXCEPT ![e] = IF @ = "open" THEN "half" ELSE @]
  /\ UNCHANGED <<phase, peer, sent, rx, tx, got, hold, once, tcp>>

(* CloseWrite on a TCP connection, Close on any other.                      *)
closeWriteHalf(e) ==
  /\ pipe[e] = "half"
  /\ pipe' = [pipe EXCEPT ![e] = "term"]
  /\ IF e \in tcp
     THEN /\ conn' = [conn EXCEPT ![e] = IF @ = "open" THEN "half" ELSE @]
          /\ UNCHANGED <<rx, tx>>
     ELSE Close(e)
  /\ UNCHANGED <<phase, peer, sent, got, hold, once, tcp>>

\* Mutant: sync.Once without the wait: the second caller returns at once,
\* and nobody closes the second connection.
TerminateFirstForgets(e) ==
  /\ pipe[e] = "term"
  /\ once = "nobody"
  /\ once' = "done"
  /\ pipe' = [pipe EXCEPT ![e] = "done"]
  /\ Close("client")
  /\ UNCHANGED <<phase, peer, sent, got, hold, tcp>>

(* terminate: the first caller closes one connection, then the other; the   *)
(* second one waits in once.Do until it has.                                *)
TerminateFirst(e) ==
  /\ pipe[e] = "term"
  /\ once = "nobody"
  /\ once' = e
  /\ pipe' = [pipe EXCEPT ![e] = "close"]
  /\ Close("client")
  /\ UNCHANGED <<phase, peer, sent, got, hold, tcp>>

TerminateSecond(e) ==
  /\ pipe[e] = "close"
  /\ once' = "done"
  /\ pipe' = [pipe EXCEPT ![e] = "done"]
  /\ Close("upstream")
  /\ UNCHANGED <<phase, peer, sent, got, hold, tcp>>

TerminateNothing(e) ==
  /\ pipe[e] = "term"
  /\ once = "done"
  /\ pipe' = [pipe EXCEPT ![e] = "done"]
  /\ UNCHANGED <<phase, peer, sent, rx, tx, got, conn, hold, once, tcp>>

Pipe(e) ==
  \/ PipeRead(e) \/ PipeEOF(e) \/ PipeReadError(e)
  \/ PipeWrite(e) \/ PipeWriteError(e)
  \/ closeWriteHalf(e)
  \/ TerminateFirst(e) \/ TerminateSecond(e) \/ TerminateNothing(e)

Handle == Dial \/ DialFails \/ Return

Peer(e) == PeerSend(e) \/ PeerFin(e) \/ PeerReset(e) \/ PeerRead(e)

Next == Handle \/ \E e \in Ends : Pipe(e) \/ Peer(e)

Spec == Init /\ [][Next]_vars

(* The scheduler runs the goroutines, DialTimeout ends, and the network     *)
(* carries what was written to a peer that receives it.  Nothing obliges a  *)
(* peer to send or to close.                                                *)
Fairness ==
  /\ WF_vars(Handle)
  /\ \A e \in Ends : WF_vars(Pipe(e)) /\ WF_vars(PeerRead(e))

FairSpec == Spec /\ Fairness

-----------------------------------------------------------------------------
(* The handler implements a duplex connection: buffers, chunks, half-closes *)
(* and the two goroutines are invisible to the peers.                       *)
D == INSTANCE Duplex WITH
       over <- phase = "done" \/ \E e \in Ends : peer[e] # "open",
       closed <- phase = "done"

-----------------------------------------------------------------------------
(* Properties                                                               *)

AllSent(e) == [i \in 1..sent[e] |-> i]

NoReset == \A e \in Ends : peer[e] # "reset"

(* What a peer receives is what the other one sent, in order and without a  *)
(* gap, also after a reset, a failed write or a close in mid-stream.        *)
InOrder == \A e \in Ends : IsPrefix(got[e], AllSent(Other(e)))

(* No byte is lost inside the relay while both connections are up: all that *)
(* was sent is at the receiver or on its way, exactly once.                 *)
NothingLost ==
  NoReset /\ (\A e \in Ends : conn[e] # "closed") =>
    \A e \in Ends :
      AllSent(Other(e)) = got[e] \o tx[e] \o hold[e] \o rx[Other(e)]

(* A peer is shown EOF by closeWriteHalf only behind the last byte the other *)
(* one sent: no half-close overtakes data that io.Copy still had.           *)
EOFIsLast ==
  \A e \in Ends :
    NoReset /\ conn[e] = "half" /\ conn[Other(e)] # "closed" =>
      peer[Other(e)] = "fin" /\ got[e] \o tx[e] = AllSent(Other(e))

(* When handleConn is over, no connection is left open, whichever goroutine *)
(* won sync.Once and whatever failed.                                       *)
NoneLeftOpen == phase = "done" => \A e \in Ends : conn[e] \in {"closed", "none"}

(* Once a peer has closed or dropped its connection, Relay returns: neither *)
(* goroutine stays behind in Read, Write or once.Do.                        *)
RelayReturns == (\E e \in Ends : peer[e] # "open") ~> phase = "done"

(* Relay refines Duplex: each peer receives the other's stream byte by byte,*)
(* all of it for as long as neither has ended its connection, and then both *)
(* connections are closed.                                                  *)
ImplementsDuplex == D!FairSpec

(* forward.go:35-36, closeWriteHalf "closes the write half of a TCP         *)
(* connection so the peer sees EOF, while still allowing the read half to   *)
(* complete": when two TCP connections are done, every byte was delivered.  *)
ReadHalfCompletes ==
  phase = "done" /\ conn["upstream"] = "closed" /\ NoReset /\ tcp = Ends =>
    \A e \in Ends : got[e] \o tx[e] = AllSent(Other(e))
=============================================================================
