------------------------------- MODULE Duplex -------------------------------
(***************************************************************************)
(* What forward.Relay and the handlers around it (handleConn, relay) give  *)
(* the two peers of a forwarded connection: two byte streams, one each     *)
(* way, until one peer ends its connection or the handler gives up.        *)
(***************************************************************************)
EXTENDS Naturals, Sequences

Ends == {"client", "upstream"}

Other(e) == IF e = "client" THEN "upstream" ELSE "client"

VARIABLES
  sent,   \* number of bytes each peer has sent; a byte is its position
  got,    \* what each peer has received
  over,   \* a peer has ended its connection, or the handler gave up
  closed  \* the handler has returned, with both connections closed

vars == <<sent, got, over, closed>>

Init ==
  /\ sent = [e \in Ends |-> 0]
  /\ got = [e \in Ends |-> <<>>]
  /\ over = FALSE
  /\ closed = FALSE

Send(e) ==
  /\ ~closed
  /\ sent' = [sent EXCEPT ![e] = @ + 1]
  /\ UNCHANGED <<got, over, closed>>

(* The next byte of the other peer's stream, never another one.             *)
Deliver(e) ==
  /\ Len(got[e]) < sent[Other(e)]
  /\ got' = [got EXCEPT ![e] = Append(@, Len(@) + 1)]
  /\ UNCHANGED <<sent, over, closed>>

Finish ==
  /\ ~over
  /\ over' = TRUE
  /\ UNCHANGED <<sent, got, closed>>

Close ==
  /\ ~closed
  /\ over' = TRUE /\ closed' = TRUE
  /\ UNCHANGED <<sent, got>>

Next == Finish \/ Close \/ \E e \in Ends : Send(e) \/ Deliver(e)

Spec == Init /\ [][Next]_vars

(* Every byte is delivered as long as both peers stay; once one has ended   *)
(* its connection, both connections are closed.                             *)
Fairness ==
  /\ \A e \in Ends : WF_vars(Deliver(e) /\ ~over)
  /\ WF_vars(Close /\ over)

FairSpec == Spec /\ Fairness
=============================================================================
