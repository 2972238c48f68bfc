---------------------------- MODULE RelayProofs ----------------------------
(***************************************************************************)
(* Proofs about Relay, for streams and buffers of any length.  A direction *)
(* towards e carries the stream of src == Other(e) through rx[src],        *)
(* hold[e] and tx[e] to got[e].  RelayInv says that these are consecutive  *)
(* pieces of that stream for as long as both connections are up (Flow),    *)
(* which of them survive when one is not, and how the two goroutines take  *)
(* the connections down (Label, OnceOK).  The safety invariants follow     *)
(* from it, and so does the refinement of Duplex.                          *)
(***************************************************************************)
EXTENDS Relay, SequenceTheorems, TLAPS

(* The bytes a + 1, a + 2, ... of a stream.                                 *)
Consecutive(s, a) == \A i \in 1..Len(s) : s[i] = a + i

(* Bytes written to e, and those its goroutine has read besides.            *)
Written(e) == Len(got[e]) + Len(tx[e])
Taken(e) == Written(e) + Len(hold[e])

Up(e) == conn[e] # "closed" /\ peer[e] # "reset"

(* The dial failed: nobody ever reads what has arrived.                     *)
Undialled == phase = "done" /\ \A e \in Ends : pipe[e] = "none"

(* What e received and will receive is consecutive; so is what the          *)
(* goroutine holds, unless e is down and never gets it; and so is what has  *)
(* arrived from the other end, up to the last byte sent, unless one is down.*)
Flow(e) ==
  LET src == Other(e) IN
  /\ Consecutive(got[e], 0)
  /\ Consecutive(tx[e], Len(got[e]))
  /\ Written(e) <= sent[src]
  /\ Up(e) => Consecutive(hold[e], Written(e)) /\ Taken(e) <= sent[src]
  /\ Up(e) /\ Up(src) => /\ Consecutive(rx[src], Taken(e))
                         /\ Taken(e) + Len(rx[src]) = sent[src]
  /\ ~Up(e) /\ ~Undialled => rx[e] = <<>>

(* The label of each goroutine against its connection and what it holds: it *)
(* leaves its loop with both connections up only behind the last byte.      *)
Label(e) ==
  LET src == Other(e) IN
  /\ phase = "dial" => pipe[e] = "none"
  /\ phase = "relay" => pipe[e] # "none"
  /\ pipe[e] = "none" => pipe[src] = "none"
  /\ pipe[e] = "write" <=> hold[e] # <<>>
  /\ pipe[e] \in {"copy", "write", "half"} => conn[e] \in {"open", "closed"}
  /\ conn[e] = "half" => pipe[e] \in {"term", "close", "done"}
  /\ pipe[e] \in {"half", "term", "close", "done"} /\ Up(e) /\ Up(src) =>
       peer[src] = "fin" /\ rx[src] = <<>>

(* sync.Once: who is inside has closed one connection, and when it is done  *)
(* both are closed.                                                         *)
OnceOK ==
  /\ \A e \in Ends :
       /\ pipe[e] = "close" => once = e /\ conn["client"] = "closed"
       /\ pipe[e] = "done" => once = "done"
       /\ once = "done" => conn[e] = "closed"
  /\ phase = "done" => \A e \in Ends : conn[e] \in {"closed", "none"}
  /\ phase = "dial" => conn["upstream"] = "none" /\ conn["client"] = "open"

RelayInv == TypeOK /\ (\A e \in Ends : Flow(e) /\ Label(e)) /\ OnceOK
-----------------------------------------------------------------------------
(* Consecutive pieces of a stream                                           *)

LEMMA Others ==
  ASSUME NEW e \in Ends
  PROVE  /\ Other(e) \in Ends
         /\ Other(Other(e)) = e
         /\ Other(e) # e
         /\ \A d \in Ends : d = e \/ d = Other(e)
BY DEF Ends, Other

LEMMA ConsecutiveAppend ==
  ASSUME NEW s \in Stream, NEW a \in Nat, Consecutive(s, a),
         NEW x \in 1..MaxBytes, x = a + Len(s) + 1
  PROVE  /\ Append(s, x) \in Stream
         /\ Len(Append(s, x)) = Len(s) + 1
         /\ Consecutive(Append(s, x), a)
BY DEF Stream, Consecutive

LEMMA ConsecutiveTail ==
  ASSUME NEW s \in Stream, NEW a \in Nat, Consecutive(s, a), s # <<>>
  PROVE  /\ Head(s) = a + 1
         /\ Head(s) \in 1..MaxBytes
         /\ Tail(s) \in Stream
         /\ Len(Tail(s)) = Len(s) - 1
         /\ Consecutive(Tail(s), a + 1)
<1>1. /\ s \in Seq(1..MaxBytes)
      /\ Len(s) \in Nat \ {0}
  BY EmptySeq DEF Stream
<1>2. /\ Head(s) = s[1]
      /\ Head(s) \in 1..MaxBytes
      /\ Tail(s) \in Seq(1..MaxBytes)
      /\ Len(Tail(s)) = Len(s) - 1
      /\ \A i \in 1..Len(Tail(s)) : Tail(s)[i] = s[i + 1]
  <2>1. Head(s) = s[1]
    BY <1>1
  <2>2. /\ Head(s) \in 1..MaxBytes
        /\ Tail(s) \in Seq(1..MaxBytes)
        /\ Len(Tail(s)) = Len(s) - 1
        /\ \A i \in 1..Len(Tail(s)) : Tail(s)[i] = s[i + 1]
    BY <1>1, HeadTailProperties
  <2> QED BY <2>1, <2>2
<1>3. Head(s) = a + 1
  <2>1. 1 \in 1..Len(s)
    BY <1>1
  <2> QED BY <1>2, <2>1 DEF Consecutive
<1>4. ASSUME NEW i \in 1..Len(Tail(s))
      PROVE  Tail(s)[i] = a + 1 + i
  <2>1. i + 1 \in 1..Len(s) /\ a + 1 + i = a + (i + 1)
    BY <1>1, <1>2
  <2> QED BY <1>2, <2>1 DEF Consecutive
<1> QED BY <1>2, <1>3, <1>4 DEF Stream, Consecutive

LEMMA PieceTypes ==
  ASSUME NEW s \in Stream, NEW n \in 1..Len(s)
  PROVE  /\ SubSeq(s, 1, n) \in Stream
         /\ Len(SubSeq(s, 1, n)) = n
         /\ SubSeq(s, 1, n) # <<>>
         /\ SubSeq(s, n + 1, Len(s)) \in Stream
         /\ Len(SubSeq(s, n + 1, Len(s))) = Len(s) - n
         /\ \A i \in 1..n : SubSeq(s, 1, n)[i] = s[i]
         /\ \A i \in 1..Len(s) - n : SubSeq(s, n + 1, Len(s))[i] = s[n + i]
<1>1. s \in Seq(1..MaxBytes) /\ Len(s) \in Nat
  BY DEF Stream
<1>2. \A i \in 1..Len(s) : s[i] \in 1..MaxBytes
  BY <1>1, ElementOfSeq
<1> DEFINE t == SubSeq(s, 1, n)
           u == SubSeq(s, n + 1, Len(s))
<1>3. /\ t \in Seq(1..MaxBytes)
      /\ Len(t) = n
      /\ \A i \in 1..n : t[i] = s[i]
  <2>1. \A i \in 1..n : i \in 1..Len(s) /\ 1 + i - 1 = i
    BY <1>1
  <2>2. \A i \in 1..n : s[i] \in 1..MaxBytes
    BY <1>2, <2>1
  <2>3. /\ t \in Seq(1..MaxBytes)
        /\ Len(t) = IF 1 <= n THEN n - 1 + 1 ELSE 0
        /\ \A i \in 1..n - 1 + 1 : t[i] = s[1 + i - 1]
    BY <1>1, <2>2, SubSeqProperties
  <2> HIDE DEF t
  <2> QED BY <1>1, <2>1, <2>3
<1>4. /\ u \in Seq(1..MaxBytes)
      /\ Len(u) = Len(s) - n
      /\ \A i \in 1..Len(s) - n : u[i] = s[n + i]
  BY <1>1, <1>2, SubSeqProperties
<1> HIDE DEF t, u
<1>5. t # <<>>
  BY <1>3
<1> QED BY <1>3, <1>4, <1>5 DEF Stream, t, u

LEMMA ConsecutiveSplit ==
  ASSUME NEW s \in Stream, NEW a \in Nat, Consecutive(s, a), NEW n \in 1..Len(s)
  PROVE  /\ Consecutive(SubSeq(s, 1, n), a)
         /\ Consecutive(SubSeq(s, n + 1, Len(s)), a + n)
<1> DEFINE t == SubSeq(s, 1, n)
           u == SubSeq(s, n + 1, Len(s))
<1>1. Len(s) \in Nat
  BY DEF Stream
<1>3. Len(t) = n /\ \A i \in 1..n : t[i] = s[i]
  BY PieceTypes
<1>4. Len(u) = Len(s) - n /\ \A i \in 1..Len(s) - n : u[i] = s[n + i]
  BY PieceTypes
<1> HIDE DEF t, u
<1>6. Consecutive(t, a)
  BY <1>1, <1>3 DEF Consecutive
<1>7. ASSUME NEW i \in 1..Len(u)
      PROVE  u[i] = a + n + i
  <2>1. n + i \in 1..Len(s) /\ a + n + i = a + (n + i)
    BY <1>1, <1>4
  <2> QED BY <1>4, <2>1 DEF Consecutive
<1> QED BY <1>6, <1>7 DEF Consecutive, t, u

LEMMA ConsecutiveConcat ==
  ASSUME NEW s \in Stream, NEW t \in Stream, NEW a \in Nat,
         Consecutive(s, a), Consecutive(t, a + Len(s))
  PROVE  /\ s \o t \in Stream
         /\ Len(s \o t) = Len(s) + Len(t)
         /\ Consecutive(s \o t, a)
BY DEF Stream, Consecutive

(* The whole stream is the only one of its length.                          *)
LEMMA ConsecutiveWhole ==
  ASSUME NEW s \in Stream, Consecutive(s, 0)
  PROVE  s = [i \in 1..Len(s) |-> i]
BY DEF Stream, Consecutive
-----------------------------------------------------------------------------
(* Types                                                                    *)

LEMMA Parts ==
  ASSUME TypeOK
  PROVE  /\ rx \in [Ends -> Stream] /\ tx \in [Ends -> Stream]
         /\ got \in [Ends -> Stream] /\ hold \in [Ends -> Stream]
         /\ sent \in [Ends -> Nat]
         /\ \A e \in Ends :
              /\ rx[e] \in Stream /\ tx[e] \in Stream
              /\ got[e] \in Stream /\ hold[e] \in Stream
              /\ Len(rx[e]) \in Nat /\ Len(tx[e]) \in Nat
              /\ Len(got[e]) \in Nat /\ Len(hold[e]) \in Nat
              /\ Written(e) \in Nat /\ Taken(e) \in Nat
<1>1. /\ rx \in [Ends -> Stream] /\ tx \in [Ends -> Stream]
      /\ got \in [Ends -> Stream] /\ hold \in [Ends -> Stream]
      /\ sent \in [Ends -> 0..MaxBytes]
  BY DEF TypeOK
<1>2. sent \in [Ends -> Nat]
  BY <1>1, MaxBytesAssumption
<1>3. \A s \in Stream : Len(s) \in Nat
  BY DEF Stream
<1> QED BY <1>1, <1>2, <1>3 DEF Written, Taken

LEMMA Empty == <<>> \in Stream /\ Len(<<>>) = 0 /\ \A a \in Nat : Consecutive(<<>>, a)
BY DEF Stream, Consecutive

-----------------------------------------------------------------------------
(* Steps that move no byte                                                  *)

(* Connections may go down, if nothing had arrived on them.                 *)
LEMMA ControlFlow ==
  ASSUME RelayInv, UNCHANGED <<rx, tx, got, hold, sent>>,
         \A d \in Ends : Up(d)' => Up(d),
         \A d \in Ends : ~Up(d)' /\ ~Undialled' => rx[d] = <<>>
  PROVE  \A d \in Ends : Flow(d)'
<1> TAKE d \in Ends
<1>1. /\ Consecutive(got[d], 0)'
      /\ Consecutive(tx[d], Len(got[d]))'
      /\ Written(d)' = Written(d)
      /\ Taken(d)' = Taken(d)
  BY DEF RelayInv, Flow, Written, Taken
<1> QED BY <1>1, Others DEF RelayInv, Flow

(* A connection goes down: what has arrived on it is lost, and perhaps what *)
(* was written to it.                                                       *)
LEMMA DownFlow ==
  ASSUME RelayInv, NEW x \in Ends, UNCHANGED <<got, hold, sent>>,
         ~Up(x)', Up(Other(x))' => Up(Other(x)),
         rx' = [rx EXCEPT ![x] = <<>>],
         tx' = tx \/ tx' = [tx EXCEPT ![x] = <<>>],
         rx[Other(x)] = <<>> \/ Up(Other(x))' \/ Undialled'
  PROVE  /\ \A d \in Ends : Flow(d)'
         /\ rx' \in [Ends -> Stream]
         /\ tx' \in [Ends -> Stream]
         /\ \A d \in Ends : tx'[d] \in {tx[d], <<>>} /\ rx'[d] \in {rx[d], <<>>}
<1> DEFINE o == Other(x)
<1>1. /\ rx' \in [Ends -> Stream]
      /\ tx' \in [Ends -> Stream]
      /\ rx'[x] = <<>>
      /\ rx'[o] = rx[o]
      /\ tx'[x] \in {tx[x], <<>>}
      /\ tx'[o] = tx[o]
  BY Parts, Empty, Others DEF RelayInv
<1>2. Flow(x)'
  <2>1. Written(x)' <= Written(x)
    BY <1>1, Parts, Empty DEF RelayInv, Written
  <2>2. Consecutive(got[x], 0)' /\ Consecutive(tx[x], Len(got[x]))'
    BY <1>1, Parts, Empty DEF RelayInv, Flow
  <2>3. Written(x)' \in Nat /\ Written(x) \in Nat /\ sent[o] \in Nat
    BY <1>1, Parts, Empty, Others DEF RelayInv, Written
  <2> QED BY <1>1, <2>1, <2>2, <2>3 DEF RelayInv, Flow
<1>3. Flow(o)'
  <2>1. o \in Ends /\ Other(o) = x
    BY Others
  <2>2. /\ Consecutive(got[o], 0)'
        /\ Consecutive(tx[o], Len(got[o]))'
        /\ Written(o)' = Written(o)
        /\ Taken(o)' = Taken(o)
    BY <1>1, <2>1 DEF RelayInv, Flow, Written, Taken
  <2> QED BY <1>1, <2>1, <2>2 DEF RelayInv, Flow
<1> QED BY <1>1, <1>2, <1>3, Others
-----------------------------------------------------------------------------
(* The peers                                                                *)

LEMMA PeerSendInv ==
  ASSUME RelayInv, NEW e \in Ends, PeerSend(e)
  PROVE  RelayInv'
<1> DEFINE o == Other(e)
           b == sent[e] + 1
<1>1. /\ conn[e] \notin {"none", "closed"}
      /\ peer[e] = "open"
      /\ sent[e] < MaxBytes
      /\ sent' = [sent EXCEPT ![e] = b]
      /\ rx' = [rx EXCEPT ![e] = Append(rx[e], b)]
      /\ UNCHANGED <<phase, peer, tx, got, conn, pipe, hold, once, tcp>>
  BY DEF PeerSend
<1>2. o \in Ends /\ Other(o) = e /\ o # e /\ \A d \in Ends : d = e \/ d = o
  BY Others
<1>3. b \in 1..MaxBytes
  BY <1>1, Parts, MaxBytesAssumption DEF RelayInv
<1>4. Append(rx[e], b) \in Stream /\ Len(Append(rx[e], b)) = Len(rx[e]) + 1
  BY <1>3, Parts DEF RelayInv, Stream
<1>5. /\ sent' \in [Ends -> 0..MaxBytes]
      /\ rx' \in [Ends -> Stream]
      /\ sent'[e] = sent[e] + 1
      /\ sent'[o] = sent[o]
      /\ rx'[e] = Append(rx[e], b)
      /\ rx'[o] = rx[o]
  <2> HIDE DEF o, b
  <2>1. b \in 0..MaxBytes
    BY <1>3
  <2>2. sent \in [Ends -> 0..MaxBytes] /\ rx \in [Ends -> Stream]
    BY Parts DEF RelayInv, TypeOK
  <2>3. sent' \in [Ends -> 0..MaxBytes] /\ sent'[e] = b /\ sent'[o] = sent[o]
    BY <1>1, <1>2, <2>1, <2>2
  <2>4. /\ rx' \in [Ends -> Stream]
        /\ rx'[e] = Append(rx[e], b)
        /\ rx'[o] = rx[o]
    BY <1>1, <1>2, <1>4, <2>2
  <2> QED BY <2>3, <2>4 DEF b
<1> HIDE DEF o, b
<1>6. TypeOK'
  BY <1>1, <1>5 DEF RelayInv, TypeOK
<1>7. \A d \in Ends : /\ Written(d)' = Written(d)
                      /\ Taken(d)' = Taken(d)
                      /\ Up(d)' <=> Up(d)
                      /\ Undialled' <=> Undialled
  BY <1>1 DEF Written, Taken, Up, Undialled
<1>8. Flow(o)'
  <2>1. /\ Written(o) <= sent[e] + 1
        /\ Up(o) => Taken(o) <= sent[e] + 1
    BY <1>2, Parts DEF RelayInv, Flow
  <2>2. ASSUME Up(o), Up(e)
        PROVE  /\ Consecutive(Append(rx[e], b), Taken(o))
               /\ Taken(o) + Len(Append(rx[e], b)) = sent[e] + 1
    <3>1. Consecutive(rx[e], Taken(o)) /\ Taken(o) + Len(rx[e]) = sent[e]
      BY <1>2, <2>2 DEF RelayInv, Flow
    <3>2. b = Taken(o) + Len(rx[e]) + 1
      BY <3>1 DEF b
    <3>3. rx[e] \in Stream /\ Len(rx[e]) \in Nat /\ Taken(o) \in Nat
      BY <1>2, Parts DEF RelayInv
    <3>4. Consecutive(Append(rx[e], b), Taken(o))
      BY <1>3, <3>1, <3>2, <3>3, ConsecutiveAppend
    <3>5. Len(Append(rx[e], b)) = Len(rx[e]) + 1
      BY <1>4
    <3> QED BY <3>1, <3>3, <3>4, <3>5
  <2> QED BY <1>1, <1>2, <1>5, <1>7, <2>1, <2>2 DEF RelayInv, Flow
<1>9. Flow(e)'
  <2>1. Up(e)
    BY <1>1 DEF Up
  <2> QED BY <1>1, <1>2, <1>5, <1>7, <2>1 DEF RelayInv, Flow, o
<1>10. \A d \in Ends : Label(d)'
  <2>1. Label(o)'
    BY <1>1, <1>2, <1>7 DEF RelayInv, Label
  <2>2. Label(e)'
    BY <1>1, <1>2, <1>5, <1>7 DEF RelayInv, Label, o
  <2> QED BY <1>2, <2>1, <2>2
<1>11. OnceOK'
  BY <1>1 DEF RelayInv, OnceOK
<1> QED BY <1>2, <1>6, <1>8, <1>9, <1>10, <1>11 DEF RelayInv

LEMMA PeerFinInv ==
  ASSUME RelayInv, NEW e \in Ends, PeerFin(e)
  PROVE  RelayInv'
<1>1. /\ peer[e] = "open"
      /\ peer' = [peer EXCEPT ![e] = "fin"]
      /\ UNCHANGED <<phase, sent, rx, tx, got, conn, pipe, hold, once, tcp>>
  BY DEF PeerFin
<1>2. TypeOK'
  BY <1>1 DEF RelayInv, TypeOK
<1>3. \A d \in Ends : /\ Up(d)' <=> Up(d)
                      /\ Undialled' <=> Undialled
                      /\ peer[d] = "fin" => peer'[d] = "fin"
  BY <1>1 DEF RelayInv, TypeOK, Up, Undialled
<1>4. \A d \in Ends : Flow(d)'
  BY <1>1, <1>3, ControlFlow DEF RelayInv, Flow
<1>5. \A d \in Ends : Label(d)'
  BY <1>1, <1>3, Others DEF RelayInv, Label
<1>6. OnceOK'
  BY <1>1 DEF RelayInv, OnceOK
<1> QED BY <1>2, <1>4, <1>5, <1>6 DEF RelayInv

(* After an end went down nothing distinguishes the labels of the others.   *)
LEMMA DownLabels ==
  ASSUME RelayInv, NEW x \in Ends, ~Up(x)', UNCHANGED <<phase, hold>>,
         \A d \in Ends : conn'[d] \in {conn[d], "closed"},
         \A d \in Ends :
           \/ pipe'[d] = pipe[d]
           \/ /\ pipe[d] \notin {"none", "write"}
              /\ pipe'[d] \in {"term", "close", "done"}
  PROVE  \A d \in Ends : Label(d)'
<1> TAKE d \in Ends
<1>1. d = x \/ Other(d) = x
  BY Others
<1>2. Other(d) \in Ends
  BY Others
<1> QED BY <1>1, <1>2 DEF RelayInv, Label

LEMMA PeerResetInv ==
  ASSUME RelayInv, NEW e \in Ends, PeerReset(e)
  PROVE  RelayInv'
<1>1. /\ peer' = [peer EXCEPT ![e] = "reset"]
      /\ rx' = [rx EXCEPT ![e] = <<>>]
      /\ tx' = [tx EXCEPT ![e] = <<>>]
      /\ UNCHANGED <<phase, sent, got, conn, pipe, hold, once, tcp>>
  BY DEF PeerReset
<1>2. /\ ~Up(e)'
      /\ Up(Other(e))' <=> Up(Other(e))
      /\ Undialled' <=> Undialled
      /\ peer' \in [Ends -> {"open", "fin", "reset"}]
  BY <1>1, Others DEF RelayInv, TypeOK, Up, Undialled
<1>3. rx[Other(e)] = <<>> \/ Up(Other(e)) \/ Undialled
  BY Others DEF RelayInv, Flow
<1>4. /\ \A d \in Ends : Flow(d)'
      /\ rx' \in [Ends -> Stream]
      /\ tx' \in [Ends -> Stream]
      /\ \A d \in Ends : tx'[d] \in {tx[d], <<>>} /\ rx'[d] \in {rx[d], <<>>}
  BY <1>1, <1>2, <1>3, DownFlow
<1>5. TypeOK'
  <2>1. \A d \in Ends : Len(tx'[d]) <= Cap
    BY <1>4, Empty, CapAssumption DEF RelayInv, TypeOK
  <2> QED BY <1>1, <1>2, <1>4, <2>1 DEF RelayInv, TypeOK
<1>6. \A d \in Ends : Label(d)'
  BY <1>1, <1>2, DownLabels
<1>7. OnceOK'
  BY <1>1 DEF RelayInv, OnceOK
<1> QED BY <1>4, <1>5, <1>6, <1>7 DEF RelayInv

LEMMA PeerReadInv ==
  ASSUME RelayInv, NEW e \in Ends, PeerRead(e)
  PROVE  RelayInv' /\ Head(tx[e]) = Len(got[e]) + 1
<1> DEFINE h == Head(tx[e])
           t == Tail(tx[e])
           g == Append(got[e], h)
<1>1. /\ tx[e] # <<>>
      /\ got' = [got EXCEPT ![e] = g]
      /\ tx' = [tx EXCEPT ![e] = t]
      /\ UNCHANGED <<phase, peer, sent, rx, conn, pipe, hold, once, tcp>>
  BY DEF PeerRead
<1>2. /\ h = Len(got[e]) + 1
      /\ h \in 1..MaxBytes
      /\ t \in Stream
      /\ Len(t) = Len(tx[e]) - 1
      /\ Consecutive(t, Len(got[e]) + 1)
  BY <1>1, Parts, ConsecutiveTail DEF RelayInv, Flow
<1>3. /\ g \in Stream
      /\ Len(g) = Len(got[e]) + 1
      /\ Consecutive(g, 0)
  BY <1>2, Parts, ConsecutiveAppend DEF RelayInv, Flow
<1> HIDE DEF h, t, g
<1>4. /\ got' \in [Ends -> Stream]
      /\ tx' \in [Ends -> Stream]
      /\ got'[e] = g
      /\ tx'[e] = t
      /\ \A d \in Ends \ {e} : got'[d] = got[d] /\ tx'[d] = tx[d]
  BY <1>1, <1>2, <1>3, Parts DEF RelayInv
<1>5. TypeOK'
  <2>1. \A d \in Ends : Len(tx'[d]) <= Cap
    <3>1. Len(tx[e]) \in Nat /\ Len(tx[e]) <= Cap /\ Cap \in Nat
      BY Parts, CapAssumption DEF RelayInv, TypeOK
    <3>2. Len(t) <= Cap
      BY <1>2, <3>1
    <3> QED BY <1>4, <3>2 DEF RelayInv, TypeOK
  <2> QED BY <1>1, <1>4, <2>1 DEF RelayInv, TypeOK
<1>6. \A d \in Ends : /\ Written(d)' = Written(d)
                      /\ Taken(d)' = Taken(d)
                      /\ Up(d)' <=> Up(d)
                      /\ Undialled' <=> Undialled
  <2>1. Len(g) + Len(t) = Len(got[e]) + Len(tx[e])
    BY <1>2, <1>3, Parts DEF RelayInv
  <2>2. \A d \in Ends : Written(d)' = Written(d)
    BY <1>4, <2>1 DEF Written
  <2> QED BY <1>1, <2>2 DEF Taken, Up, Undialled
<1>7. \A d \in Ends : Consecutive(got'[d], 0) /\ Consecutive(tx'[d], Len(got'[d]))
  BY <1>2, <1>3, <1>4 DEF RelayInv, Flow
<1>8. \A d \in Ends : Flow(d)'
  BY <1>1, <1>6, <1>7, Others DEF RelayInv, Flow
<1>9. \A d \in Ends : Label(d)'
  BY <1>1, <1>6, Others DEF RelayInv, Label
<1>10. OnceOK'
  BY <1>1 DEF RelayInv, OnceOK
<1> QED BY <1>2, <1>5, <1>8, <1>9, <1>10 DEF RelayInv, h
-----------------------------------------------------------------------------
(* handleConn                                                               *)

LEMMA DialInv ==
  ASSUME RelayInv, Dial
  PROVE  RelayInv'
<1>1. /\ phase = "dial"
      /\ phase' = "relay"
      /\ conn' = [conn EXCEPT !["upstream"] = "open"]
      /\ pipe' = [d \in Ends |-> "copy"]
      /\ UNCHANGED <<peer, sent, rx, tx, got, hold, once, tcp>>
  BY DEF Dial
<1>2. "upstream" \in Ends /\ \A d \in Ends \ {"upstream"} : d = "client"
  BY DEF Ends
<1>3. /\ conn["upstream"] = "none"
      /\ \A d \in Ends : pipe[d] = "none" /\ hold[d] = <<>>
      /\ ~Undialled
  BY <1>1 DEF RelayInv, OnceOK, Label, Undialled
<1>4. /\ conn'["upstream"] = "open"
      /\ \A d \in Ends \ {"upstream"} : conn'[d] = conn[d]
      /\ \A d \in Ends : pipe'[d] = "copy"
  BY <1>1, <1>2 DEF RelayInv, TypeOK
<1>5. TypeOK'
  BY <1>1 DEF RelayInv, TypeOK
<1>6. \A d \in Ends : Flow(d)'
  <2>1. \A d \in Ends : Up(d)' <=> Up(d)
    BY <1>1, <1>3, <1>4 DEF Up
  <2> QED BY <1>1, <1>3, <2>1, ControlFlow DEF RelayInv, Flow
<1>7. \A d \in Ends : Label(d)'
  <2>1. conn["client"] \in {"open", "closed"}
    BY <1>1 DEF RelayInv, OnceOK
  <2> QED BY <1>1, <1>2, <1>3, <1>4, <2>1, Others DEF RelayInv, Label
<1>8. OnceOK'
  BY <1>1, <1>2, <1>3, <1>4 DEF RelayInv, OnceOK
<1> QED BY <1>5, <1>6, <1>7, <1>8 DEF RelayInv

LEMMA DialFailsInv ==
  ASSUME RelayInv, DialFails
  PROVE  RelayInv'
<1>1. /\ phase = "dial"
      /\ phase' = "done"
      /\ conn' = [conn EXCEPT !["client"] = "closed"]
      /\ UNCHANGED <<peer, sent, rx, tx, got, pipe, hold, once, tcp>>
  BY DEF DialFails
<1>2. "client" \in Ends /\ \A d \in Ends \ {"client"} : d = "upstream"
  BY DEF Ends
<1>3. /\ conn["upstream"] = "none"
      /\ \A d \in Ends : pipe[d] = "none"
      /\ Undialled'
  BY <1>1 DEF RelayInv, OnceOK, Label, Undialled
<1>4. /\ conn'["client"] = "closed"
      /\ \A d \in Ends \ {"client"} : conn'[d] = conn[d]
  BY <1>1, <1>2 DEF RelayInv, TypeOK
<1>5. TypeOK'
  BY <1>1 DEF RelayInv, TypeOK
<1>6. \A d \in Ends : Flow(d)'
  <2>1. \A d \in Ends : Up(d)' => Up(d)
    BY <1>1, <1>4 DEF Up
  <2> QED BY <1>1, <1>3, <2>1, ControlFlow
<1>7. \A d \in Ends : Label(d)'
  BY <1>1, <1>3, <1>4, Others DEF RelayInv, Label
<1>8. OnceOK'
  BY <1>1, <1>2, <1>3, <1>4 DEF RelayInv, OnceOK
<1> QED BY <1>5, <1>6, <1>7, <1>8 DEF RelayInv

LEMMA ReturnInv ==
  ASSUME RelayInv, Return
  PROVE  RelayInv'
<1>1. /\ phase = "relay"
      /\ \A d \in Ends : pipe[d] = "done"
      /\ phase' = "done"
      /\ UNCHANGED <<peer, sent, rx, tx, got, conn, pipe, hold, once, tcp>>
  BY DEF Return
<1>2. "client" \in Ends
  BY DEF Ends
<1>3. \A d \in Ends : conn[d] = "closed"
  BY <1>1, <1>2 DEF RelayInv, OnceOK
<1>4. ~Undialled /\ ~Undialled' /\ \A d \in Ends : Up(d)' <=> Up(d)
  BY <1>1, <1>2 DEF Undialled, Up
<1>5. TypeOK'
  BY <1>1 DEF RelayInv, TypeOK
<1>6. \A d \in Ends : Flow(d)'
  BY <1>1, <1>4, ControlFlow DEF RelayInv, Flow
<1>7. \A d \in Ends : Label(d)'
  <2> TAKE d \in Ends
  <2>1. Other(d) \in Ends
    BY Others
  <2> QED BY <1>1, <1>4, <2>1 DEF RelayInv, Label
<1>8. OnceOK'
  BY <1>1, <1>3 DEF RelayInv, OnceOK
<1> QED BY <1>5, <1>6, <1>7, <1>8 DEF RelayInv

-----------------------------------------------------------------------------
(* pipe                                                                     *)

LEMMA PipeReadInv ==
  ASSUME RelayInv, NEW e \in Ends, PipeRead(e)
  PROVE  RelayInv'
<1> DEFINE src == Other(e)
<1>1. PICK n \in 1..Len(rx[src]) :
        /\ hold' = [hold EXCEPT ![e] = SubSeq(rx[src], 1, n)]
        /\ rx' = [rx EXCEPT ![src] = SubSeq(rx[src], n + 1, Len(rx[src]))]
  BY DEF PipeRead
<1>2. /\ pipe[e] = "copy"
      /\ conn[src] # "closed"
      /\ rx[src] # <<>>
      /\ pipe' = [pipe EXCEPT ![e] = "write"]
      /\ UNCHANGED <<phase, peer, sent, tx, got, conn, once, tcp>>
  BY DEF PipeRead
<1>3. src \in Ends /\ Other(src) = e /\ src # e /\ \A d \in Ends : d = e \/ d = src
  BY Others
<1> DEFINE h == SubSeq(rx[src], 1, n)
           r == SubSeq(rx[src], n + 1, Len(rx[src]))
<1> HIDE DEF src
<1>4. /\ h \in Stream
      /\ Len(h) = n
      /\ h # <<>>
      /\ r \in Stream
      /\ Len(r) = Len(rx[src]) - n
  BY <1>3, Parts, PieceTypes DEF RelayInv
<1>5. ASSUME NEW a \in Nat, Consecutive(rx[src], a)
      PROVE  Consecutive(h, a) /\ Consecutive(r, a + n)
  BY <1>3, <1>5, Parts, ConsecutiveSplit DEF RelayInv
<1> HIDE DEF h, r
<1>6. /\ hold' \in [Ends -> Stream]
      /\ rx' \in [Ends -> Stream]
      /\ hold'[e] = h
      /\ hold'[src] = hold[src]
      /\ rx'[src] = r
      /\ rx'[e] = rx[e]
      /\ pipe'[e] = "write"
      /\ pipe'[src] = pipe[src]
  BY <1>1, <1>2, <1>3, <1>4, Parts DEF RelayInv, TypeOK, h, r
<1>7. TypeOK'
  BY <1>2, <1>6 DEF RelayInv, TypeOK
<1>8. ~Undialled /\ ~Undialled' /\ \A d \in Ends : Up(d)' <=> Up(d)
  BY <1>2, <1>6 DEF Undialled, Up
<1>9. Up(src)
  BY <1>2, <1>3, <1>8 DEF RelayInv, Flow
<1>10. hold[e] = <<>> /\ Taken(e) = Written(e) /\ Written(e)' = Written(e)
  <2>1. hold[e] = <<>>
    BY <1>2 DEF RelayInv, Label
  <2>2. Written(e) \in Nat
    BY Parts DEF RelayInv
  <2>3. Taken(e) = Written(e)
    BY <2>1, <2>2, Empty DEF Taken
  <2> QED BY <1>2, <2>1, <2>3 DEF Written
<1>11. Taken(e)' = Written(e) + n
  BY <1>4, <1>6, <1>10 DEF Taken
<1>12. Flow(e)'
  <2>1. Written(e) \in Nat /\ n \in Nat /\ Len(rx[src]) \in Nat /\ n <= Len(rx[src])
    BY <1>3, Parts DEF RelayInv
  <2>2. /\ Consecutive(got[e], 0)
        /\ Consecutive(tx[e], Len(got[e]))
        /\ Written(e) <= sent[src]
    BY DEF RelayInv, Flow, src
  <2>3. ASSUME Up(e)
        PROVE  /\ Consecutive(h, Written(e))
               /\ Consecutive(r, Written(e) + n)
               /\ Written(e) + n + Len(r) = sent[src]
               /\ Written(e) + n <= sent[src]
    <3>1. Consecutive(rx[src], Written(e)) /\ Written(e) + Len(rx[src]) = sent[src]
      BY <1>9, <1>10, <2>3 DEF RelayInv, Flow, src
    <3>2. Consecutive(h, Written(e)) /\ Consecutive(r, Written(e) + n)
      BY <1>5, <2>1, <3>1
    <3> QED BY SMTT(30), <1>4, <2>1, <3>1, <3>2
  <2>4. ~Up(e) => rx[e] = <<>>
    BY <1>8 DEF RelayInv, Flow
  <2> QED BY <1>2, <1>6, <1>8, <1>10, <1>11, <2>2, <2>3, <2>4 DEF Flow, src
<1>13. Flow(src)'
  <2>1. Written(src)' = Written(src) /\ Taken(src)' = Taken(src)
    BY <1>2, <1>6 DEF Written, Taken
  <2> QED BY <1>2, <1>3, <1>6, <1>8, <1>9, <2>1 DEF RelayInv, Flow
<1>14. Label(e)'
  BY <1>2, <1>3, <1>4, <1>6, <1>8 DEF RelayInv, Label, src
<1>15. Label(src)'
  BY <1>2, <1>3, <1>4, <1>6, <1>8 DEF RelayInv, Label
<1>16. OnceOK'
  BY <1>2, <1>3, <1>6 DEF RelayInv, OnceOK
<1> QED BY <1>3, <1>7, <1>12, <1>13, <1>14, <1>15, <1>16 DEF RelayInv

(* A goroutine leaves its loop when one of the connections is down.         *)
LEMMA LeavesInv ==
  ASSUME RelayInv, NEW e \in Ends, pipe[e] \in {"copy", "write"},
         pipe' = [pipe EXCEPT ![e] = "half"],
         hold' = [hold EXCEPT ![e] = <<>>],
         \/ ~Up(e)
         \/ ~Up(Other(e)) /\ hold[e] = <<>>
         \/ peer[Other(e)] = "fin" /\ rx[Other(e)] = <<>> /\ hold[e] = <<>>,
         UNCHANGED <<phase, peer, sent, rx, tx, got, conn, once, tcp>>
  PROVE  RelayInv'
<1> DEFINE src == Other(e)
<1>1. src \in Ends /\ Other(src) = e /\ src # e /\ \A d \in Ends : d = e \/ d = src
  BY Others
<1> HIDE DEF src
<1>2. /\ pipe'[e] = "half"
      /\ pipe'[src] = pipe[src]
      /\ hold'[e] = <<>>
      /\ hold'[src] = hold[src]
      /\ hold' \in [Ends -> Stream]
  BY <1>1, Empty, Parts DEF RelayInv, TypeOK
<1>3. TypeOK'
  BY <1>2 DEF RelayInv, TypeOK
<1>4. ~Undialled /\ ~Undialled' /\ \A d \in Ends : Up(d)' <=> Up(d)
  BY <1>2 DEF Undialled, Up
<1>5. Flow(e)'
  <2>1. ~Up(e) \/ hold' = hold
    BY Parts DEF RelayInv
  <2>2. Written(e)' = Written(e)
    BY DEF Written
  <2>3. CASE ~Up(e)
    BY <1>4, <2>2, <2>3 DEF RelayInv, Flow
  <2>4. CASE hold' = hold
    <3>1. Taken(e)' = Taken(e)
      BY <2>2, <2>4 DEF Taken
    <3>2. /\ Consecutive(got[e], 0)'
          /\ Consecutive(tx[e], Len(got[e]))'
          /\ Written(e)' <= sent[src]'
          /\ ~Up(e)' /\ ~Undialled' => rx'[e] = <<>>
      BY <1>4, <2>2 DEF RelayInv, Flow, src
    <3>3. Up(e) => Consecutive(hold[e], Written(e))' /\ Taken(e)' <= sent[src]'
      BY <2>2, <2>4, <3>1 DEF RelayInv, Flow, src
    <3>4. Up(e) /\ Up(src) => /\ Consecutive(rx[src], Taken(e))'
                              /\ Taken(e)' + Len(rx[src]') = sent[src]'
      BY <3>1 DEF RelayInv, Flow, src
    <3> QED BY <1>1, <1>4, <3>2, <3>3, <3>4 DEF Flow, src
  <2> QED BY <2>1, <2>3, <2>4
<1>6. Flow(src)'
  <2>1. Written(src)' = Written(src) /\ Taken(src)' = Taken(src)
    BY <1>2 DEF Written, Taken
  <2> QED BY <1>1, <1>2, <1>4, <2>1 DEF RelayInv, Flow
<1>7. Label(e)'
  BY <1>1, <1>2, <1>4 DEF RelayInv, Label, src
<1>8. Label(src)'
  BY <1>1, <1>2, <1>4 DEF RelayInv, Label
<1>9. OnceOK'
  BY <1>1, <1>2 DEF RelayInv, OnceOK
<1> QED BY <1>1, <1>3, <1>5, <1>6, <1>7, <1>8, <1>9 DEF RelayInv

LEMMA HoldsNothing ==
  ASSUME RelayInv, NEW e \in Ends, pipe[e] # "write"
  PROVE  hold[e] = <<>> /\ hold = [hold EXCEPT ![e] = <<>>]
<1>1. hold[e] = <<>>
  BY DEF RelayInv, Label
<1> QED BY <1>1, Parts DEF RelayInv

LEMMA PipeEOFInv ==
  ASSUME RelayInv, NEW e \in Ends, PipeEOF(e)
  PROVE  RelayInv'
BY HoldsNothing, LeavesInv DEF PipeEOF

LEMMA PipeReadErrorInv ==
  ASSUME RelayInv, NEW e \in Ends, PipeReadError(e)
  PROVE  RelayInv'
<1>1. ~Up(Other(e))
  BY DEF PipeReadError, Up
<1>2. hold[e] = <<>> /\ hold = [hold EXCEPT ![e] = <<>>]
  BY HoldsNothing DEF PipeReadError
<1>3. /\ pipe[e] = "copy"
      /\ pipe' = [pipe EXCEPT ![e] = "half"]
      /\ UNCHANGED <<phase, peer, sent, rx, tx, got, conn, hold, once, tcp>>
  BY DEF PipeReadError
<1> QED BY <1>1, <1>2, <1>3, LeavesInv

(* A failed write loses what was read, but then e is down.                  *)
LEMMA PipeWriteErrorInv ==
  ASSUME RelayInv, NEW e \in Ends, PipeWriteError(e)
  PROVE  RelayInv'
<1>1. ~Up(e)
  BY DEF PipeWriteError, RelayInv, Label, Up
<1>2. /\ pipe[e] = "write"
      /\ pipe' = [pipe EXCEPT ![e] = "half"]
      /\ hold' = [hold EXCEPT ![e] = <<>>]
      /\ UNCHANGED <<phase, peer, sent, rx, tx, got, conn, once, tcp>>
  BY DEF PipeWriteError
<1> QED BY <1>1, <1>2, LeavesInv

LEMMA PipeWriteInv ==
  ASSUME RelayInv, NEW e \in Ends, PipeWrite(e)
  PROVE  RelayInv'
<1> DEFINE src == Other(e)
           x == Head(hold[e])
           h == Tail(hold[e])
           t == Append(tx[e], x)
           l == IF Len(hold[e]) = 1 THEN "copy" ELSE "write"
<1>1. /\ pipe[e] = "write"
      /\ conn[e] = "open"
      /\ peer[e] # "reset"
      /\ Len(tx[e]) < Cap
      /\ tx' = [tx EXCEPT ![e] = t]
      /\ hold' = [hold EXCEPT ![e] = h]
      /\ pipe' = [pipe EXCEPT ![e] = l]
      /\ UNCHANGED <<phase, peer, sent, rx, got, conn, once, tcp>>
  BY DEF PipeWrite
<1>2. src \in Ends /\ Other(src) = e /\ src # e /\ \A d \in Ends : d = e \/ d = src
  BY Others
<1>3. Up(e) /\ hold[e] # <<>>
  BY <1>1 DEF Up, RelayInv, Label
<1>4. /\ Consecutive(got[e], 0)
      /\ Consecutive(tx[e], Len(got[e]))
      /\ Consecutive(hold[e], Written(e))
      /\ Taken(e) <= sent[src]
      /\ Up(src) => /\ Consecutive(rx[src], Taken(e))
                    /\ Taken(e) + Len(rx[src]) = sent[src]
  BY <1>3 DEF RelayInv, Flow
<1>5. /\ Written(e) \in Nat /\ Len(got[e]) \in Nat /\ Len(tx[e]) \in Nat
      /\ Len(hold[e]) \in Nat
      /\ hold[e] \in Stream /\ tx[e] \in Stream /\ got[e] \in Stream
      /\ sent[src] \in Nat
      /\ Written(e) = Len(got[e]) + Len(tx[e])
      /\ Taken(e) = Written(e) + Len(hold[e])
  BY <1>2, Parts DEF RelayInv, Written, Taken
<1>6. /\ x = Written(e) + 1
      /\ x \in 1..MaxBytes
      /\ h \in Stream
      /\ Len(h) = Len(hold[e]) - 1
      /\ Consecutive(h, Written(e) + 1)
  BY <1>3, <1>4, <1>5, ConsecutiveTail
<1>7. /\ t \in Stream
      /\ Len(t) = Len(tx[e]) + 1
      /\ Consecutive(t, Len(got[e]))
  BY <1>4, <1>5, <1>6, ConsecutiveAppend
<1>8. l \in {"copy", "write"} /\ (l = "write" <=> h # <<>>)
  <2>1. h = <<>> <=> Len(h) = 0
    BY <1>6, EmptySeq DEF Stream
  <2> QED BY <1>5, <1>6, <2>1
<1> HIDE DEF src, x, h, t, l
<1>9. /\ tx' \in [Ends -> Stream]
      /\ hold' \in [Ends -> Stream]
      /\ tx'[e] = t /\ tx'[src] = tx[src]
      /\ hold'[e] = h /\ hold'[src] = hold[src]
      /\ pipe'[e] = l /\ pipe'[src] = pipe[src]
      /\ pipe' \in [Ends -> {"none", "copy", "write", "half", "term", "close", "done"}]
  BY <1>1, <1>2, <1>6, <1>7, <1>8, Parts DEF RelayInv, TypeOK
<1>10. TypeOK'
  <2>1. Len(tx'[e]) <= Cap
    BY <1>1, <1>5, <1>7, <1>9, CapAssumption
  <2>2. \A d \in Ends : Len(tx'[d]) <= Cap
    BY <1>2, <1>9, <2>1 DEF RelayInv, TypeOK
  <2> QED BY <1>1, <1>9, <2>2 DEF RelayInv, TypeOK
<1>11. ~Undialled /\ ~Undialled' /\ \A d \in Ends : Up(d)' <=> Up(d)
  BY <1>1, <1>8, <1>9 DEF Undialled, Up
<1>12. Written(e)' = Written(e) + 1 /\ Taken(e)' = Taken(e)
  <2> DEFINE m == Len(got[e])    n == Len(tx[e])    k == Len(hold[e])
             n1 == Len(tx'[e])   k1 == Len(hold'[e])
  <2>1. m \in Nat /\ n \in Nat /\ k \in Nat /\ n1 = n + 1 /\ k1 = k - 1
    BY <1>5, <1>6, <1>7, <1>9
  <2>2. /\ Written(e) = m + n /\ Taken(e) = (m + n) + k
        /\ Written(e)' = m + n1 /\ Taken(e)' = (m + n1) + k1
    BY <1>1 DEF Written, Taken
  <2> HIDE DEF m, n, k, n1, k1
  <2>3. m + n1 = (m + n) + 1 /\ (m + n1) + k1 = (m + n) + k
    BY <2>1
  <2> QED BY <2>2, <2>3
<1>13. Flow(e)'
  <2>1. Written(e) + 1 <= sent[src]
    <3>1. Len(hold[e]) # 0
      BY <1>3, <1>5, EmptySeq DEF Stream
    <3>2. Taken(e) <= sent[src]
      BY <1>4
    <3>3. /\ Written(e) \in Nat /\ Len(hold[e]) \in Nat /\ sent[src] \in Nat
          /\ Taken(e) = Written(e) + Len(hold[e])
      BY <1>5
    <3> QED BY <3>1, <3>2, <3>3
  <2>2. Consecutive(got[e], 0)'
    BY <1>1, <1>4
  <2>3. Consecutive(tx[e], Len(got[e]))'
    BY <1>1, <1>7, <1>9
  <2>4. Written(e)' <= sent[src]'
    BY <1>1, <1>12, <2>1
  <2>5. Consecutive(hold[e], Written(e))' /\ Taken(e)' <= sent[src]'
    BY <1>1, <1>4, <1>6, <1>9, <1>12
  <2>6. Up(src) => /\ Consecutive(rx[src], Taken(e))'
                   /\ Taken(e)' + Len(rx[src]') = sent[src]'
    BY <1>1, <1>4, <1>12
  <2>7. Up(e)' /\ (Up(src)' <=> Up(src))
    BY <1>2, <1>3, <1>11
  <2> QED BY <2>2, <2>3, <2>4, <2>5, <2>6, <2>7 DEF Flow, src
<1>14. Flow(src)'
  <2>1. Written(src)' = Written(src) /\ Taken(src)' = Taken(src)
    BY <1>1, <1>9 DEF Written, Taken
  <2> QED BY <1>1, <1>2, <1>9, <1>11, <2>1 DEF RelayInv, Flow
<1>15. Label(e)'
  BY <1>1, <1>2, <1>8, <1>9, <1>11 DEF RelayInv, Label, src
<1>16. Label(src)'
  BY <1>1, <1>2, <1>8, <1>9, <1>11 DEF RelayInv, Label
<1>17. OnceOK'
  BY <1>1, <1>2, <1>8, <1>9 DEF RelayInv, OnceOK
<1> QED BY <1>2, <1>10, <1>13, <1>14, <1>15, <1>16, <1>17 DEF RelayInv

(* Close loses what has arrived, and perhaps what was written.              *)
LEMMA CloseFlow ==
  ASSUME RelayInv, NEW x \in Ends, Close(x), ~Undialled,
         UNCHANGED <<peer, sent, got, hold>>
  PROVE  /\ \A d \in Ends : Flow(d)'
         /\ rx' \in [Ends -> Stream]
         /\ tx' \in [Ends -> Stream]
         /\ \A d \in Ends : Len(tx'[d]) <= Cap
         /\ conn' \in [Ends -> {"none", "open", "half", "closed"}]
         /\ conn'[x] = "closed"
         /\ \A d \in Ends \ {x} : conn'[d] = conn[d]
         /\ ~Up(x)'
<1>1. /\ conn' = [conn EXCEPT ![x] = "closed"]
      /\ rx' = [rx EXCEPT ![x] = <<>>]
      /\ tx' = tx \/ tx' = [tx EXCEPT ![x] = <<>>]
  BY DEF Close
<1>2. /\ conn' \in [Ends -> {"none", "open", "half", "closed"}]
      /\ conn'[x] = "closed"
      /\ \A d \in Ends \ {x} : conn'[d] = conn[d]
  BY <1>1 DEF RelayInv, TypeOK
<1>3. ~Up(x)'
  BY <1>2 DEF Up
<1>4. Up(Other(x))' <=> Up(Other(x))
  BY <1>2, Others DEF Up
<1>5. rx[Other(x)] = <<>> \/ Up(Other(x))'
  BY <1>4, Others DEF RelayInv, Flow
<1>6. /\ \A d \in Ends : Flow(d)'
      /\ rx' \in [Ends -> Stream]
      /\ tx' \in [Ends -> Stream]
      /\ \A d \in Ends : tx'[d] \in {tx[d], <<>>}
  BY <1>1, <1>3, <1>4, <1>5, DownFlow
<1>7. ASSUME NEW d \in Ends
      PROVE  Len(tx'[d]) <= Cap
  BY <1>6, Empty, CapAssumption DEF RelayInv, TypeOK
<1> QED BY <1>2, <1>3, <1>6, <1>7

LEMMA closeWriteHalfInv ==
  ASSUME RelayInv, NEW e \in Ends, closeWriteHalf(e)
  PROVE  RelayInv'
<1>1. /\ pipe[e] = "half"
      /\ pipe' = [pipe EXCEPT ![e] = "term"]
      /\ UNCHANGED <<phase, peer, sent, got, hold, once, tcp>>
  BY DEF closeWriteHalf
<1>2. ~Undialled /\ ~Undialled'
  BY <1>1 DEF Undialled, RelayInv, TypeOK
<1>3. /\ pipe'[e] = "term"
      /\ \A d \in Ends \ {e} : pipe'[d] = pipe[d]
      /\ pipe' \in [Ends -> {"none", "copy", "write", "half", "term", "close", "done"}]
  BY <1>1 DEF RelayInv, TypeOK
<1>4. phase # "dial" /\ conn[e] \in {"open", "closed"}
  BY <1>1 DEF RelayInv, Label
<1>5. CASE e \in tcp
  <2>1. /\ conn' = [conn EXCEPT ![e] = IF @ = "open" THEN "half" ELSE @]
        /\ UNCHANGED <<rx, tx>>
    BY <1>5 DEF closeWriteHalf
  <2>2. /\ conn' \in [Ends -> {"none", "open", "half", "closed"}]
        /\ conn'[e] = IF conn[e] = "open" THEN "half" ELSE "closed"
        /\ \A d \in Ends \ {e} : conn'[d] = conn[d]
    BY <1>4, <2>1 DEF RelayInv, TypeOK
  <2>3. \A d \in Ends : Up(d)' <=> Up(d)
    BY <1>1, <1>4, <2>2 DEF Up
  <2>4. TypeOK'
    BY <1>1, <1>3, <2>1, <2>2 DEF RelayInv, TypeOK
  <2>5. \A d \in Ends : Flow(d)'
    BY <1>1, <1>2, <2>1, <2>3, ControlFlow DEF RelayInv, Flow
  <2>6. \A d \in Ends : Label(d)'
    <3> TAKE d \in Ends
    <3>1. Other(d) \in Ends /\ (d = e \/ Other(d) = e) /\ Other(d) # d
      BY Others
    <3>2. Label(d)
      BY DEF RelayInv
    <3>3. CASE d = e
      BY <1>1, <1>3, <1>4, <2>1, <2>2, <2>3, <3>1, <3>2, <3>3 DEF Label
    <3>4. CASE Other(d) = e
      BY <1>1, <1>3, <1>4, <2>1, <2>2, <2>3, <3>1, <3>2, <3>4 DEF Label
    <3> QED BY <3>1, <3>3, <3>4
  <2>7. OnceOK'
    BY <1>1, <1>3, <1>4, <2>2 DEF RelayInv, OnceOK, Ends
  <2> QED BY <2>4, <2>5, <2>6, <2>7 DEF RelayInv
<1>6. CASE e \notin tcp
  <2>1. Close(e)
    BY <1>6 DEF closeWriteHalf
  <2>2. /\ \A d \in Ends : Flow(d)'
        /\ rx' \in [Ends -> Stream]
        /\ tx' \in [Ends -> Stream]
        /\ \A d \in Ends : Len(tx'[d]) <= Cap
        /\ conn' \in [Ends -> {"none", "open", "half", "closed"}]
        /\ conn'[e] = "closed"
        /\ \A d \in Ends \ {e} : conn'[d] = conn[d]
        /\ ~Up(e)'
    BY <1>1, <1>2, <2>1, CloseFlow
  <2>3. TypeOK'
    BY <1>1, <1>3, <2>2 DEF RelayInv, TypeOK
  <2>4. \A d \in Ends : Label(d)'
    <3>1. \A d \in Ends : conn'[d] \in {conn[d], "closed"}
      BY <2>2
    <3>2. \A d \in Ends : \/ pipe'[d] = pipe[d]
                          \/ /\ pipe[d] \notin {"none", "write"}
                             /\ pipe'[d] \in {"term", "close", "done"}
      BY <1>1, <1>3
    <3> QED BY <1>1, <2>2, <3>1, <3>2, DownLabels
  <2>5. OnceOK'
    BY <1>1, <1>3, <1>4, <2>2 DEF RelayInv, OnceOK, Ends
  <2> QED BY <2>2, <2>3, <2>4, <2>5 DEF RelayInv
<1> QED BY <1>5, <1>6

(* A goroutine enters terminate, and closes a connection there.             *)
LEMMA TerminateClose ==
  ASSUME RelayInv, NEW e \in Ends, NEW x \in Ends, Close(x),
         NEW l \in {"close", "done"}, pipe[e] \in {"term", "close"},
         pipe' = [pipe EXCEPT ![e] = l],
         once' \in Ends \cup {"done"},
         UNCHANGED <<phase, peer, sent, got, hold, tcp>>
  PROVE  /\ TypeOK'
         /\ \A d \in Ends : Flow(d)' /\ Label(d)'
         /\ phase # "dial"
         /\ pipe'[e] = l
         /\ \A d \in Ends \ {e} : pipe'[d] = pipe[d]
         /\ conn'[x] = "closed"
         /\ \A d \in Ends \ {x} : conn'[d] = conn[d]
<1>1. ~Undialled
  BY DEF Undialled
<1>2. /\ pipe'[e] = l
      /\ \A d \in Ends \ {e} : pipe'[d] = pipe[d]
      /\ pipe' \in [Ends -> {"none", "copy", "write", "half", "term", "close", "done"}]
  BY DEF RelayInv, TypeOK
<1>3. phase # "dial"
  BY DEF RelayInv, Label
<1>4. /\ \A d \in Ends : Flow(d)'
      /\ rx' \in [Ends -> Stream]
      /\ tx' \in [Ends -> Stream]
      /\ \A d \in Ends : Len(tx'[d]) <= Cap
      /\ conn' \in [Ends -> {"none", "open", "half", "closed"}]
      /\ conn'[x] = "closed"
      /\ \A d \in Ends \ {x} : conn'[d] = conn[d]
      /\ ~Up(x)'
  BY <1>1, CloseFlow
<1>5. TypeOK'
  BY <1>2, <1>4 DEF RelayInv, TypeOK
<1>6. \A d \in Ends : Label(d)'
  <2>1. \A d \in Ends : conn'[d] \in {conn[d], "closed"}
    BY <1>4
  <2>2. \A d \in Ends : \/ pipe'[d] = pipe[d]
                        \/ /\ pipe[d] \notin {"none", "write"}
                           /\ pipe'[d] \in {"term", "close", "done"}
    BY <1>2
  <2> QED BY <1>4, <2>1, <2>2, DownLabels
<1> QED BY <1>2, <1>3, <1>4, <1>5, <1>6

LEMMA TerminateFirstInv ==
  ASSUME RelayInv, NEW e \in Ends, TerminateFirst(e)
  PROVE  RelayInv'
<1>1. /\ pipe[e] = "term"
      /\ once = "nobody"
      /\ once' = e
      /\ pipe' = [pipe EXCEPT ![e] = "close"]
      /\ Close("client")
      /\ UNCHANGED <<phase, peer, sent, got, hold, tcp>>
  BY DEF TerminateFirst
<1>2. "client" \in Ends
  BY DEF Ends
<1>3. /\ TypeOK'
      /\ \A d \in Ends : Flow(d)' /\ Label(d)'
      /\ phase # "dial"
      /\ pipe'[e] = "close"
      /\ \A d \in Ends \ {e} : pipe'[d] = pipe[d]
      /\ conn'["client"] = "closed"
      /\ \A d \in Ends \ {"client"} : conn'[d] = conn[d]
  BY <1>1, <1>2, TerminateClose
<1>4. OnceOK'
  BY <1>1, <1>3 DEF RelayInv, OnceOK, Ends
<1> QED BY <1>3, <1>4 DEF RelayInv

LEMMA TerminateSecondInv ==
  ASSUME RelayInv, NEW e \in Ends, TerminateSecond(e)
  PROVE  RelayInv'
<1>1. /\ pipe[e] = "close"
      /\ once' = "done"
      /\ pipe' = [pipe EXCEPT ![e] = "done"]
      /\ Close("upstream")
      /\ UNCHANGED <<phase, peer, sent, got, hold, tcp>>
  BY DEF TerminateSecond
<1>2. "upstream" \in Ends
  BY DEF Ends
<1>3. /\ TypeOK'
      /\ \A d \in Ends : Flow(d)' /\ Label(d)'
      /\ phase # "dial"
      /\ pipe'[e] = "done"
      /\ \A d \in Ends \ {e} : pipe'[d] = pipe[d]
      /\ conn'["upstream"] = "closed"
      /\ \A d \in Ends \ {"upstream"} : conn'[d] = conn[d]
  BY <1>1, <1>2, TerminateClose
<1>4. once = e /\ conn["client"] = "closed"
  BY <1>1 DEF RelayInv, OnceOK
<1>5. OnceOK'
  BY <1>1, <1>3, <1>4 DEF RelayInv, OnceOK, Ends
<1> QED BY <1>3, <1>5 DEF RelayInv

LEMMA TerminateNothingInv ==
  ASSUME RelayInv, NEW e \in Ends, TerminateNothing(e)
  PROVE  RelayInv'
<1>1. /\ pipe[e] = "term"
      /\ once = "done"
      /\ pipe' = [pipe EXCEPT ![e] = "done"]
      /\ UNCHANGED <<phase, peer, sent, rx, tx, got, conn, hold, once, tcp>>
  BY DEF TerminateNothing
<1>2. /\ pipe'[e] = "done"
      /\ \A d \in Ends \ {e} : pipe'[d] = pipe[d]
      /\ pipe' \in [Ends -> {"none", "copy", "write", "half", "term", "close", "done"}]
  BY <1>1 DEF RelayInv, TypeOK
<1>3. ~Undialled /\ ~Undialled' /\ \A d \in Ends : Up(d)' <=> Up(d)
  BY <1>1, <1>2 DEF Undialled, Up
<1>4. ~Up(e)'
  BY <1>1 DEF RelayInv, OnceOK, Up
<1>5. TypeOK'
  BY <1>1, <1>2 DEF RelayInv, TypeOK
<1>6. \A d \in Ends : Flow(d)'
  BY <1>1, <1>3, ControlFlow DEF RelayInv, Flow
<1>7. \A d \in Ends : Label(d)'
  BY <1>1, <1>2, <1>4, DownLabels
<1>8. OnceOK'
  BY <1>1, <1>2 DEF RelayInv, OnceOK
<1> QED BY <1>5, <1>6, <1>7, <1>8 DEF RelayInv
-----------------------------------------------------------------------------
(* RelayInv is inductive                                                    *)

LEMMA InitInv == Init => RelayInv
<1> SUFFICES ASSUME Init PROVE RelayInv
  OBVIOUS
<1>1. TypeOK
  <2>1. 0 \in 0..MaxBytes /\ 0 <= Cap
    BY MaxBytesAssumption, CapAssumption
  <2> QED BY <2>1, Empty DEF Init, TypeOK, Ends
<1>2. ASSUME NEW e \in Ends
      PROVE  Flow(e) /\ Label(e)
  <2>1. Other(e) \in Ends
    BY Others
  <2>2. Written(e) = 0 /\ Taken(e) = 0 /\ sent[Other(e)] = 0
    BY <2>1, Empty DEF Init, Written, Taken
  <2>3. Flow(e)
    BY <2>1, <2>2, Empty DEF Init, Flow
  <2>4. Label(e)
    BY <2>1 DEF Init, Label
  <2> QED BY <2>3, <2>4
<1>3. OnceOK
  BY DEF Init, OnceOK, Ends
<1> QED BY <1>1, <1>2, <1>3 DEF RelayInv

LEMMA NextInv == RelayInv /\ [Next]_vars => RelayInv'
<1> SUFFICES ASSUME RelayInv, [Next]_vars PROVE RelayInv'
  OBVIOUS
<1>1. CASE Dial
  BY <1>1, DialInv
<1>2. CASE DialFails
  BY <1>2, DialFailsInv
<1>3. CASE Return
  BY <1>3, ReturnInv
<1>4. ASSUME NEW e \in Ends, Pipe(e)
      PROVE  RelayInv'
  BY <1>4, PipeReadInv, PipeEOFInv, PipeReadErrorInv, PipeWriteInv,
     PipeWriteErrorInv, closeWriteHalfInv, TerminateFirstInv,
     TerminateSecondInv, TerminateNothingInv DEF Pipe
<1>5. ASSUME NEW e \in Ends, Peer(e)
      PROVE  RelayInv'
  BY <1>5, PeerSendInv, PeerFinInv, PeerResetInv, PeerReadInv DEF Peer
<1>6. CASE UNCHANGED vars
  <2>1. UNCHANGED <<phase, peer, sent, rx, tx, got, conn, pipe, hold, once, tcp>>
    BY <1>6 DEF vars
  <2>2. TypeOK'
    BY <2>1 DEF RelayInv, TypeOK
  <2>3. (Undialled' <=> Undialled) /\ \A d \in Ends : Up(d)' <=> Up(d)
    BY <2>1 DEF Undialled, Up
  <2>4. \A d \in Ends : Flow(d)'
    BY <2>1, <2>3, ControlFlow DEF RelayInv, Flow
  <2>5. \A d \in Ends : Label(d)'
    BY <2>1, <2>3, Others DEF RelayInv, Label
  <2>6. OnceOK'
    BY <2>1 DEF RelayInv, OnceOK
  <2> QED BY <2>2, <2>4, <2>5, <2>6 DEF RelayInv
<1> QED BY <1>1, <1>2, <1>3, <1>4, <1>5, <1>6 DEF Next, Handle

(* The inductive invariant holds of every stream, chunk and interleaving of *)
(* forward.Relay's two goroutines.                                          *)
THEOREM RelayInvariant == Spec => []RelayInv
<1>1. Init => RelayInv
  BY InitInv
<1>2. RelayInv /\ [Next]_vars => RelayInv'
  BY NextInv
<1> QED BY <1>1, <1>2, PTL DEF Spec
-----------------------------------------------------------------------------
(* What follows from RelayInv                                               *)

(* Buffers and chunks keep their types, and what was written to a peer      *)
(* never exceeds the capacity of its connection.                            *)
THEOREM TypeCorrect == Spec => []TypeOK
<1>1. RelayInv => TypeOK
  BY DEF RelayInv
<1> QED BY <1>1, RelayInvariant, PTL

LEMMA PrefixOfStream ==
  ASSUME NEW s \in Stream, Consecutive(s, 0), NEW n \in Nat, Len(s) <= n
  PROVE  IsPrefix(s, [i \in 1..n |-> i])
<1> DEFINE t == [i \in 1..n |-> i]
           k == Len(s)
<1>1. s \in Seq(1..MaxBytes) /\ k \in Nat /\ k <= n
  BY DEF Stream
<1>2. \A i \in 1..k : s[i] \in Nat /\ s[i] = i /\ i \in 1..n
  BY <1>1 DEF Consecutive
<1>3. t \in Seq(Nat) /\ Len(t) = n /\ \A i \in 1..n : t[i] = i
  OBVIOUS
<1>4. /\ SubSeq(s, 1, k) \in Seq(Nat)
      /\ Len(SubSeq(s, 1, k)) = k
      /\ \A i \in 1..k : SubSeq(s, 1, k)[i] = i
  <2>1. /\ SubSeq(s, 1, k) \in Seq(Nat)
        /\ Len(SubSeq(s, 1, k)) = IF 1 <= k THEN k - 1 + 1 ELSE 0
        /\ \A i \in 1..k - 1 + 1 : SubSeq(s, 1, k)[i] = s[1 + i - 1]
    BY <1>1, <1>2, SubSeqProperties
  <2>2. k - 1 + 1 = k /\ \A i \in 1..k : 1 + i - 1 = i
    BY <1>1
  <2> HIDE DEF k
  <2> QED BY <1>1, <1>2, <2>1, <2>2
<1> HIDE DEF t
<1>5. /\ SubSeq(t, 1, k) \in Seq(Nat)
      /\ Len(SubSeq(t, 1, k)) = k
      /\ \A i \in 1..k : SubSeq(t, 1, k)[i] = i
  <2>1. \A i \in 1..k : t[i] \in Nat
    BY <1>2, <1>3
  <2>2. /\ SubSeq(t, 1, k) \in Seq(Nat)
        /\ Len(SubSeq(t, 1, k)) = IF 1 <= k THEN k - 1 + 1 ELSE 0
        /\ \A i \in 1..k - 1 + 1 : SubSeq(t, 1, k)[i] = t[1 + i - 1]
    BY <1>1, <2>1, SubSeqProperties
  <2>3. k - 1 + 1 = k /\ \A i \in 1..k : 1 + i - 1 = i
    BY <1>1
  <2> HIDE DEF k
  <2> QED BY <1>1, <1>2, <1>3, <2>2, <2>3
<1>6. SubSeq(s, 1, k) = SubSeq(t, 1, k)
  <2> DEFINE u == SubSeq(s, 1, k)
             v == SubSeq(t, 1, k)
  <2>1. u \in Seq(Nat) /\ v \in Seq(Nat) /\ Len(u) = Len(v)
        /\ \A i \in 1..Len(u) : u[i] = v[i]
    BY <1>4, <1>5
  <2> HIDE DEF u, v
  <2>2. u = v
    BY <2>1, SeqEqual
  <2> QED BY <2>2 DEF u, v
<1> QED BY <1>1, <1>3, <1>6 DEF IsPrefix, t

LEMMA Room ==
  ASSUME NEW a \in Nat, NEW b \in Nat, NEW c \in Nat, a + b <= c
  PROVE  a <= c /\ (b # 0 => a < c)
OBVIOUS

LEMMA SentWhole ==
  ASSUME NEW e \in Ends, NEW s \in Stream, Consecutive(s, 0), Len(s) = sent[e]
  PROVE  s = AllSent(e)
BY ConsecutiveWhole DEF AllSent

(* Whatever breaks, each peer has received a prefix of what the other one   *)
(* sent: no byte is repeated, skipped or moved.                             *)
THEOREM StreamsInOrder == Spec => []InOrder
<1>1. RelayInv => InOrder
  <2> SUFFICES ASSUME RelayInv, NEW e \in Ends
               PROVE  IsPrefix(got[e], AllSent(Other(e)))
    BY DEF InOrder
  <2>1. /\ Consecutive(got[e], 0)
        /\ Written(e) <= sent[Other(e)]
    BY DEF RelayInv, Flow
  <2>2. /\ got[e] \in Stream
        /\ Len(got[e]) \in Nat /\ Len(tx[e]) \in Nat
        /\ sent[Other(e)] \in Nat
    BY Parts, Others DEF RelayInv
  <2>3. Len(got[e]) <= sent[Other(e)]
    <3>1. Len(got[e]) + Len(tx[e]) <= sent[Other(e)]
      BY <2>1 DEF Written
    <3>2. Len(got[e]) \in Nat /\ Len(tx[e]) \in Nat /\ sent[Other(e)] \in Nat
      BY <2>2
    <3> QED BY <3>1, <3>2, Room
  <2> QED BY <2>1, <2>2, <2>3, PrefixOfStream DEF AllSent
<1> QED BY <1>1, RelayInvariant, PTL

(* While both connections are up, what one peer sent is exactly what the    *)
(* other has received, followed by what the buffers and io.Copy hold.       *)
THEOREM NoByteLost == Spec => []NothingLost
<1>1. RelayInv => NothingLost
  <2> SUFFICES ASSUME RelayInv, NoReset, \A d \in Ends : conn[d] # "closed",
                      NEW e \in Ends
               PROVE  AllSent(Other(e)) = got[e] \o tx[e] \o hold[e] \o rx[Other(e)]
    BY DEF NothingLost
  <2> DEFINE src == Other(e)
             a == got[e] \o tx[e]
             b == a \o hold[e]
             c == b \o rx[src]
  <2>1. src \in Ends /\ Up(e) /\ Up(src)
    BY Others DEF NoReset, Up
  <2>2. /\ Consecutive(got[e], 0)
        /\ Consecutive(tx[e], Len(got[e]))
        /\ Consecutive(hold[e], Written(e))
        /\ Consecutive(rx[src], Taken(e))
        /\ Taken(e) + Len(rx[src]) = sent[src]
    BY <2>1 DEF RelayInv, Flow
  <2>3. /\ got[e] \in Stream /\ tx[e] \in Stream
        /\ hold[e] \in Stream /\ rx[src] \in Stream
        /\ Len(got[e]) \in Nat /\ Written(e) \in Nat /\ Taken(e) \in Nat
    BY <2>1, Parts DEF RelayInv
  <2>4. a \in Stream /\ Len(a) = Written(e) /\ Consecutive(a, 0)
    BY <2>2, <2>3, ConsecutiveConcat DEF Written
  <2> HIDE DEF a
  <2>5. b \in Stream /\ Len(b) = Taken(e) /\ Consecutive(b, 0)
    <3>1. Taken(e) = Len(a) + Len(hold[e])
      BY <2>4 DEF Taken
    <3>2. Consecutive(hold[e], 0 + Len(a))
      BY <2>2, <2>3, <2>4
    <3> QED BY <2>3, <2>4, <3>1, <3>2, ConsecutiveConcat
  <2> HIDE DEF b
  <2>6. c \in Stream /\ Len(c) = sent[src] /\ Consecutive(c, 0)
    BY <2>2, <2>3, <2>5, ConsecutiveConcat
  <2> HIDE DEF c, src
  <2>7. c = AllSent(src)
    BY <2>1, <2>6, SentWhole
  <2> QED BY <2>7 DEF a, b, c, src
<1> QED BY <1>1, RelayInvariant, PTL

(* closeWriteHalf shows EOF to a peer only behind the last byte the other   *)
(* one sent, however io.Copy cut the stream into chunks.                    *)
THEOREM NoEarlyEOF == Spec => []EOFIsLast
<1>1. RelayInv => EOFIsLast
  <2> SUFFICES ASSUME RelayInv, NoReset, NEW e \in Ends,
                      conn[e] = "half", conn[Other(e)] # "closed"
               PROVE  /\ peer[Other(e)] = "fin"
                      /\ got[e] \o tx[e] = AllSent(Other(e))
    BY DEF EOFIsLast
  <2> DEFINE src == Other(e)
             a == got[e] \o tx[e]
  <2>1. src \in Ends /\ Up(e) /\ Up(src)
    BY Others DEF NoReset, Up
  <2>2. pipe[e] \in {"term", "close", "done"}
    BY DEF RelayInv, Label
  <2>3. peer[src] = "fin" /\ rx[src] = <<>> /\ hold[e] = <<>>
    BY <2>1, <2>2 DEF RelayInv, Label
  <2>4. /\ Consecutive(got[e], 0)
        /\ Consecutive(tx[e], Len(got[e]))
        /\ Taken(e) + Len(rx[src]) = sent[src]
    BY <2>1 DEF RelayInv, Flow
  <2>5. /\ got[e] \in Stream /\ tx[e] \in Stream
        /\ Len(got[e]) \in Nat /\ Written(e) \in Nat /\ sent[src] \in Nat
    BY <2>1, Parts DEF RelayInv
  <2>6. Written(e) = sent[src]
    <3>1. Len(hold[e]) = 0 /\ Len(rx[src]) = 0
      BY <2>3, Empty
    <3>2. Written(e) + Len(hold[e]) + Len(rx[src]) = sent[src]
      BY <2>4 DEF Taken
    <3>3. Written(e) \in Nat /\ sent[src] \in Nat
      BY <2>5
    <3> QED BY <3>1, <3>2, <3>3
  <2>7. a \in Stream /\ Len(a) = Written(e) /\ Consecutive(a, 0)
    BY <2>4, <2>5, ConsecutiveConcat DEF Written
  <2> HIDE DEF a, src
  <2>8. a = AllSent(src)
    BY <2>1, <2>6, <2>7, SentWhole
  <2> QED BY <2>3, <2>8 DEF a, src
<1> QED BY <1>1, RelayInvariant, PTL

(* No connection stays open when handleConn is over, whoever won sync.Once. *)
THEOREM NoConnectionLeaks == Spec => []NoneLeftOpen
<1>1. RelayInv => NoneLeftOpen
  BY DEF RelayInv, OnceOK, NoneLeftOpen
<1> QED BY <1>1, RelayInvariant, PTL
-----------------------------------------------------------------------------
(* Relay implements Duplex                                                  *)

LEMMA InitRefines == Init => D!Init
BY DEF Init, D!Init, Ends, D!Ends

LEMMA StepRefines == RelayInv /\ [Next]_vars => [D!Next]_D!vars
<1> DEFINE Over == phase = "done" \/ \E d \in Ends : peer[d] # "open"
<1> SUFFICES ASSUME RelayInv, [Next]_vars
             PROVE  D!Next \/ UNCHANGED D!vars
  OBVIOUS
<1>1. ASSUME UNCHANGED <<phase, peer, sent, got>>
      PROVE  UNCHANGED D!vars
  BY <1>1 DEF D!vars
<1>2. CASE Dial
  BY <1>2 DEF Dial, D!vars
<1>3. CASE DialFails \/ Return
  <2>1. phase # "done" /\ phase' = "done" /\ UNCHANGED <<sent, got>>
    BY <1>3 DEF DialFails, Return
  <2>2. D!Close
    BY <2>1 DEF D!Close
  <2> QED BY <2>2 DEF D!Next
<1>4. ASSUME NEW e \in Ends, Pipe(e)
      PROVE  UNCHANGED D!vars
  <2>1. UNCHANGED <<phase, peer, sent, got>>
    BY <1>4 DEF Pipe, PipeRead, PipeEOF, PipeReadError, PipeWrite,
                PipeWriteError, closeWriteHalf, TerminateFirst,
                TerminateSecond, TerminateNothing
  <2> QED BY <1>1, <2>1
<1>5. ASSUME NEW e \in Ends, PeerSend(e)
      PROVE  D!Next
  <2>1. /\ conn[e] \notin {"none", "closed"}
        /\ sent' = [sent EXCEPT ![e] = @ + 1]
        /\ UNCHANGED <<phase, peer, got>>
    BY <1>5 DEF PeerSend
  <2>2. phase # "done"
    BY <2>1 DEF RelayInv, OnceOK
  <2>3. D!Send(e)
    BY <2>1, <2>2 DEF D!Send
  <2> QED BY <2>3 DEF D!Next, D!Ends, Ends
<1>6. ASSUME NEW e \in Ends, PeerFin(e) \/ PeerReset(e)
      PROVE  D!Next \/ UNCHANGED D!vars
  <2>1. /\ peer'[e] # "open"
        /\ UNCHANGED <<phase, sent, got>>
    BY <1>6 DEF PeerFin, PeerReset, RelayInv, TypeOK
  <2>2. CASE Over
    BY <2>1, <2>2, <1>6 DEF D!vars, PeerFin, PeerReset, RelayInv, TypeOK
  <2>3. CASE ~Over
    <3>1. D!Finish
      BY <2>1, <2>3 DEF D!Finish
    <3> QED BY <3>1 DEF D!Next
  <2> QED BY <2>2, <2>3
<1>7. ASSUME NEW e \in Ends, PeerRead(e)
      PROVE  D!Next
  <2>1. /\ got' = [got EXCEPT ![e] = Append(@, Head(tx[e]))]
        /\ tx[e] # <<>>
        /\ UNCHANGED <<phase, peer, sent>>
    BY <1>7 DEF PeerRead
  <2>2. Head(tx[e]) = Len(got[e]) + 1
    BY <1>7, PeerReadInv
  <2>3. /\ Len(got[e]) + Len(tx[e]) <= sent[Other(e)]
        /\ Len(got[e]) \in Nat /\ Len(tx[e]) \in Nat /\ sent[Other(e)] \in Nat
    BY Parts, Others DEF RelayInv, Flow, Written
  <2>4. Len(tx[e]) # 0
    <3>1. tx[e] \in Seq(1..MaxBytes)
      BY Parts DEF RelayInv, Stream
    <3> QED BY <2>1, <3>1, EmptySeq
  <2>5. Len(got[e]) < sent[Other(e)]
    BY <2>3, <2>4, Room
  <2>6. D!Deliver(e)
    BY <2>1, <2>2, <2>5 DEF D!Deliver, D!Other, Other
  <2> QED BY <2>6 DEF D!Next, D!Ends, Ends
<1>8. CASE UNCHANGED vars
  BY <1>1, <1>8 DEF vars
<1> QED BY <1>2, <1>3, <1>4, <1>5, <1>6, <1>7, <1>8 DEF Next, Handle, Peer

(* Every step of the relay is a step of the duplex connection, or invisible *)
(* to the peers.                                                            *)
THEOREM RelayRefinesDuplex == Spec => D!Spec
<1>1. Init => D!Init
  BY InitRefines
<1>2. RelayInv /\ [Next]_vars => [D!Next]_D!vars
  BY StepRefines
<1> QED BY <1>1, <1>2, RelayInvariant, PTL DEF Spec, D!Spec
=============================================================================
