-------------------------- MODULE TunnelRuleProofs --------------------------
(***************************************************************************)
(* The proof that a rule arrives at the tunnel's server (RulesAgree), for  *)
(* every number of callers, rules, addresses, connections and listeners.   *)
(* AgreeInv follows a rule from the client's table through the frames that *)
(* are written, in flight and handled to the session's table of listeners. *)
(***************************************************************************)
EXTENDS TunnelProofs

(* The frame that tells the server what the client has for a rule.          *)
Want(i) == IF rules[i] = Nil THEN Unregister(i) ELSE Register(i, rules[i])

(* The connection works: what one end writes the other will read.           *)
Working(k) == ~link[k].lost /\ link[k].server \in {"backlog", "open"}

(* Caller p is about to write a frame about rule i on the connection.       *)
Writing(p, i) == frame[p].conn = enc /\ frame[p].msg # Nil /\ frame[p].msg.id = i

(* The client will still write a frame about rule i.                        *)
Unsent(i) ==
  \/ run.pc = "snapshot" /\ rules[i] # Nil
  \/ run.todo[i] # Nil
  \/ \E p \in Callers : Writing(p, i)

(* s[n] is the last frame about rule i.                                     *)
Latest(s, n, i) ==
  n \in DOMAIN s /\ s[n].id = i /\ \A m \in DOMAIN s : m > n => s[m].id # i

Absent(s, i) == \A n \in DOMAIN s : s[n].id # i

Failed(i) == i \in told \/ \E n \in DOMAIN link[enc].s2c : link[enc].s2c[n].id = i

(* The server has for rule i what the client has, or it has said it failed. *)
Served(i) ==
  LET l == sess[enc].rules[i] IN
  IF rules[i] = Nil THEN l = Nil
  ELSE Failed(i) \/ (l # Nil /\ lsn[l].open /\ lsn[l].addr = rules[i])

Handling(i) == sess[enc].pc \in {"handle", "publish"} /\ sess[enc].msg.id = i

(* Nothing is left to write: the last frame in flight is the wanted one; if *)
(* there is none, the one that is handled is it, or the server has the rule.*)
Transit(i) ==
  /\ \A n \in DOMAIN link[enc].c2s :
       Latest(link[enc].c2s, n, i) => link[enc].c2s[n] = Want(i)
  /\ Absent(link[enc].c2s, i) =>
       IF Handling(i) THEN sess[enc].msg = Want(i) ELSE Served(i)

(* Rule i on its way: every frame still to be written is the wanted one.    *)
RuleOK(i) ==
  /\ \A p \in Callers : Writing(p, i) => frame[p].msg = Want(i)
  /\ run.todo[i] # Nil => run.todo[i] = rules[i]
  /\ ~Unsent(i) => Transit(i)

AgreeInv == enc # Nil /\ Working(enc) => \A i \in IDs \ raced : RuleOK(i)
-----------------------------------------------------------------------------
(* What does not touch a rule                                               *)

(* A working connection has both ends, and a session that is not over.      *)
LEMMA Live ==
  ASSUME BaseInv, enc # Nil, Working(enc)
  PROVE  /\ enc \in Conns /\ link[enc] \in Link /\ link[enc].client = "open"
         /\ link[enc].c2s \in Seq(Frame) /\ link[enc].s2c \in Seq(Frame)
         /\ sess[enc] \in SessionState /\ sess[enc].pc # "gone"
         /\ SessionOK(enc) /\ OwnersOK(enc)
         /\ \A i \in IDs : sess[enc].rules[i] \in Lsns \cup {Nil}
         /\ \A i \in IDs : sess[enc].rules[i] # Nil => /\ sess[enc].rules[i] \in Owned(enc)
                                                       /\ sess[enc].rules[i] \in Listeners(enc)
                                                       /\ lsn[sess[enc].rules[i]] # Nil
<1>1. TypeOK /\ enc \in Conns /\ link[enc].client = "open"
  BY Types DEF BaseInv, ClientOK
<1>2. /\ link[enc] \in Link /\ link[enc].c2s \in Seq(Frame) /\ link[enc].s2c \in Seq(Frame)
      /\ sess[enc] \in SessionState
  BY <1>1, LinkFields, Types
<1>3. SessionOK(enc) /\ OwnersOK(enc)
  BY <1>1 DEF BaseInv
<1>4. sess[enc].pc # "gone"
  BY <1>3 DEF SessionOK, Working
<1>5. \A i \in IDs : sess[enc].rules[i] \in Lsns \cup {Nil}
  BY <1>2 DEF SessionState
<1>6. ASSUME NEW i \in IDs, sess[enc].rules[i] # Nil
      PROVE  /\ sess[enc].rules[i] \in Owned(enc) /\ sess[enc].rules[i] \in Listeners(enc)
             /\ lsn[sess[enc].rules[i]] # Nil
  <2>1. sess[enc].rules[i] \in Owned(enc)
    BY <1>1, <1>6, OwnedIn
  <2> QED BY <1>3, <1>4, <1>6, <2>1 DEF OwnersOK, Listeners
<1> QED BY <1>1, <1>2, <1>3, <1>4, <1>5, <1>6

LEMMA ServedKept ==
  ASSUME NEW i \in IDs, rules'[i] = rules[i], enc' = enc, Failed(i) => Failed(i)',
         sess'[enc].rules[i] = sess[enc].rules[i],
         sess[enc].rules[i] # Nil => /\ lsn'[sess[enc].rules[i]].open = lsn[sess[enc].rules[i]].open
                                     /\ lsn'[sess[enc].rules[i]].addr = lsn[sess[enc].rules[i]].addr
  PROVE  Served(i) => Served(i)'
BY DEF Served

LEMMA TransitKept ==
  ASSUME NEW i \in IDs, rules'[i] = rules[i], enc' = enc, link'[enc].c2s = link[enc].c2s,
         Handling(i)' = Handling(i), Handling(i) => sess'[enc].msg = sess[enc].msg,
         Served(i) => Served(i)'
  PROVE  Transit(i) => Transit(i)'
BY DEF Transit, Want, Latest, Absent

(* A step that leaves the client's part of a rule as it is.                 *)
LEMMA RuleKept ==
  ASSUME NEW i \in IDs, RuleOK(i), rules'[i] = rules[i], UNCHANGED <<enc, run, frame>>,
         ~Unsent(i) /\ Transit(i) => Transit(i)'
  PROVE  RuleOK(i)'
BY DEF RuleOK, Unsent, Writing, Want

(* A step of another connection: it does not touch what this session has.   *)
LEMMA Elsewhere ==
  ASSUME BaseInv, AgreeInv, UNCHANGED client,
         enc # Nil => /\ link'[enc] = link[enc] \/ ~Working(enc)'
                      /\ sess'[enc] = sess[enc]
                      /\ sess[enc].pc # "gone" => \A l \in Listeners(enc) :
                           lsn'[l].open = lsn[l].open /\ lsn'[l].addr = lsn[l].addr
  PROVE  AgreeInv'
<1>1. UNCHANGED <<rules, enc, run, frame, told, raced>>
  BY DEF client
<1> SUFFICES ASSUME enc # Nil, Working(enc)', NEW i \in IDs \ raced
             PROVE  RuleOK(i)'
  BY <1>1 DEF AgreeInv
<1>2. link'[enc] = link[enc] /\ Working(enc) /\ sess'[enc] = sess[enc]
  BY <1>1 DEF Working
<1>3. RuleOK(i)
  BY <1>2 DEF AgreeInv
<1>4. sess[enc].rules[i] # Nil => /\ lsn'[sess[enc].rules[i]].open = lsn[sess[enc].rules[i]].open
                                  /\ lsn'[sess[enc].rules[i]].addr = lsn[sess[enc].rules[i]].addr
  BY <1>2, Live
<1>5. Failed(i) => Failed(i)'
  BY <1>1, <1>2 DEF Failed
<1>6. Served(i) => Served(i)'
  BY <1>1, <1>2, <1>4, <1>5, ServedKept
<1>7. Handling(i)' = Handling(i)
  BY <1>1, <1>2 DEF Handling
<1> QED BY <1>1, <1>2, <1>3, <1>6, <1>7, TransitKept, RuleKept

LEMMA OtherSession ==
  ASSUME BaseInv, AgreeInv, NEW k \in Conns, k # enc, UNCHANGED client, sess[k].pc # "gone",
         \A m \in Conns \ {k} : sess'[m] = sess[m] /\ link'[m] = link[m],
         \A l \in Lsns \ Owned(k) :
           lsn'[l] = lsn[l] \/ \A m \in Conns : sess[m].pc # "gone" => l \notin Owned(m)
  PROVE  AgreeInv'
<1>1. TypeOK
  BY DEF BaseInv
<1>2. enc # Nil => enc \in Conns \ {k}
  BY <1>1, Types
<1>3. ASSUME enc # Nil, sess[enc].pc # "gone", NEW l \in Listeners(enc)
      PROVE  lsn'[l] = lsn[l]
  <2>1. enc \in Conns /\ OwnersOK(enc) /\ l \in Owned(enc) /\ l \in Lsns
    BY <1>1, <1>2, <1>3, OwnedIn DEF BaseInv, Owned, Listeners
  <2>2. l \notin Owned(k)
    BY <1>2, <1>3, <2>1 DEF OwnersOK
  <2> QED BY <1>3, <2>1, <2>2
<1> QED BY <1>2, <1>3, Elsewhere

(* A step of the server on the client's own connection.                     *)
LEMMA OwnSession ==
  ASSUME BaseInv, AgreeInv, UNCHANGED client,
         enc # Nil /\ Working(enc)' => Working(enc),
         \A i \in IDs : enc # Nil /\ Working(enc) /\ Transit(i) => Transit(i)'
  PROVE  AgreeInv'
<1>1. UNCHANGED <<rules, enc, run, frame, told, raced>>
  BY DEF client
<1> SUFFICES ASSUME enc # Nil, Working(enc)', NEW i \in IDs \ raced
             PROVE  RuleOK(i)'
  BY <1>1 DEF AgreeInv
<1>2. Working(enc) /\ RuleOK(i)
  BY DEF AgreeInv
<1> QED BY <1>1, <1>2, RuleKept

(* The same with the frames and listeners as they are.                      *)
LEMMA OwnSessionQuiet ==
  ASSUME BaseInv, AgreeInv, UNCHANGED client,
         enc # Nil /\ Working(enc)' => Working(enc),
         enc # Nil /\ Working(enc) =>
           /\ link'[enc].c2s = link[enc].c2s /\ link'[enc].s2c = link[enc].s2c
           /\ sess'[enc].rules = sess[enc].rules
           /\ sess'[enc].pc \in {"handle", "publish"} <=> sess[enc].pc \in {"handle", "publish"}
           /\ sess[enc].pc \in {"handle", "publish"} => sess'[enc].msg = sess[enc].msg
           /\ \A l \in Listeners(enc) : lsn'[l].open = lsn[l].open /\ lsn'[l].addr = lsn[l].addr
  PROVE  AgreeInv'
<1>1. UNCHANGED <<rules, enc, told>>
  BY DEF client
<1>2. ASSUME NEW i \in IDs, enc # Nil, Working(enc) PROVE Transit(i) => Transit(i)'
  <2>1. Handling(i)' = Handling(i) /\ (Handling(i) => sess'[enc].msg = sess[enc].msg)
    BY <1>1, <1>2 DEF Handling
  <2>2. Failed(i) => Failed(i)'
    BY <1>1, <1>2 DEF Failed
  <2>3. sess[enc].rules[i] # Nil => /\ lsn'[sess[enc].rules[i]].open = lsn[sess[enc].rules[i]].open
                                    /\ lsn'[sess[enc].rules[i]].addr = lsn[sess[enc].rules[i]].addr
    BY <1>2, Live
  <2>4. Served(i) => Served(i)'
    BY <1>1, <1>2, <2>2, <2>3, ServedKept
  <2> QED BY <1>1, <1>2, <2>1, <2>4, TransitKept
<1> QED BY <1>2, OwnSession
-----------------------------------------------------------------------------
(* The session                                                              *)

LEMMA ReadAgree ==
  ASSUME BaseInv, AgreeInv, NEW k \in Conns, Read(k)
  PROVE  AgreeInv'
<1>1. /\ sess[k].pc = "read" /\ link[k].c2s # <<>> /\ link[k].server = "open"
      /\ sess' = [sess EXCEPT ![k].pc = "handle", ![k].msg = Head(link[k].c2s)]
      /\ link' = [link EXCEPT ![k].c2s = Tail(@)]
      /\ UNCHANGED <<client, lsn, srv>>
  BY DEF Read
<1>2. TypeOK /\ sess \in [Conns -> SessionState] /\ link \in [Conns -> Link]
  BY Types DEF BaseInv
<1>3. CASE k # enc
  BY <1>1, <1>2, <1>3, OtherSession
<1>4. CASE k = enc
  <2>1. /\ sess'[k].pc = "handle" /\ sess'[k].msg = Head(link[k].c2s)
        /\ sess'[k].rules = sess[k].rules
        /\ link'[k].c2s = Tail(link[k].c2s) /\ link'[k].s2c = link[k].s2c
        /\ link'[k].server = link[k].server /\ link'[k].lost = link[k].lost
    BY <1>1, <1>2 DEF SessionState, Link
  <2>2. UNCHANGED <<rules, enc, told, lsn>>
    BY <1>1 DEF client
  <2> DEFINE q == link[k].c2s
  <2>3. /\ q \in Seq(Frame) /\ q # <<>> /\ Head(q) = q[1] /\ 1 \in DOMAIN q
        /\ \A n \in DOMAIN Tail(q) : n \in Nat /\ n + 1 \in DOMAIN q /\ Tail(q)[n] = q[n + 1]
        /\ \A n \in DOMAIN q : n \in Nat /\ (n > 1 => n - 1 \in DOMAIN Tail(q) /\ Tail(q)[n - 1] = q[n])
        /\ \A n \in DOMAIN q : n >= 1
    BY <1>1, <1>2 DEF Link
  <2> HIDE DEF q
  <2>4. ASSUME NEW i \in IDs, enc # Nil, Working(enc), Transit(i) PROVE Transit(i)'
    <3>1. \A n \in DOMAIN q : Latest(q, n, i) => q[n] = Want(i)
      BY <1>4, <2>4 DEF Transit, q
    <3>2. ASSUME NEW n \in DOMAIN Tail(q), Latest(Tail(q), n, i) PROVE Tail(q)[n] = Want(i)
      <4>1. ASSUME NEW m \in DOMAIN q, m > n + 1 PROVE q[m].id # i
        <5>1. m - 1 \in DOMAIN Tail(q) /\ Tail(q)[m - 1] = q[m] /\ m - 1 > n
          BY <2>3, <4>1
        <5> QED BY <3>2, <5>1 DEF Latest
      <4>2. Latest(q, n + 1, i)
        BY <2>3, <3>2, <4>1 DEF Latest
      <4> QED BY <2>3, <3>1, <4>2
    <3>3. ASSUME Absent(Tail(q), i), q[1].id = i PROVE q[1] = Want(i)
      <4>1. ASSUME NEW m \in DOMAIN q, m > 1 PROVE q[m].id # i
        BY <2>3, <3>3, <4>1 DEF Absent
      <4>2. Latest(q, 1, i)
        BY <2>3, <3>3, <4>1 DEF Latest
      <4> QED BY <2>3, <3>1, <4>2
    <3>4. ASSUME Absent(Tail(q), i), q[1].id # i PROVE Served(i)'
      <4>1. ASSUME NEW m \in DOMAIN q PROVE q[m].id # i
        <5>1. CASE m = 1
          BY <3>4, <5>1
        <5>2. CASE m # 1
          BY <2>3, <3>4, <5>2 DEF Absent
        <5> QED BY <5>1, <5>2
      <4>2. Served(i)
        BY <1>1, <1>4, <2>4, <4>1 DEF Transit, Absent, Handling, q
      <4>3. Failed(i) => Failed(i)'
        BY <1>4, <2>1, <2>2 DEF Failed
      <4> QED BY <1>4, <2>1, <2>2, <4>2, <4>3, ServedKept
    <3>5. Want(i)' = Want(i) /\ (Handling(i)' <=> q[1].id = i) /\ link'[enc].c2s = Tail(q)
          /\ sess'[enc].msg = q[1]
      BY <1>4, <2>1, <2>2, <2>3 DEF Want, Handling, q
    <3>6. \A n \in DOMAIN Tail(q) : Latest(Tail(q), n, i) => Tail(q)[n] = Want(i)
      BY <3>2
    <3>7. Absent(Tail(q), i) => IF q[1].id = i THEN q[1] = Want(i) ELSE Served(i)'
      BY <3>3, <3>4
    <3>8. Absent(link[enc].c2s, i)' <=> Absent(Tail(q), i)
      BY <2>2, <3>5 DEF Absent
    <3>9. \A n : Latest(link[enc].c2s, n, i)' <=> Latest(Tail(q), n, i)
      BY <2>2, <3>5 DEF Latest
    <3> QED BY <2>2, <3>5, <3>6, <3>7, <3>8, <3>9 DEF Transit
  <2>5. Working(enc)' => Working(enc)
    BY <1>4, <2>1, <2>2 DEF Working
  <2> QED BY <1>1, <2>4, <2>5, OwnSession
<1> QED BY <1>3, <1>4

LEMMA ReadEndsAgree ==
  ASSUME BaseInv, AgreeInv, NEW k \in Conns, ReadFails(k) \/ Deadline(k)
  PROVE  AgreeInv'
<1>1. /\ sess[k].pc = "read" /\ sess' = [sess EXCEPT ![k].pc = "end"]
      /\ UNCHANGED <<client, link, lsn, srv>>
  BY DEF ReadFails, Deadline
<1>2. sess \in [Conns -> SessionState]
  BY Types DEF BaseInv
<1>3. CASE k # enc
  BY <1>1, <1>2, <1>3, OtherSession
<1>4. CASE k = enc
  <2>1. sess'[k].pc = "end" /\ sess'[k].rules = sess[k].rules
    BY <1>1, <1>2 DEF SessionState
  <2>2. Working(enc)' => Working(enc)
    BY <1>1 DEF Working, client
  <2> QED BY <1>1, <1>4, <2>1, <2>2, OwnSessionQuiet
<1> QED BY <1>3, <1>4

LEMMA RegisterListenAgree ==
  ASSUME BaseInv, AgreeInv, NEW k \in Conns, RegisterListen(k)
  PROVE  AgreeInv'
<1>1. PICK l \in Lsns :
        /\ FreeLsn(l)
        /\ lsn' = [lsn EXCEPT ![l] = [addr |-> sess[k].msg.listen, open |-> TRUE, loop |-> "none"]]
        /\ sess' = [sess EXCEPT ![k].pc = "publish", ![k].ln = l]
  BY DEF RegisterListen
<1>2. sess[k].pc = "handle" /\ UNCHANGED <<client, link, srv>>
  BY DEF RegisterListen
<1>3. TypeOK /\ sess \in [Conns -> SessionState] /\ lsn \in [Lsns -> Listener \cup {Nil}]
  BY Types DEF BaseInv
<1>4. /\ \A m \in Conns : sess[m].pc # "gone" => l \notin Owned(m)
      /\ \A j \in Lsns \ {l} : lsn'[j] = lsn[j]
  BY <1>1, <1>3 DEF FreeLsn, Owned
<1>5. CASE k # enc
  BY <1>1, <1>2, <1>3, <1>4, <1>5, OtherSession
<1>6. CASE k = enc
  <2>1. sess'[k].pc = "publish" /\ sess'[k].rules = sess[k].rules /\ sess'[k].msg = sess[k].msg
    BY <1>1, <1>3 DEF SessionState
  <2>2. Working(enc)' => Working(enc)
    BY <1>2 DEF Working, client
  <2>3. \A j \in Listeners(k) : lsn'[j] = lsn[j]
    BY <1>2, <1>3, <1>4, OwnedIn DEF Owned, Listeners
  <2> QED BY <1>2, <1>6, <2>1, <2>2, <2>3, OwnSessionQuiet
<1> QED BY <1>5, <1>6

LEMMA UnregisterEndsAgree ==
  ASSUME BaseInv, AgreeInv, NEW k \in Conns, UnregisterClose(k) \/ UnregisterWait(k)
  PROVE  AgreeInv'
<1>1. /\ sess[k].pc \in {"unclose", "unwait"} /\ UNCHANGED <<client, link, srv>>
  BY DEF UnregisterClose, UnregisterWait
<1>2. TypeOK /\ sess \in [Conns -> SessionState] /\ SessionOK(k) /\ OwnersOK(k)
  BY Types DEF BaseInv
<1>3. /\ sess'[k].pc \in {"unwait", "read"} /\ sess'[k].rules = sess[k].rules
      /\ \A m \in Conns \ {k} : sess'[m] = sess[m]
  BY <1>2 DEF UnregisterClose, UnregisterWait, SessionState
<1>4. sess[k].ln # Nil /\ sess[k].ln \in Owned(k) /\ sess[k].ln \in Lsns /\ lsn[sess[k].ln] # Nil
  BY <1>1, <1>2, OwnedIn DEF SessionOK, OwnersOK
<1>5. \A l \in Lsns \ {sess[k].ln} : lsn'[l] = lsn[l]
  BY <1>2, <1>4, ClosedListeners DEF UnregisterClose, UnregisterWait
<1>6. CASE k # enc
  BY <1>1, <1>3, <1>4, <1>5, <1>6, OtherSession
<1>7. CASE k = enc
  <2>1. \A l \in Listeners(k) : lsn'[l] = lsn[l]
    <3>1. \A l \in Listeners(k) : l \in Owned(k) /\ l \in Lsns
      BY <1>2, OwnedIn DEF Owned, Listeners
    <3>2. sess[k].ln \notin Listeners(k)
      BY <1>1, <1>2, <1>4 DEF OwnersOK
    <3> QED BY <1>5, <3>1, <3>2
  <2>2. Working(enc)' => Working(enc)
    BY <1>1 DEF Working, client
  <2> QED BY <1>1, <1>3, <1>7, <2>1, <2>2, OwnSessionQuiet
<1> QED BY <1>6, <1>7

(* The frame is handled.                                                    *)
LEMMA TransitServed ==
  ASSUME NEW i \in IDs, rules'[i] = rules[i], enc' = enc, link'[enc].c2s = link[enc].c2s,
         ~Handling(i)', Handling(i) /\ sess[enc].msg = Want(i) => Served(i)',
         ~Handling(i) /\ Served(i) => Served(i)'
  PROVE  Transit(i) => Transit(i)'
BY DEF Transit, Want, Latest, Absent

LEMMA RegisterFailsAgree ==
  ASSUME BaseInv, AgreeInv, NEW k \in Conns, RegisterFails(k)
  PROVE  AgreeInv'
<1>1. /\ sess[k].pc = "handle" /\ sess[k].msg.type = "register"
      /\ link' = ServerWrites(k, Error(sess[k].msg.id))
      /\ sess' = [sess EXCEPT ![k].pc = "read", ![k].msg = Nil]
      /\ UNCHANGED <<client, lsn, srv>>
  BY DEF RegisterFails
<1>2. TypeOK /\ sess \in [Conns -> SessionState] /\ SessionOK(k)
  BY Types DEF BaseInv
<1>3. sess[k].msg \in Request /\ sess[k].msg.id \in IDs
  BY <1>1, <1>2 DEF SessionOK, Request, Frame
<1>4. Error(sess[k].msg.id) \in Frame /\ Error(sess[k].msg.id).id = sess[k].msg.id
  BY <1>3 DEF Error, Frame
<1>5. /\ \A j \in Conns :
           /\ link'[j].client = link[j].client /\ link'[j].server = link[j].server
           /\ link'[j].lost = link[j].lost /\ link'[j].c2s = link[j].c2s
      /\ \A j \in Conns \ {k} : link'[j] = link[j]
      /\ link'[k].s2c = IF link[k].server = "open" /\ link[k].client = "open" /\ ~link[k].lost
                        THEN Append(link[k].s2c, Error(sess[k].msg.id)) ELSE link[k].s2c
  BY <1>1, <1>4, Answered
<1>6. /\ sess'[k].pc = "read" /\ sess'[k].rules = sess[k].rules
      /\ \A m \in Conns \ {k} : sess'[m] = sess[m]
  BY <1>1, <1>2 DEF SessionState
<1>7. CASE k # enc
  BY <1>1, <1>5, <1>6, <1>7, OtherSession
<1>8. CASE k = enc
  <2>1. UNCHANGED <<rules, enc, told, lsn>>
    BY <1>1 DEF client
  <2>2. ASSUME NEW i \in IDs, enc # Nil, Working(enc), Transit(i) PROVE Transit(i)'
    <3>1. link[k].server = "open" /\ link[k].client = "open" /\ ~link[k].lost /\ link[k].s2c \in Seq(Frame)
      BY <1>1, <1>2, <1>8, <2>2, Live DEF Working, SessionOK
    <3>2. link'[k].s2c = Append(link[k].s2c, Error(sess[k].msg.id))
      BY <1>5, <3>1
    <3>3. /\ \A n \in DOMAIN link[k].s2c : n \in DOMAIN link'[k].s2c /\ link'[k].s2c[n] = link[k].s2c[n]
          /\ Len(link[k].s2c) + 1 \in DOMAIN link'[k].s2c
          /\ link'[k].s2c[Len(link[k].s2c) + 1] = Error(sess[k].msg.id)
      BY <1>4, <3>1, <3>2
    <3>4. Failed(i) => Failed(i)'
      BY <1>8, <2>1, <3>3 DEF Failed
    <3>5. ~Handling(i)'
      BY <1>6, <1>8, <2>1 DEF Handling
    <3>6. ASSUME Handling(i), sess[enc].msg = Want(i) PROVE Served(i)'
      <4>1. Failed(i)'
        BY <1>4, <1>8, <2>1, <3>3, <3>6 DEF Failed, Handling
      <4>2. rules[i] # Nil
        BY <1>1, <1>8, <3>6 DEF Want, Unregister
      <4> QED BY <2>1, <4>1, <4>2 DEF Served
    <3>7. Served(i) => Served(i)'
      BY <1>6, <1>8, <2>1, <3>4, ServedKept
    <3> QED BY <1>5, <1>8, <2>1, <2>2, <3>5, <3>6, <3>7, TransitServed
  <2>3. Working(enc)' => Working(enc)
    BY <1>5, <1>8, <2>1 DEF Working
  <2> QED BY <1>1, <2>2, <2>3, OwnSession
<1> QED BY <1>7, <1>8

LEMMA RegisterPublishAgree ==
  ASSUME BaseInv, AgreeInv, NEW k \in Conns, RegisterPublish(k)
  PROVE  AgreeInv'
<1> DEFINE id == sess[k].msg.id
           l == sess[k].ln
           o == sess[k].rules[id]
<1>1. /\ sess[k].pc = "publish" /\ UNCHANGED <<client, link, srv>>
      /\ sess' = [sess EXCEPT ![k].rules[id] = l, ![k].pc = "read", ![k].msg = Nil, ![k].ln = Nil]
  BY DEF RegisterPublish
<1>2. TypeOK /\ sess \in [Conns -> SessionState] /\ OwnersOK(k)
  BY Types DEF BaseInv
<1>3. /\ l \in Owned(k) /\ l \in Lsns /\ id \in IDs /\ o \in Owned(k) \cup {Nil}
      /\ sess[k].msg.type = "register"
      /\ \A j \in Lsns \ {o, l} : lsn'[j] = lsn[j]
      /\ lsn'[l] # Nil /\ lsn'[l].open /\ lsn'[l].addr = sess[k].msg.listen
  BY Published
<1>4. \A i \in IDs : sess[k].rules[i] # l
  BY <1>1, <1>2, <1>3 DEF OwnersOK, Owned, Listeners
<1>5. \A i, j \in IDs : sess[k].rules[i] = sess[k].rules[j] /\ sess[k].rules[i] # Nil => i = j
  BY <1>1, <1>2 DEF OwnersOK
<1> HIDE DEF id, l, o
<1>6. /\ sess'[k].pc = "read" /\ \A m \in Conns \ {k} : sess'[m] = sess[m]
      /\ \A i \in IDs : sess'[k].rules[i] = IF i = id THEN l ELSE sess[k].rules[i]
  BY <1>1, <1>2, <1>3 DEF SessionState
<1>7. CASE k # enc
  <2>1. \A j \in Lsns \ Owned(k) : lsn'[j] = lsn[j]
    BY <1>3, NilApart
  <2> QED BY <1>1, <1>6, <1>7, <2>1, OtherSession
<1>8. CASE k = enc
  <2>1. UNCHANGED <<rules, enc, told, link>>
    BY <1>1 DEF client
  <2>2. ASSUME NEW i \in IDs, enc # Nil, Working(enc), Transit(i) PROVE Transit(i)'
    <3>1. ~Handling(i)'
      BY <1>6, <1>8, <2>1 DEF Handling
    <3>2. ASSUME Handling(i), sess[enc].msg = Want(i) PROVE Served(i)'
      <4>1. i = id
        BY <1>8, <3>2 DEF Handling, id
      <4>2. rules[i] # Nil /\ sess[k].msg.listen = rules[i]
        BY <1>3, <1>8, <3>2 DEF Want, Unregister, Register
      <4>3. l # Nil /\ sess'[k].rules[i] = l
        BY <1>3, <1>6, <4>1, NilApart
      <4> QED BY <1>3, <1>8, <2>1, <4>2, <4>3 DEF Served
    <3>3. ASSUME ~Handling(i), Served(i) PROVE Served(i)'
      <4>1. i # id
        BY <1>1, <1>8, <3>3 DEF Handling, id
      <4>2. sess'[k].rules[i] = sess[k].rules[i]
        BY <1>6, <4>1
      <4>3. sess[k].rules[i] # Nil => sess[k].rules[i] \in Lsns \ {o, l}
        BY <1>3, <1>4, <1>5, <1>8, <2>2, <4>1, Live DEF o
      <4>4. Failed(i) => Failed(i)'
        BY <2>1 DEF Failed
      <4> QED BY <1>3, <1>8, <2>1, <3>3, <4>2, <4>3, <4>4, ServedKept
    <3> QED BY <2>1, <2>2, <3>1, <3>2, <3>3, TransitServed
  <2>3. Working(enc)' => Working(enc)
    BY <2>1 DEF Working
  <2> QED BY <1>1, <2>2, <2>3, OwnSession
<1> QED BY <1>7, <1>8

LEMMA UnregisterDeleteAgree ==
  ASSUME BaseInv, AgreeInv, NEW k \in Conns, UnregisterDelete(k)
  PROVE  AgreeInv'
<1> DEFINE id == sess[k].msg.id
<1>1. /\ sess[k].pc = "handle" /\ sess[k].msg.type = "unregister"
      /\ UNCHANGED <<client, link, lsn, srv>>
      /\ sess' = [sess EXCEPT ![k].rules[id] = Nil,
                    ![k].pc = IF sess[k].rules[id] = Nil THEN "read" ELSE "unclose",
                    ![k].ln = sess[k].rules[id], ![k].msg = Nil]
  BY DEF UnregisterDelete
<1>2. TypeOK /\ sess \in [Conns -> SessionState] /\ SessionOK(k)
  BY Types DEF BaseInv
<1>3. id \in IDs
  BY <1>1, <1>2 DEF SessionOK, Request, Frame
<1> HIDE DEF id
<1>4. /\ sess'[k].pc = (IF sess[k].rules[id] = Nil THEN "read" ELSE "unclose")
      /\ \A i \in IDs : sess'[k].rules[i] = IF i = id THEN Nil ELSE sess[k].rules[i]
      /\ \A m \in Conns \ {k} : sess'[m] = sess[m]
  BY <1>1, <1>2, <1>3 DEF SessionState
<1>5. sess'[k].pc \notin {"handle", "publish"}
  BY <1>4
<1>6. CASE k # enc
  <2>1. sess[k].pc # "gone" /\ \A m \in Conns \ {k} : sess'[m] = sess[m] /\ link'[m] = link[m]
    BY <1>1, <1>4
  <2> QED BY <1>1, <1>6, <2>1, OtherSession
<1>7. CASE k = enc
  <2>1. UNCHANGED <<rules, enc, told, link, lsn>>
    BY <1>1 DEF client
  <2>2. ASSUME NEW i \in IDs, enc # Nil, Working(enc), Transit(i) PROVE Transit(i)'
    <3>1. ~Handling(i)'
      BY <1>5, <1>7, <2>1 DEF Handling
    <3>2. ASSUME Handling(i), sess[enc].msg = Want(i) PROVE Served(i)'
      <4>1. i = id
        BY <1>7, <3>2 DEF Handling, id
      <4>2. rules[i] = Nil
        BY <1>1, <1>7, <3>2 DEF Want, Register
      <4>3. sess'[k].rules[i] = Nil
        BY <1>4, <4>1
      <4> QED BY <1>7, <2>1, <4>2, <4>3 DEF Served
    <3>3. ASSUME ~Handling(i), Served(i) PROVE Served(i)'
      <4>1. i # id
        BY <1>1, <1>7, <3>3 DEF Handling, id
      <4>2. sess'[k].rules[i] = sess[k].rules[i]
        BY <1>4, <4>1
      <4>3. Failed(i) => Failed(i)'
        BY <2>1 DEF Failed
      <4> QED BY <1>7, <2>1, <3>3, <4>2, <4>3, ServedKept
    <3> QED BY <2>1, <2>2, <3>1, <3>2, <3>3, TransitServed
  <2>3. Working(enc)' => Working(enc)
    BY <2>1 DEF Working
  <2> QED BY <1>1, <2>2, <2>3, OwnSession
<1> QED BY <1>6, <1>7

(* A session is closed: its connection no longer works.                     *)
LEMMA CloseAgree ==
  ASSUME BaseInv, AgreeInv, NEW k \in Conns, SessionEnd(k) \/ CloseSession(k)
  PROVE  AgreeInv'
<1>1. close(k) /\ UNCHANGED client /\ ServerOK /\ TypeOK /\ OwnersOK(k)
  BY DEF BaseInv, SessionEnd, CloseSession
<1>2. sess[k].pc = "gone" => sess[k].closed
  BY <1>1 DEF SessionEnd, CloseSession, ServerOK
<1>3. /\ link'[k].server = "closed" /\ \A m \in Conns \ {k} : link'[m] = link[m]
      /\ \A l \in Lsns \ Listeners(k) : lsn'[l] = lsn[l]
      /\ sess[k].pc = "gone" => lsn' = lsn
  BY <1>1, <1>2, CloseEffect
<1>4. \A m \in Conns \ {k} : sess'[m] = sess[m]
  BY Types DEF BaseInv, SessionEnd, CloseSession
<1>5. CASE k = enc
  <2>1. ~Working(enc)'
    BY <1>1, <1>3, <1>5 DEF Working, client
  <2> QED BY <2>1 DEF AgreeInv
<1>6. CASE k # enc /\ sess[k].pc # "gone"
  <2>1. \A l \in Lsns \ Owned(k) : lsn'[l] = lsn[l]
    BY <1>3, NilApart DEF Owned, Listeners
  <2> QED BY <1>1, <1>3, <1>4, <1>6, <2>1, OtherSession
<1>7. CASE k # enc /\ sess[k].pc = "gone"
  <2>1. enc # Nil => enc \in Conns \ {k}
    BY <1>1, <1>7, Types
  <2> QED BY <1>1, <1>3, <1>4, <1>7, <2>1, Elsewhere
<1> QED BY <1>5, <1>6, <1>7

LEMMA SessionAgree ==
  ASSUME BaseInv, AgreeInv, NEW k \in Conns, Session(k)
  PROVE  AgreeInv'
BY ReadAgree, ReadEndsAgree, RegisterListenAgree, RegisterFailsAgree, RegisterPublishAgree,
   UnregisterDeleteAgree, UnregisterEndsAgree, CloseAgree DEF Session
-----------------------------------------------------------------------------
(* The rest of the server, and the network                                  *)

LEMMA AcceptPublicEndsAgree ==
  ASSUME BaseInv, AgreeInv, NEW l \in Lsns, acceptPublicEnds(l)
  PROVE  AgreeInv'
<1>1. /\ lsn[l] # Nil /\ lsn' = [lsn EXCEPT ![l].loop = "done"]
      /\ UNCHANGED <<client, link, sess, srv>>
  BY DEF acceptPublicEnds
<1>2. lsn \in [Lsns -> Listener \cup {Nil}] /\ lsn[l] \in Listener
  BY <1>1, Types DEF BaseInv
<1>3. \A j \in Lsns : lsn'[j].open = lsn[j].open /\ lsn'[j].addr = lsn[j].addr
  BY <1>1, <1>2 DEF Listener
<1>4. ASSUME enc # Nil PROVE \A j \in Listeners(enc) : j \in Lsns
  BY <1>4, Types, OwnedIn DEF BaseInv, Owned, Listeners
<1> QED BY <1>1, <1>3, <1>4, Elsewhere

(* Serve accepts a connection and starts its session.                       *)
LEMMA ServeAgree ==
  ASSUME BaseInv, AgreeInv, Serve
  PROVE  AgreeInv'
<1>1. TypeOK /\ ServerOK /\ sess \in [Conns -> SessionState] /\ link \in [Conns -> Link]
  BY Types DEF BaseInv
<1>2. CASE \E k \in Conns : Accept(k)
  <2>1. PICK k \in Conns : Accept(k)
    BY <1>2
  <2>2. /\ link[k].server = "backlog" /\ link' = [link EXCEPT ![k].server = "open"]
        /\ UNCHANGED <<client, sess, lsn>>
    BY <2>1 DEF Accept
  <2>3. UNCHANGED enc
    BY <2>2 DEF client
  <2>4. \A m \in Conns : /\ link'[m].c2s = link[m].c2s /\ link'[m].s2c = link[m].s2c
                         /\ link'[m].lost = link[m].lost
                         /\ link'[m].server \in {"backlog", "open"} => link[m].server \in {"backlog", "open"}
    BY <1>1, <2>2 DEF Link
  <2>5. enc # Nil => enc \in Conns
    BY <1>1, Types
  <2>6. enc # Nil /\ Working(enc)' => Working(enc)
    BY <2>3, <2>4, <2>5 DEF Working
  <2> QED BY <2>2, <2>4, <2>5, <2>6, OwnSessionQuiet
<1>3. CASE AcceptInsert
  <2>1. PICK k \in Conns : k = srv.conn /\ sess[k].pc = "none"
    BY <1>1, <1>3 DEF AcceptInsert, ServerOK
  <2>2. /\ sess' = [sess EXCEPT ![k] = [NoSession EXCEPT !.pc = "read"]]
        /\ UNCHANGED <<client, link, lsn>>
    BY <1>3, <2>1 DEF AcceptInsert
  <2>3. sess[k] = NoSession
    BY <2>1 DEF BaseInv, SessionOK
  <2>4. \A m \in Conns :
          /\ sess'[m].rules = sess[m].rules
          /\ sess'[m].pc \in {"handle", "publish"} <=> sess[m].pc \in {"handle", "publish"}
          /\ sess[m].pc \in {"handle", "publish"} => sess'[m].msg = sess[m].msg
    BY <1>1, <2>2, <2>3 DEF NoSession
  <2>5. enc # Nil => enc \in Conns
    BY <1>1, Types
  <2>6. enc # Nil /\ Working(enc)' => Working(enc)
    BY <2>2 DEF Working, client
  <2> QED BY <2>2, <2>4, <2>5, <2>6, OwnSessionQuiet
<1>4. CASE AcceptFails
  BY <1>4, Elsewhere DEF AcceptFails
<1> QED BY <1>2, <1>3, <1>4 DEF Serve

LEMMA ServerCloseAgree ==
  ASSUME BaseInv, AgreeInv, Close
  PROVE  AgreeInv'
<1>1. CASE CloseBegin
  <2>1. /\ UNCHANGED <<client, sess, lsn>>
        /\ link' = [k \in Conns |-> IF link[k].server = "backlog"
                                    THEN [link[k] EXCEPT !.server = "closed"] ELSE link[k]]
    BY <1>1 DEF CloseBegin
  <2>2. TypeOK /\ link \in [Conns -> Link] /\ (enc # Nil => enc \in Conns) /\ enc' = enc
    BY <2>1, Types DEF BaseInv, client
  <2>3. ASSUME enc # Nil PROVE link'[enc] = link[enc] \/ ~Working(enc)'
    <3>1. CASE link[enc].server = "backlog"
      <4>1. link[enc] \in Link /\ link'[enc] = [link[enc] EXCEPT !.server = "closed"]
        BY <2>1, <2>2, <2>3, <3>1
      <4>2. link'[enc].server = "closed"
        BY <4>1 DEF Link
      <4> QED BY <2>2, <4>2 DEF Working
    <3>2. CASE link[enc].server # "backlog"
      BY <2>1, <2>2, <2>3, <3>2
    <3> QED BY <3>1, <3>2
  <2> QED BY <2>1, <2>3, Elsewhere
<1>2. CASE CloseSnapshot \/ CloseEnd
  BY <1>2, Elsewhere DEF CloseSnapshot, CloseEnd
<1>3. CASE \E k \in Conns : CloseSession(k)
  BY <1>3, CloseAgree
<1> QED BY <1>1, <1>2, <1>3 DEF Close

(* The loss of the client's connection, and a crash of the server, end what *)
(* the connection promises.                                                 *)
LEMMA FailureAgree ==
  ASSUME BaseInv, AgreeInv, Crash \/ \E k \in Conns : Lose(k)
  PROVE  AgreeInv'
<1>1. TypeOK /\ link \in [Conns -> Link] /\ (enc # Nil => enc \in Conns)
  BY Types DEF BaseInv
<1>2. CASE Crash
  <2>1. enc' = enc
    BY <1>2 DEF Crash, client
  <2>2. \A k \in Conns : link'[k].server = "closed"
    BY <1>1, <1>2 DEF Crash, Link
  <2>3. enc # Nil => ~Working(enc)'
    BY <1>1, <2>1, <2>2 DEF Working
  <2> QED BY <2>1, <2>3 DEF AgreeInv
<1>3. CASE \E k \in Conns : Lose(k)
  <2>1. PICK k \in Conns : Lose(k)
    BY <1>3
  <2>2. /\ link' = [link EXCEPT ![k].lost = TRUE, ![k].c2s = <<>>, ![k].s2c = <<>>]
        /\ UNCHANGED <<client, server>>
    BY <2>1 DEF Lose
  <2>3. UNCHANGED <<enc, sess, lsn>>
    BY <2>2 DEF client, server
  <2>4. link'[k].lost /\ \A m \in Conns \ {k} : link'[m] = link[m]
    BY <1>1, <2>2 DEF Link
  <2>5. enc # Nil => link'[enc] = link[enc] \/ ~Working(enc)'
    BY <1>1, <2>3, <2>4 DEF Working
  <2> QED BY <2>2, <2>3, <2>5, Elsewhere
<1> QED BY <1>2, <1>3
-----------------------------------------------------------------------------
(* The client                                                               *)

(* A step of the client that writes nothing and changes no rule.            *)
LEMMA QuietClientAgree ==
  ASSUME BaseInv, AgreeInv, Cancel \/ RunStops \/ ConnectFails \/ RunServe
  PROVE  AgreeInv'
<1>1. TypeOK /\ ClientOK
  BY DEF BaseInv
<1>2. UNCHANGED <<rules, enc, frame, told, raced, link, server>>
  BY DEF Cancel, RunStops, ConnectFails, RunServe
<1>3. UNCHANGED <<sess, lsn>>
  BY <1>2 DEF server
<1> SUFFICES ASSUME enc # Nil, Working(enc), NEW i \in IDs \ raced
             PROVE  RuleOK(i)'
  BY <1>2 DEF AgreeInv, Working
<1>4. RuleOK(i)
  BY DEF AgreeInv
<1>5. /\ run'.todo = run.todo
      /\ run'.pc = "snapshot" <=> run.pc = "snapshot"
  BY <1>1 DEF Cancel, RunStops, ConnectFails, RunServe, TypeOK, ClientOK
<1>6. Unsent(i)' = Unsent(i)
  BY <1>2, <1>5 DEF Unsent, Writing
<1>7. Transit(i)' = Transit(i)
  BY <1>2, <1>3 DEF Transit, Want, Latest, Absent, Handling, Served, Failed
<1> QED BY <1>2, <1>4, <1>5, <1>6, <1>7 DEF RuleOK, Writing, Want

LEMMA RunSnapshotAgree ==
  ASSUME BaseInv, AgreeInv, RunSnapshot
  PROVE  AgreeInv'
<1>1. TypeOK /\ ClientOK
  BY DEF BaseInv
<1>2. /\ run.pc = "snapshot" /\ run' = [pc |-> "send", todo |-> rules]
      /\ UNCHANGED <<rules, enc, frame, told, raced, link, server>>
  BY DEF RunSnapshot
<1>3. UNCHANGED <<sess, lsn>>
  BY <1>2 DEF server
<1> SUFFICES ASSUME enc # Nil, Working(enc), NEW i \in IDs \ raced
             PROVE  RuleOK(i)'
  BY <1>2 DEF AgreeInv, Working
<1>4. RuleOK(i)
  BY DEF AgreeInv
<1>5. run'.pc = "send" /\ run'.todo[i] = rules[i] /\ run.todo[i] = Nil
  BY <1>1, <1>2 DEF ClientOK
<1>6. Unsent(i)' = Unsent(i)
  BY <1>2, <1>5 DEF Unsent, Writing
<1>7. Transit(i)' = Transit(i)
  BY <1>2, <1>3 DEF Transit, Want, Latest, Absent, Handling, Served, Failed
<1> QED BY <1>2, <1>4, <1>5, <1>6, <1>7 DEF RuleOK, Writing, Want

LEMMA RunEOFAgree ==
  ASSUME RunEOF
  PROVE  AgreeInv'
BY DEF RunEOF, AgreeInv

(* An error frame is read: what it says is remembered in told.              *)
LEMMA RunReadAgree ==
  ASSUME BaseInv, AgreeInv, RunRead
  PROVE  AgreeInv'
<1>1. /\ run.pc = "serve" /\ link[enc].s2c # <<>> /\ link' = [link EXCEPT ![enc].s2c = Tail(@)]
      /\ told' = IF rules[Head(link[enc].s2c).id] # Nil
                 THEN told \cup {Head(link[enc].s2c).id} ELSE told
      /\ UNCHANGED <<rules, enc, run, frame, raced, server>>
  BY DEF RunRead
<1>2. TypeOK /\ enc \in Conns /\ link \in [Conns -> Link] /\ link[enc].s2c \in Seq(Frame)
  BY <1>1, Types, LinkFields DEF BaseInv, ClientOK
<1>3. UNCHANGED <<sess, lsn>>
  BY <1>1 DEF server
<1>4. /\ link'[enc].c2s = link[enc].c2s /\ link'[enc].s2c = Tail(link[enc].s2c)
      /\ link'[enc].server = link[enc].server /\ link'[enc].lost = link[enc].lost
  BY <1>1, <1>2 DEF Link
<1> SUFFICES ASSUME enc # Nil, Working(enc), NEW i \in IDs \ raced
             PROVE  RuleOK(i)'
  BY <1>1, <1>4 DEF AgreeInv, Working
<1>5. RuleOK(i)
  BY DEF AgreeInv
<1> DEFINE q == link[enc].s2c
<1>6. /\ q # <<>> /\ Head(q) = q[1]
      /\ \A n \in DOMAIN q : n # 1 => n - 1 \in DOMAIN Tail(q) /\ Tail(q)[n - 1] = q[n]
  BY <1>1, <1>2
<1>7. rules[i] # Nil /\ Failed(i) => Failed(i)'
  <2> SUFFICES ASSUME rules[i] # Nil, i \notin told, NEW n \in DOMAIN q, q[n].id = i
               PROVE  Failed(i)'
    BY <1>1 DEF Failed
  <2>1. CASE n = 1
    BY <1>1, <1>6, <2>1 DEF Failed
  <2>2. CASE n # 1
    <3>1. enc' = enc /\ link'[enc].s2c = Tail(q)
      BY <1>1, <1>4
    <3>2. n - 1 \in DOMAIN Tail(q) /\ Tail(q)[n - 1].id = i
      BY <1>6, <2>2
    <3> QED BY <3>1, <3>2 DEF Failed
  <2> QED BY <2>1, <2>2
<1>8. Served(i) => Served(i)'
  BY <1>1, <1>3, <1>7 DEF Served
<1>9. Handling(i)' = Handling(i) /\ sess'[enc].msg = sess[enc].msg
  BY <1>1, <1>3 DEF Handling
<1> QED BY <1>1, <1>4, <1>5, <1>8, <1>9, TransitKept, RuleKept

(* The client writes a frame: about rule i it is the wanted one.            *)
LEMMA TransitSent ==
  ASSUME BaseInv, enc # Nil, Working(enc), NEW m \in Request, NEW i \in IDs,
         link' = ClientWrites(enc, m), UNCHANGED <<rules, enc, told, sess, lsn>>,
         m.id = i => m = Want(i), m.id # i => Transit(i)
  PROVE  Transit(i)'
<1> DEFINE q == link[enc].c2s
<1>1. enc \in Conns /\ q \in Seq(Frame) /\ link[enc].client = "open" /\ m \in Frame
  BY Live, Requests
<1>2. link'[enc].c2s = Append(q, m) /\ link'[enc].s2c = link[enc].s2c
  BY <1>1, Written DEF Working
<1>3. /\ DOMAIN Append(q, m) = 1..(Len(q) + 1) /\ DOMAIN q = 1..Len(q) /\ Len(q) \in Nat
      /\ Append(q, m)[Len(q) + 1] = m /\ \A n \in 1..Len(q) : Append(q, m)[n] = q[n]
  BY <1>1
<1>4. Want(i)' = Want(i) /\ Handling(i)' = Handling(i) /\ Served(i)' = Served(i)
      /\ sess'[enc].msg = sess[enc].msg
  BY <1>2 DEF Want, Handling, Served, Failed
<1>5. \A n : Latest(link[enc].c2s, n, i)' <=> Latest(Append(q, m), n, i)
  BY <1>2 DEF Latest
<1>6. Absent(link[enc].c2s, i)' <=> Absent(Append(q, m), i)
  BY <1>2 DEF Absent
<1> HIDE DEF q
<1>7. CASE m.id = i
  <2>1. \A n \in DOMAIN Append(q, m) : Latest(Append(q, m), n, i) => n = Len(q) + 1
    BY <1>3, <1>7 DEF Latest
  <2>2. ~Absent(Append(q, m), i)
    BY <1>3, <1>7 DEF Absent
  <2> QED BY <1>2, <1>3, <1>4, <1>5, <1>6, <1>7, <2>1, <2>2 DEF Transit
<1>8. CASE m.id # i
  <2>1. ASSUME NEW n \in DOMAIN Append(q, m), Latest(Append(q, m), n, i)
        PROVE  Append(q, m)[n] = Want(i)
    <3>1. n \in 1..Len(q) /\ Append(q, m)[n] = q[n]
      BY <1>3, <1>8, <2>1 DEF Latest
    <3>2. Latest(q, n, i)
      BY <1>3, <2>1, <3>1 DEF Latest
    <3> QED BY <1>3, <1>8, <3>1, <3>2 DEF Transit, q
  <2>2. Absent(Append(q, m), i) => Absent(q, i)
    BY <1>3 DEF Absent
  <2>3. Absent(q, i) => IF Handling(i) THEN sess[enc].msg = Want(i) ELSE Served(i)
    BY <1>8 DEF Transit, q
  <2> QED BY <1>2, <1>4, <1>5, <1>6, <2>1, <2>2, <2>3 DEF Transit
<1> QED BY <1>7, <1>8

LEMMA SendAgree ==
  ASSUME BaseInv, AgreeInv, NEW p \in Callers, Send(p)
  PROVE  AgreeInv'
<1> DEFINE m == frame[p].msg
<1>1. /\ link' = ClientWrites(frame[p].conn, m) /\ frame' = [frame EXCEPT ![p] = Idle]
      /\ UNCHANGED <<rules, enc, run, told, raced, server>>
  BY DEF Send
<1>2. frame[p].conn \in Conns /\ m \in Request /\ TypeOK
  BY DEF BaseInv, FrameOK, Send
<1>3. /\ \A j \in Conns : link'[j].server = link[j].server /\ link'[j].lost = link[j].lost
      /\ \A j \in Conns \ {frame[p].conn} : link'[j] = link[j]
  BY <1>1, <1>2, Written
<1> SUFFICES ASSUME enc # Nil, Working(enc), NEW i \in IDs \ raced
             PROVE  RuleOK(i)'
  <2>1. enc # Nil => enc \in Conns
    BY <1>2, Types
  <2> QED BY <1>1, <1>3, <2>1 DEF AgreeInv, Working
<1>4. RuleOK(i) /\ enc \in Conns
  BY <1>2, Types DEF AgreeInv
<1>5. frame'[p] = Idle /\ \A r \in Callers \ {p} : frame'[r] = frame[r]
  BY <1>1, <1>2, Types
<1>6. \A r \in Callers : Writing(r, i)' <=> r # p /\ Writing(r, i)
  BY <1>1, <1>5 DEF Writing, Idle
<1>7. UNCHANGED <<sess, lsn>> /\ Want(i)' = Want(i)
  BY <1>1 DEF server, Want
<1>8. ASSUME ~Unsent(i)' PROVE Transit(i)'
  <2>1. CASE Writing(p, i)
    <3>1. m = Want(i) /\ frame[p].conn = enc /\ m.id = i
      BY <1>4, <2>1 DEF RuleOK, Writing
    <3> HIDE DEF m
    <3> QED BY <1>1, <1>2, <1>7, <3>1, TransitSent
  <2>2. CASE ~Writing(p, i)
    <3>1. ~Unsent(i)
      BY <1>1, <1>6, <1>8, <2>2 DEF Unsent
    <3>2. Transit(i)
      BY <1>4, <3>1 DEF RuleOK
    <3>3. CASE frame[p].conn = enc
      <4>1. m.id # i
        BY <1>2, <2>2, <3>3, NilApart DEF Writing
      <4> HIDE DEF m
      <4> QED BY <1>1, <1>2, <1>7, <3>2, <3>3, <4>1, TransitSent
    <3>4. CASE frame[p].conn # enc
      <4>1. link'[enc] = link[enc]
        BY <1>3, <1>4, <3>4
      <4> QED BY <1>1, <1>7, <3>2, <4>1 DEF Transit, Want, Latest, Absent, Handling, Served, Failed
    <3> QED BY <3>3, <3>4
  <2> QED BY <2>1, <2>2
<1>9. \A r \in Callers : Writing(r, i)' => frame'[r].msg = Want(i)'
  BY <1>4, <1>5, <1>6, <1>7 DEF RuleOK
<1> QED BY <1>1, <1>4, <1>8, <1>9 DEF RuleOK

LEMMA RunSendAgree ==
  ASSUME BaseInv, AgreeInv, NEW id \in IDs, RunSend(id)
  PROVE  AgreeInv'
<1> DEFINE m == Register(id, run.todo[id])
<1>1. /\ link' = ClientWrites(enc, m) /\ run' = [run EXCEPT !.todo[id] = Nil]
      /\ run.pc = "send" /\ run.todo[id] # Nil
      /\ UNCHANGED <<rules, enc, frame, told, raced, server>>
  BY DEF RunSend
<1>2. TypeOK /\ run.todo[id] \in Addrs /\ (enc # Nil => enc \in Conns)
  BY <1>1, Types DEF BaseInv
<1>3. m \in Request /\ m.id = id
  BY <1>2, Requests
<1>4. enc # Nil => link'[enc].server = link[enc].server /\ link'[enc].lost = link[enc].lost
  BY <1>1, <1>2, <1>3, Written
<1> SUFFICES ASSUME enc # Nil, Working(enc), NEW i \in IDs \ raced
             PROVE  RuleOK(i)'
  BY <1>1, <1>4 DEF AgreeInv, Working
<1>5. RuleOK(i)
  BY DEF AgreeInv
<1>6. run'.pc = run.pc /\ run'.todo[i] = IF i = id THEN Nil ELSE run.todo[i]
  BY <1>1, <1>2 DEF TypeOK
<1>7. UNCHANGED <<sess, lsn>> /\ Want(i)' = Want(i) /\ \A r \in Callers : Writing(r, i)' = Writing(r, i)
  BY <1>1 DEF server, Want, Writing
<1>8. ASSUME ~Unsent(i)' PROVE Transit(i)'
  <2>1. CASE i = id
    <3>1. m = Want(i)
      BY <1>1, <1>5, <2>1 DEF RuleOK, Want
    <3> HIDE DEF m
    <3> QED BY <1>1, <1>3, <1>7, <2>1, <3>1, TransitSent
  <2>2. CASE i # id
    <3>1. ~Unsent(i)
      BY <1>1, <1>6, <1>7, <1>8, <2>2 DEF Unsent
    <3>2. Transit(i)
      BY <1>5, <3>1 DEF RuleOK
    <3> HIDE DEF m
    <3> QED BY <1>1, <1>3, <1>7, <2>2, <3>2, TransitSent
  <2> QED BY <2>1, <2>2
<1> QED BY <1>1, <1>5, <1>6, <1>7, <1>8 DEF RuleOK

(* A new connection has nothing in flight; Run is about to take a snapshot. *)
LEMMA ConnectAgree ==
  ASSUME BaseInv, Connect
  PROVE  AgreeInv'
<1>1. TypeOK /\ ClientOK /\ link \in [Conns -> Link] /\ sess \in [Conns -> SessionState]
  BY Types DEF BaseInv
<1>2. PICK k \in Conns :
        /\ FreeConn(k) /\ sess' = [sess EXCEPT ![k] = NoSession] /\ enc' = k
        /\ link' = [link EXCEPT ![k] = [NoLink EXCEPT !.client = "open", !.server = "backlog"]]
  BY DEF Connect
<1>3. /\ run.pc = "top" /\ run' = [run EXCEPT !.pc = "snapshot"] /\ UNCHANGED <<rules, frame>>
  BY DEF Connect
<1>4. /\ link'[k].c2s = <<>> /\ sess'[k] = NoSession
      /\ run'.pc = "snapshot" /\ run'.todo = run.todo
  BY <1>1, <1>2, <1>3 DEF NoLink, TypeOK
<1> SUFFICES ASSUME NEW i \in IDs PROVE RuleOK(i)'
  BY DEF AgreeInv
<1>5. run'.todo[i] = Nil /\ \A p \in Callers : ~Writing(p, i)'
  BY <1>1, <1>2, <1>3, <1>4 DEF ClientOK, Writing, FreeConn
<1>6. ASSUME rules[i] = Nil PROVE Transit(i)'
  <2>1. DOMAIN link'[enc'].c2s = {}
    BY <1>2, <1>4
  <2>2. ~Handling(i)' /\ Served(i)'
    BY <1>2, <1>3, <1>4, <1>6, NoSessionFields DEF Handling, Served
  <2> QED BY <2>1, <2>2 DEF Transit
<1> QED BY <1>3, <1>4, <1>5, <1>6 DEF RuleOK, Unsent

(* Add or Remove: the frame about the rule is the wanted one, and nothing   *)
(* else about it is still to be written, or the rule is raced.              *)
LEMMA ChangeAgree ==
  ASSUME BaseInv, AgreeInv, NEW p \in Callers, NEW id \in IDs, NEW a \in Addrs \cup {Nil},
         NEW m \in Request, m = (IF a = Nil THEN Unregister(id) ELSE Register(id, a)),
         m.id = id, Change(p, id, a, m)
  PROVE  AgreeInv'
<1>1. /\ frame[p] = Idle /\ rules' = [rules EXCEPT ![id] = a] /\ told' = told \ {id}
      /\ frame' = IF enc = Nil THEN frame ELSE [frame EXCEPT ![p] = [conn |-> enc, msg |-> m]]
      /\ raced' = IF Sending(id) THEN raced \cup {id} ELSE raced
      /\ UNCHANGED <<enc, run, link, server>>
  BY DEF Change
<1>2. TypeOK /\ m # Nil /\ UNCHANGED <<sess, lsn>>
  BY <1>1, NilApart DEF BaseInv, server
<1> SUFFICES ASSUME enc # Nil, Working(enc), NEW i \in IDs \ raced'
             PROVE  RuleOK(i)'
  BY <1>1 DEF AgreeInv, Working
<1>3. /\ frame'[p] = [conn |-> enc, msg |-> m]
      /\ \A r \in Callers \ {p} : frame'[r] = frame[r]
  BY <1>1, <1>2, Types
<1>4. CASE i = id
  <2>1. ~Sending(id)
    BY <1>1, <1>4
  <2>2. rules'[i] = a /\ m = Want(i)' /\ run'.todo[i] = Nil
    BY <1>1, <1>2, <1>4, <2>1, Types DEF Want, Sending
  <2>3. ASSUME NEW r \in Callers, Writing(r, i)' PROVE frame'[r].msg = Want(i)'
    <3>1. CASE r = p
      BY <1>3, <2>2, <3>1
    <3>2. CASE r # p
      BY <1>3, <1>4, <2>1, <2>3, <3>2 DEF Writing, Sending
    <3> QED BY <3>1, <3>2
  <2>4. Unsent(i)'
    <3>1. Writing(p, i)'
      BY <1>1, <1>2, <1>3, <1>4 DEF Writing
    <3> QED BY <3>1 DEF Unsent
  <2> QED BY <2>2, <2>3, <2>4 DEF RuleOK
<1>5. CASE i # id
  <2>1. RuleOK(i) /\ rules'[i] = rules[i]
    BY <1>1, <1>2, <1>5, Types DEF AgreeInv
  <2>2. \A r \in Callers : /\ Writing(r, i)' <=> Writing(r, i)
                           /\ Writing(r, i)' => frame'[r] = frame[r]
    BY <1>1, <1>3, <1>5 DEF Writing, Idle
  <2>3. Want(i)' = Want(i) /\ Unsent(i)' = Unsent(i)
    BY <1>1, <2>1, <2>2 DEF Want, Unsent
  <2>4. Failed(i)' = Failed(i)
    BY <1>1, <1>5 DEF Failed
  <2>5. Served(i)' = Served(i) /\ Handling(i)' = Handling(i)
    BY <1>1, <1>2, <2>1, <2>4 DEF Served, Handling
  <2>6. Transit(i)' = Transit(i)
    BY <1>1, <1>2, <2>3, <2>5 DEF Transit, Latest, Absent
  <2> QED BY <1>1, <2>1, <2>2, <2>3, <2>6 DEF RuleOK
<1> QED BY <1>4, <1>5

LEMMA CallAgree ==
  ASSUME BaseInv, AgreeInv, NEW p \in Callers, Call(p)
  PROVE  AgreeInv'
<1>1. PICK i \in IDs : Add(p, i) \/ Remove(p, i)
  BY DEF Call
<1>2. CASE Add(p, i)
  <2>1. PICK a \in Addrs : Change(p, i, a, Register(i, a))
    BY <1>2 DEF Add
  <2>2. a # Nil /\ Register(i, a) \in Request /\ Register(i, a).id = i
    BY NilApart, Requests
  <2> QED BY <2>1, <2>2, ChangeAgree
<1>3. CASE Remove(p, i)
  BY <1>3, Requests, ChangeAgree DEF Remove
<1> QED BY <1>1, <1>2, <1>3
-----------------------------------------------------------------------------
LEMMA NextAgree ==
  ASSUME BaseInv, AgreeInv, [Next]_vars
  PROVE  AgreeInv'
<1>1. CASE \E p \in Callers : Call(p) \/ Send(p)
  BY <1>1, CallAgree, SendAgree
<1>2. CASE Run
  BY <1>2, QuietClientAgree, ConnectAgree, RunSnapshotAgree, RunSendAgree, RunReadAgree, RunEOFAgree DEF Run
<1>3. CASE Serve \/ Close
  BY <1>3, ServeAgree, ServerCloseAgree
<1>4. CASE Cancel \/ Crash \/ \E k \in Conns : Lose(k)
  BY <1>4, QuietClientAgree, FailureAgree
<1>5. CASE \E k \in Conns : Session(k)
  BY <1>5, SessionAgree
<1>6. CASE \E l \in Lsns : acceptPublicEnds(l)
  BY <1>6, AcceptPublicEndsAgree
<1>7. CASE UNCHANGED vars
  BY <1>7, Elsewhere DEF vars, server
<1> QED BY <1>1, <1>2, <1>3, <1>4, <1>5, <1>6, <1>7 DEF Next

(* Every rule that was not changed while a frame about it was unsent is on  *)
(* its way: what is left to write, in flight or handled ends with what the  *)
(* client wants, or the server has it already (Change, Send, RunSend, the   *)
(* session's handlers).                                                     *)
THEOREM AgreeInvariant == Spec => [](BaseInv /\ AgreeInv)
<1>1. Init => AgreeInv
  BY DEF Init, AgreeInv
<1>2. BaseInv /\ AgreeInv /\ [Next]_vars => AgreeInv'
  BY NextAgree
<1> QED BY <1>1, <1>2, BaseInvariant, PTL DEF Spec

(* Once everything the client has to say about a rule was said and handled, *)
(* the server has its public port open exactly as the client has the rule,  *)
(* or the client was told that it failed; through reconnects, crashes and   *)
(* calls at any time (Add, Remove, Run, register, unregister).              *)
THEOREM RulesArrive == Spec => []RulesAgree
<1>1. BaseInv /\ AgreeInv => RulesAgree
  <2> SUFFICES ASSUME BaseInv, AgreeInv, NEW i \in IDs, Settled(i)
               PROVE  LET l == sess[enc].rules[i] IN
                      IF rules[i] = Nil THEN l = Nil
                      ELSE i \in told \/ (l # Nil /\ lsn[l].open /\ lsn[l].addr = rules[i])
    BY DEF RulesAgree
  <2>1. enc # Nil /\ Working(enc) /\ i \notin raced
    BY DEF Settled, Working, BaseInv, ClientOK
  <2>2. RuleOK(i)
    BY <2>1 DEF AgreeInv
  <2>3. ~Unsent(i)
    BY DEF Settled, Sending, Unsent, Writing
  <2>4. Transit(i) /\ ~Handling(i) /\ Absent(link[enc].c2s, i)
    BY <2>2, <2>3 DEF RuleOK, Settled, Handling, Absent
  <2>5. Served(i)
    BY <2>4 DEF Transit
  <2>6. Failed(i) => i \in told
    BY DEF Settled, Failed
  <2> QED BY <2>5, <2>6 DEF Served
<1> QED BY <1>1, AgreeInvariant, PTL
=============================================================================
