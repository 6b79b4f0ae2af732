--------------------------- MODULE RoutingProofs ---------------------------
(***************************************************************************)
(* OSPF flooding and the neighbour state machine, for every area, every    *)
(* number of packets, originations and restarts, and every sequence of     *)
(* neighbour events; and BGP peerings, for every pair of speakers and      *)
(* every number of events.                                                 *)
(*                                                                         *)
(* Flooding rests on two facts.  The modular comparison of sequence        *)
(* numbers is the order of origination, so that no database goes back.     *)
(* And while nothing is lost, of two adjacent routers either the second is *)
(* as far as the first, or what the first holds is on its way to it, or an *)
(* older instance is on its way to the first, which will answer with its   *)
(* own (Linked).                                                           *)
(*                                                                         *)
(* The decision process of BGP is one pass over the routes of a prefix,    *)
(* each compared with the one that stands so far.  With one route per      *)
(* source (RibInv) and comparable MEDs the comparison is a strict total    *)
(* order, so that what stands after n routes beats all n (Standing), and   *)
(* the route elected by elimination is the only one that does.             *)
(***************************************************************************)
EXTENDS Ospf, Bgp, SequenceTheorems, WellFoundedInduction, TLAPS

\* a, which a router may hold, is at least as recent as b.
NotBehind(a, b) == b = NoLsa \/ (a # NoLsa /\ AtLeast(a, b))

Typed ==
    /\ db \in [Routers -> Lsas \cup {NoLsa}]
    /\ packets \subseteq [from : Routers, to : Routers, lsa : Lsas]
    /\ first \in FirstSeqs

\* A packet travels between neighbours, and its sender has not gone behind it.
Backed == \A m \in packets : m.to \in Adjacent(m.from) /\ NotBehind(db[m.from], m.lsa)

Linked(r, s) ==
    \/ NotBehind(db[s], db[r])
    \/ \E m \in packets : m.from = r /\ m.to = s /\ m.lsa = db[r]
    \/ \E m \in packets : m.from = s /\ m.to = r /\ ~NotBehind(m.lsa, db[r])

FloodInv ==
    /\ Typed
    /\ Backed
    /\ lossless => \A r \in Routers : \A s \in Adjacent(r) : Linked(r, s)

-----------------------------------------------------------------------------

\* The types of the fields of an LSA.
LEMMA Fields ==
    ASSUME FloodConstants, NEW x \in Lsas
    PROVE  x.n \in Int /\ x.checksum \in Int /\ x.maxAge \in BOOLEAN
<1>1. Checksums \subseteq Nat /\ MaxSerial \in Nat
  BY DEF FloodConstants
<1>2. x.n \in 0..MaxSerial /\ x.checksum \in Checksums
  BY DEF Lsas
<1>3. x.maxAge \in BOOLEAN
  BY DEF Lsas
<1>4. x.n \in Int
  BY <1>1, <1>2
<1>5. x.checksum \in Nat
  BY <1>1, <1>2
<1>6. x.checksum \in Int
  BY <1>5
<1> QED BY <1>3, <1>4, <1>6

\* While the numbers in use lie within half of the range, their modular
\* difference is the true one.
LEMMA SeqDiff ==
    ASSUME FloodConstants, first \in FirstSeqs, NEW a \in Lsas, NEW b \in Lsas
    PROVE  /\ sequence_number(a) = first + a.n /\ sequence_number(b) = first + b.n
           /\ seq_diff(sequence_number(a), sequence_number(b)) = a.n - b.n
<1>1. /\ SeqSpan \in Nat /\ MaxSerial \in Nat /\ MaxSerial <= SeqSpan \div 2
      /\ first \in Nat /\ first + MaxSerial < 2 * SeqSpan
      /\ a.n \in 0..MaxSerial /\ b.n \in 0..MaxSerial
  BY DEF FloodConstants, Lsas
<1>2. \A x, m \in Nat : x < m => x % m = x
  OBVIOUS
<1>3. /\ 2 * SeqSpan \in Nat /\ first + a.n \in Nat /\ first + b.n \in Nat
      /\ first + a.n < 2 * SeqSpan /\ first + b.n < 2 * SeqSpan
  BY <1>1
<1>4. (first + a.n) % (2 * SeqSpan) = first + a.n /\ (first + b.n) % (2 * SeqSpan) = first + b.n
  BY <1>2, <1>3
<1>5. sequence_number(a) = first + a.n /\ sequence_number(b) = first + b.n
  BY <1>4 DEF sequence_number
<1>6. SeqSpan \div 2 \in Nat
  BY <1>1
<1> QED BY <1>1, <1>5, <1>6 DEF seq_diff

\* The comparison of the code is the order of origination, MaxAge and checksum.
LEMMA CompareIsOrder ==
    ASSUME FloodConstants, first \in FirstSeqs, NEW a \in Lsas, NEW b \in Lsas
    PROVE  /\ compare_lsa(a, b) = "Equal" <=> a = b
           /\ compare_lsa(a, b) = "Newer" <=> AtLeast(a, b) /\ a # b
           /\ compare_lsa(a, b) = "Older" <=> ~AtLeast(a, b)
<1>1. /\ a.n \in Int /\ b.n \in Int /\ first \in Int
      /\ a.checksum \in Int /\ b.checksum \in Int
      /\ a.maxAge \in BOOLEAN /\ b.maxAge \in BOOLEAN
  <2>1. first \in Int
    BY DEF FloodConstants
  <2> QED BY <2>1, Fields
<1>2. a = b <=> a.n = b.n /\ a.maxAge = b.maxAge /\ a.checksum = b.checksum
  BY DEF Lsas
<1>3. sequence_number(a) = sequence_number(b) <=> a.n = b.n
  BY <1>1, SeqDiff
<1>4. seq_diff(sequence_number(a), sequence_number(b)) > 0 <=> a.n > b.n
  BY <1>1, SeqDiff
<1> QED BY <1>1, <1>2, <1>3, <1>4 DEF compare_lsa, AtLeast

\* The order is total.
LEMMA Order ==
    ASSUME FloodConstants, NEW a \in Lsas \cup {NoLsa}, NEW b \in Lsas \cup {NoLsa}, NEW c \in Lsas \cup {NoLsa}
    PROVE  /\ NoLsa \notin Lsas
           /\ NotBehind(a, a)
           /\ NotBehind(a, b) \/ NotBehind(b, a)
           /\ NotBehind(a, b) /\ NotBehind(b, c) => NotBehind(a, c)
           /\ NotBehind(a, b) /\ NotBehind(b, a) => a = b
<1>1. NoLsa \notin Lsas
  BY DEF NoLsa, Lsas
<1>2. \A x \in Lsas : x.n \in Int /\ x.checksum \in Int /\ x.maxAge \in BOOLEAN
  BY Fields
<1>3. \A x, y \in Lsas : x.n = y.n /\ x.maxAge = y.maxAge /\ x.checksum = y.checksum => x = y
  BY DEF Lsas
<1> QED BY <1>1, <1>2, <1>3 DEF NotBehind, AtLeast

\* What receive answers, in terms of the order.
LEMMA ReceiveSays ==
    ASSUME FloodConstants, Typed, NEW r \in Routers, NEW lsa \in Lsas
    PROVE  \/ receive(r, lsa) = "InstallAndFlood" /\ NotBehind(lsa, db[r])
           \/ receive(r, lsa) = "Duplicate" /\ lsa = db[r]
           \/ receive(r, lsa) = "Reject" /\ ~NotBehind(lsa, db[r]) /\ db[r] \in Lsas
<1>1. db[r] \in Lsas \cup {NoLsa} /\ first \in FirstSeqs
  BY DEF Typed
<1>2. NoLsa \notin Lsas
  BY <1>1, Order
<1>3. CASE db[r] = NoLsa
  BY <1>3 DEF receive, NotBehind
<1>4. CASE db[r] # NoLsa
  <2>1. db[r] \in Lsas
    BY <1>1, <1>4
  <2>2. compare_lsa(lsa, db[r]) \in {"Equal", "Newer", "Older"}
    BY DEF compare_lsa
  <2> QED BY <1>1, <1>2, <1>4, <2>1, <2>2, CompareIsOrder DEF receive, NotBehind
<1> QED BY <1>3, <1>4

-----------------------------------------------------------------------------
\* What is flooded: one packet to each of the neighbours meant.
LEMMA FloodedIs ==
    ASSUME NEW r \in Routers, NEW to \in SUBSET Routers, NEW lsa \in Lsas
    PROVE  /\ Flooded(r, to, lsa) \subseteq [from : Routers, to : Routers, lsa : Lsas]
           /\ \A m \in Flooded(r, to, lsa) : m.from = r /\ m.to \in to /\ m.lsa = lsa
           /\ \A s \in to : \E m \in Flooded(r, to, lsa) : m.from = r /\ m.to = s /\ m.lsa = lsa
<1>1. \A s \in to : [from |-> r, to |-> s, lsa |-> lsa] \in Flooded(r, to, lsa)
  BY DEF Flooded
<1>2. \A s \in to : \E m \in Flooded(r, to, lsa) : m.from = r /\ m.to = s /\ m.lsa = lsa
  BY <1>1
<1>3. /\ Flooded(r, to, lsa) \subseteq [from : Routers, to : Routers, lsa : Lsas]
      /\ \A m \in Flooded(r, to, lsa) : m.from = r /\ m.to \in to /\ m.lsa = lsa
  BY DEF Flooded
<1> QED BY <1>2, <1>3

\* What the originator installs links it to all its neighbours again: each of
\* them is told, and one that is ahead of it will answer.
LEMMA InstallKeeps ==
    ASSUME FloodConstants, FloodInv, NEW lsa \in Lsas, NEW underWay, Install(lsa, underWay),
           \/ underWay = packets /\ NotBehind(lsa, db[Origin])
           \/ underWay = {m \in packets : Origin \notin {m.from, m.to}}
    PROVE  FloodInv'
<1> USE DEF FloodInv
<1>1. /\ db' = [db EXCEPT ![Origin] = lsa] /\ UNCHANGED <<first, lossless>>
      /\ packets' = underWay \cup Flooded(Origin, Adjacent(Origin), lsa)
      /\ Origin \in Routers /\ underWay \subseteq packets
  BY DEF Install, Send, FloodConstants
<1> DEFINE new == Flooded(Origin, Adjacent(Origin), lsa)
<1>0. /\ new \subseteq [from : Routers, to : Routers, lsa : Lsas]
      /\ \A m \in new : m.from = Origin /\ m.to \in Adjacent(Origin) /\ m.lsa = lsa
      /\ \A s \in Adjacent(Origin) : \E m \in new : m.from = Origin /\ m.to = s /\ m.lsa = lsa
  <2>1. Adjacent(Origin) \in SUBSET Routers
    BY DEF Adjacent
  <2> QED BY <1>1, <2>1, FloodedIs
<1> HIDE DEF new
<1>2. Typed'
  BY <1>0, <1>1 DEF Typed, new
<1>3. \A r \in Routers : db[r] \in Lsas \cup {NoLsa} /\ db'[r] = IF r = Origin THEN lsa ELSE db[r]
  BY <1>1 DEF Typed
<1>4. \A m \in packets : m.from \in Routers /\ m.to \in Routers /\ m.lsa \in Lsas
  BY DEF Typed
<1>5. packets' = underWay \cup new
  BY <1>1 DEF new
<1>6. \A s \in Adjacent(Origin) :
        \E m \in packets' : m.from = Origin /\ m.to = s /\ m.lsa = lsa
  BY <1>0, <1>5
<1>7. Backed'
  <2> SUFFICES ASSUME NEW m \in packets'
               PROVE  m.to \in Adjacent(m.from) /\ NotBehind(db'[m.from], m.lsa)
    BY DEF Backed, NotBehind, AtLeast, Adjacent, NoLsa
  <2>1. CASE m \in new
    BY <2>1, <1>0, <1>1, <1>3, Order
  <2>2. CASE m \in underWay
    <3>1. m \in packets /\ m.to \in Adjacent(m.from) /\ NotBehind(db[m.from], m.lsa)
      BY <2>2, <1>1 DEF Backed
    <3>2. CASE m.from # Origin
      BY <3>1, <3>2, <1>3, <1>4
    <3>3. CASE m.from = Origin
      <4>1. NotBehind(lsa, db[Origin])
        BY <2>2, <3>3
      <4> QED BY <4>1, <3>1, <3>3, <1>1, <1>3, <1>4, Order
    <3> QED BY <3>2, <3>3
  <2> QED BY <2>1, <2>2, <1>5
<1>8. ASSUME lossless', NEW r \in Routers, NEW s \in Adjacent(r)
      PROVE  Linked(r, s)'
  <2>1. s \in Routers /\ r \in Adjacent(s) /\ Linked(r, s)
    BY <1>1, <1>8 DEF Adjacent
  <2>2. CASE r = Origin
    BY <2>2, <1>1, <1>3, <1>6 DEF Linked
  <2>3. CASE r # Origin /\ s = Origin
    <3>1. CASE NotBehind(lsa, db[r])
      BY <3>1, <2>3, <1>1, <1>3 DEF Linked, NotBehind
    <3>2. CASE ~NotBehind(lsa, db[r])
      <4>1. PICK m \in packets' : m.from = s /\ m.to = r /\ m.lsa = lsa
        BY <2>1, <2>3, <1>6
      <4>2. ~NotBehind(m.lsa, db'[r])
        BY <4>1, <3>2, <2>3, <1>3
      <4> QED BY <4>1, <4>2 DEF Linked, NotBehind, AtLeast, NoLsa
    <3> QED BY <3>1, <3>2
  <2>4. CASE r # Origin /\ s # Origin
    <3>1. db'[r] = db[r] /\ db'[s] = db[s]
      BY <2>1, <2>4, <1>3
    <3>2. \A m \in packets : m.from \in {r, s} /\ m.to \in {r, s} => m \in packets'
      BY <2>4, <1>1
    <3> QED BY <2>1, <3>1, <3>2 DEF Linked, NotBehind, AtLeast, NoLsa
  <2> QED BY <2>2, <2>3, <2>4
<1> QED BY <1>2, <1>7, <1>8, <1>1 DEF Adjacent

\* A received packet: the receiver catches up with the sender, or was not
\* behind it, or answers with what it holds.
LEMMA ReceiveKeeps ==
    ASSUME FloodConstants, FloodInv, NEW p \in packets, NEW again \in BOOLEAN, Receive(p, again)
    PROVE  FloodInv'
<1> USE DEF FloodInv
<1> DEFINE t == p.to
           f == p.from
           left == IF again THEN packets ELSE packets \ {p}
<1>1. /\ t \in Routers /\ f \in Routers /\ p.lsa \in Lsas
      /\ t \in Adjacent(f) /\ f \in Adjacent(t) /\ NotBehind(db[f], p.lsa)
      /\ \A m \in packets : m.from \in Routers /\ m.to \in Routers /\ m.lsa \in Lsas
      /\ \A r \in Routers : db[r] \in Lsas \cup {NoLsa}
      /\ DOMAIN db = Routers
  BY DEF Typed, Backed, Adjacent
<1>2. UNCHANGED <<first, lossless>> /\ left \subseteq packets /\ packets \ left \subseteq {p}
  BY DEF Receive
<1>3. \A r \in Routers : \A s \in Adjacent(r) : s \in Routers /\ r \in Adjacent(s)
  BY DEF Adjacent
<1>4. CASE receive(t, p.lsa) = "InstallAndFlood" /\ NotBehind(p.lsa, db[t])
  <2> DEFINE new == Flooded(t, Adjacent(t) \ {f}, p.lsa)
  <2>1. db' = [db EXCEPT ![t] = p.lsa] /\ packets' = left \cup new
    BY <1>4 DEF Receive, Send
  <2>2. /\ new \subseteq [from : Routers, to : Routers, lsa : Lsas]
        /\ \A m \in new : m.from = t /\ m.to \in Adjacent(t) /\ m.lsa = p.lsa
        /\ \A s \in Adjacent(t) \ {f} : \E m \in new : m.from = t /\ m.to = s /\ m.lsa = p.lsa
    <3>1. Adjacent(t) \ {f} \in SUBSET Routers
      BY DEF Adjacent
    <3> QED BY <1>1, <3>1, FloodedIs
  <2> HIDE DEF t, f, left, new
  <2>3. \A r \in Routers : db'[r] = IF r = t THEN p.lsa ELSE db[r]
    BY <2>1, <1>1
  <2>4. Typed'
    BY <1>1, <1>2, <2>1, <2>2 DEF Typed
  <2>5. Backed'
    <3> SUFFICES ASSUME NEW m \in packets'
                 PROVE  m.to \in Adjacent(m.from) /\ NotBehind(db'[m.from], m.lsa)
      BY DEF Backed, NotBehind, AtLeast, Adjacent, NoLsa
    <3>1. CASE m \in new
      BY <3>1, <2>2, <2>3, <1>1, Order
    <3>2. CASE m \in left
      <4>1. m \in packets /\ m.to \in Adjacent(m.from) /\ NotBehind(db[m.from], m.lsa)
        BY <3>2, <1>2 DEF Backed
      <4> QED BY <4>1, <1>1, <1>4, <2>3, Order DEF t
    <3> QED BY <3>1, <3>2, <2>1
  <2>6. ASSUME lossless', NEW r \in Routers, NEW s \in Adjacent(r)
        PROVE  Linked(r, s)'
    <3>1. s \in Routers /\ r \in Adjacent(s) /\ Linked(r, s)
      BY <1>2, <1>3, <2>6
    <3> DEFINE ok == \/ NotBehind(db'[s], db'[r])
                     \/ \E m \in packets' : m.from = r /\ m.to = s /\ m.lsa = db'[r]
                     \/ \E m \in packets' : m.from = s /\ m.to = r /\ ~NotBehind(m.lsa, db'[r])
    <3> SUFFICES ok
      BY DEF Linked, NotBehind, AtLeast, NoLsa
    <3>2. CASE r = t /\ s = f
      <4>1. NotBehind(db'[f], p.lsa)
        BY <2>3, <1>1, Order
      <4> QED BY <3>2, <4>1, <2>3, <1>1
    <3>3. CASE r = t /\ s # f
      BY <3>3, <2>1, <2>2, <2>3, <1>1
    <3>4. CASE r # t
      <4>1. db'[r] = db[r] /\ (s # t => db'[s] = db[s])
        BY <3>1, <3>4, <2>3
      <4>2. CASE NotBehind(db[s], db[r])
        BY <4>1, <4>2, <3>1, <1>1, <1>4, <2>3, Order DEF t
      <4>3. CASE \E m \in packets : m.from = r /\ m.to = s /\ m.lsa = db[r]
        <5>1. PICK m \in packets : m.from = r /\ m.to = s /\ m.lsa = db[r]
          BY <4>3
        <5>2. CASE m \in left
          BY <5>1, <5>2, <4>1, <2>1
        <5>3. CASE m = p
          <6>1. s = t /\ db'[s] = db[r]
            BY <5>1, <5>3, <3>1, <2>3 DEF t
          <6> QED BY <6>1, <4>1, <1>1, Order
        <5> QED BY <5>2, <5>3, <1>2
      <4>4. CASE \E m \in packets : m.from = s /\ m.to = r /\ ~NotBehind(m.lsa, db[r])
        <5>1. PICK m \in packets : m.from = s /\ m.to = r /\ ~NotBehind(m.lsa, db[r])
          BY <4>4
        <5>2. m \in packets'
          BY <5>1, <3>4, <1>2, <2>1 DEF t
        <5> QED BY <5>1, <5>2, <4>1
      <4> QED BY <4>2, <4>3, <4>4, <3>1 DEF Linked
    <3> QED BY <3>2, <3>3, <3>4
  <2> QED BY <2>4, <2>5, <2>6, <1>2 DEF Adjacent
<1>5. CASE /\ receive(t, p.lsa) # "InstallAndFlood"
           /\ \/ receive(t, p.lsa) = "Duplicate" /\ p.lsa = db[t]
              \/ receive(t, p.lsa) = "Reject" /\ ~NotBehind(p.lsa, db[t]) /\ db[t] \in Lsas
  <2> DEFINE new == IF receive(t, p.lsa) = "Duplicate" THEN {} ELSE Flooded(t, {f}, db[t])
  <2>1. db' = db /\ packets' = left \cup new
    BY <1>5 DEF Receive, Send
  <2>2. /\ new \subseteq [from : Routers, to : Routers, lsa : Lsas]
        /\ \A m \in new : m.from = t /\ m.to = f /\ m.lsa = db[t]
        /\ p.lsa # db[t] => \E m \in new : m.from = t /\ m.to = f /\ m.lsa = db[t]
    <3>1. CASE receive(t, p.lsa) = "Duplicate"
      BY <3>1, <1>5
    <3>2. CASE receive(t, p.lsa) = "Reject"
      <4>1. {f} \in SUBSET Routers
        BY <1>1
      <4> QED BY <1>1, <1>5, <3>2, <4>1, FloodedIs
    <3> QED BY <3>1, <3>2, <1>5
  <2>3. NotBehind(db[t], p.lsa)
    BY <1>1, <1>5, Order
  <2> HIDE DEF t, f, left, new
  <2>4. Typed'
    BY <1>1, <1>2, <2>1, <2>2 DEF Typed
  <2>5. Backed'
    <3> SUFFICES ASSUME NEW m \in packets'
                 PROVE  m.to \in Adjacent(m.from) /\ NotBehind(db[m.from], m.lsa)
      BY <2>1 DEF Backed, NotBehind, AtLeast, Adjacent, NoLsa
    <3>1. CASE m \in new
      BY <3>1, <2>2, <1>1, Order
    <3>2. CASE m \in left
      BY <3>2, <1>2 DEF Backed
    <3> QED BY <3>1, <3>2, <2>1
  <2>6. ASSUME lossless', NEW r \in Routers, NEW s \in Adjacent(r)
        PROVE  Linked(r, s)'
    <3>1. s \in Routers /\ r \in Adjacent(s) /\ Linked(r, s)
      BY <1>2, <1>3, <2>6
    <3> DEFINE ok == \/ NotBehind(db[s], db[r])
                     \/ \E m \in packets' : m.from = r /\ m.to = s /\ m.lsa = db[r]
                     \/ \E m \in packets' : m.from = s /\ m.to = r /\ ~NotBehind(m.lsa, db[r])
    <3> SUFFICES ok
      BY <2>1 DEF Linked, NotBehind, AtLeast, NoLsa
    <3>2. CASE \E m \in packets : m.from = r /\ m.to = s /\ m.lsa = db[r]
      <4>1. PICK m \in packets : m.from = r /\ m.to = s /\ m.lsa = db[r]
        BY <3>2
      <4>2. CASE m = p
        BY <4>1, <4>2, <2>3 DEF t
      <4> QED BY <4>1, <4>2, <1>2, <2>1
    <3>3. CASE \E m \in packets : m.from = s /\ m.to = r /\ ~NotBehind(m.lsa, db[r])
      <4>1. PICK m \in packets : m.from = s /\ m.to = r /\ ~NotBehind(m.lsa, db[r])
        BY <3>3
      <4>2. CASE m = p
        <5>1. r = t /\ s = f /\ p.lsa # db[t]
          BY <4>1, <4>2, <1>1, Order DEF t, f
        <5> QED BY <5>1, <2>1, <2>2
      <4> QED BY <4>1, <4>2, <1>2, <2>1
    <3> QED BY <3>1, <3>2, <3>3 DEF Linked
  <2> QED BY <2>4, <2>5, <2>6, <1>2 DEF Adjacent
<1> QED BY <1>1, <1>4, <1>5, ReceiveSays

-----------------------------------------------------------------------------
\* The invariant of flooding holds at the start.
LEMMA FloodStart == ASSUME FloodConstants, FloodInit PROVE FloodInv
<1> QED BY DEF FloodInit, FloodInv, Typed, Backed, Linked, NotBehind, Adjacent

\* An own instance the originator makes is not behind the one it held.
LEMMA OwnInstances ==
    ASSUME FloodConstants, FloodInv
    PROVE  /\ db[Origin].n < MaxSerial =>
                 \A c \in Checksums :
                    LET lsa == [n |-> db[Origin].n + 1, maxAge |-> FALSE, checksum |-> c]
                    IN  lsa \in Lsas /\ NotBehind(lsa, db[Origin])
           /\ db[Origin] # NoLsa =>
                 LET lsa == [db[Origin] EXCEPT !.maxAge = TRUE]
                 IN  lsa \in Lsas /\ NotBehind(lsa, db[Origin])
           /\ \A c \in Checksums : [n |-> 0, maxAge |-> FALSE, checksum |-> c] \in Lsas
<1>1. db[Origin] \in Lsas \cup {NoLsa} /\ MaxSerial \in Nat
  BY DEF FloodInv, Typed, FloodConstants
<1>2. NoLsa \notin Lsas /\ NoLsa.n = -1
  BY <1>1, Order DEF NoLsa
<1>3. \A c \in Checksums : [n |-> 0, maxAge |-> FALSE, checksum |-> c] \in Lsas
  BY <1>1 DEF Lsas
<1>4. ASSUME db[Origin].n < MaxSerial, NEW c \in Checksums
      PROVE  LET lsa == [n |-> db[Origin].n + 1, maxAge |-> FALSE, checksum |-> c]
             IN  lsa \in Lsas /\ NotBehind(lsa, db[Origin])
  <2>1. db[Origin].n + 1 \in 0..MaxSerial /\ db[Origin].n + 1 > db[Origin].n
    BY <1>1, <1>2, <1>4 DEF Lsas
  <2>2. [n |-> db[Origin].n + 1, maxAge |-> FALSE, checksum |-> c] \in Lsas
    BY <2>1 DEF Lsas
  <2> QED BY <2>1, <2>2, <1>2 DEF NotBehind, AtLeast
<1>5. ASSUME db[Origin] # NoLsa
      PROVE  LET lsa == [db[Origin] EXCEPT !.maxAge = TRUE]
             IN  lsa \in Lsas /\ NotBehind(lsa, db[Origin])
  <2>1. db[Origin] \in Lsas
    BY <1>1, <1>5
  <2>2. [db[Origin] EXCEPT !.maxAge = TRUE] \in Lsas
    BY <2>1 DEF Lsas
  <2>3. AtLeast([db[Origin] EXCEPT !.maxAge = TRUE], db[Origin])
    <3> DEFINE old == db[Origin]
               new == [db[Origin] EXCEPT !.maxAge = TRUE]
    <3>1. new.n = old.n /\ new.checksum = old.checksum /\ new.maxAge = TRUE
      BY <2>1 DEF Lsas
    <3>2. old.n \in Int /\ old.checksum \in Int /\ old.maxAge \in BOOLEAN
      BY <2>1, Fields
    <3>3. new.checksum >= old.checksum
      BY <3>1, <3>2
    <3> QED BY <3>1, <3>2, <3>3 DEF AtLeast
  <2> QED BY <1>2, <2>2, <2>3 DEF NotBehind
<1> QED BY <1>3, <1>4, <1>5

\* The invariant of flooding is inductive.
LEMMA FloodStep == ASSUME FloodConstants, FloodInv, [FloodNext]_floodVars PROVE FloodInv'
<1>1. CASE Originate
  BY <1>1, OwnInstances, InstallKeeps DEF Originate
<1>2. CASE Flush
  BY <1>2, OwnInstances, InstallKeeps DEF Flush
<1>3. CASE Restart
  BY <1>3, OwnInstances, InstallKeeps DEF Restart
<1>4. ASSUME NEW m \in packets, Lose(m)
      PROVE  FloodInv'
  <2>1. Typed' /\ ~lossless'
    BY <1>4 DEF Lose, FloodInv, Typed
  <2>2. Backed'
    BY <1>4 DEF Lose, FloodInv, Backed, NotBehind, AtLeast, Adjacent, NoLsa
  <2> QED BY <2>1, <2>2 DEF FloodInv
<1>5. ASSUME NEW m \in packets, NEW again \in BOOLEAN, Receive(m, again)
      PROVE  FloodInv'
  BY <1>5, ReceiveKeeps
<1>6. CASE UNCHANGED floodVars
  <2>1. Typed'
    BY <1>6 DEF floodVars, FloodInv, Typed
  <2>2. Backed'
    BY <1>6 DEF floodVars, FloodInv, Backed, NotBehind, AtLeast, Adjacent, NoLsa
  <2>3. ASSUME lossless', NEW r \in Routers, NEW s \in Adjacent(r)
        PROVE  Linked(r, s)'
    <3>1. Linked(r, s)
      BY <1>6, <2>3 DEF floodVars, FloodInv
    <3> QED BY <1>6, <3>1 DEF floodVars, Linked, NotBehind, AtLeast, NoLsa
  <2> QED BY <2>1, <2>2, <2>3 DEF FloodInv, Adjacent
<1> QED BY <1>1, <1>2, <1>3, <1>4, <1>5, <1>6 DEF FloodNext

\* The databases and the packets are linked in every reachable state.
LEMMA FloodInvariant == ASSUME FloodConstants PROVE FloodSpec => []FloodInv
<1>1. FloodInit => FloodInv
  BY FloodStart
<1>2. FloodInv /\ [FloodNext]_floodVars => FloodInv'
  BY FloodStep
<1> QED BY <1>1, <1>2, PTL DEF FloodSpec

\* LinkStateDatabase::receive leaves no router behind: once everything under
\* way has arrived and nothing was lost, all routers of a connected area hold
\* the same instance, however packets were reordered and repeated and however
\* often the originator raised, flushed and lost its LSA.
THEOREM FloodingConverges == ASSUME FloodConstants PROVE FloodSpec => []FloodConverges
<1>1. FloodInv => FloodConverges
  <2> SUFFICES ASSUME FloodInv, packets = {}, lossless, NEW q \in Routers, NEW s \in Routers
               PROVE  db[q] = db[s]
    BY DEF FloodConverges
  <2> DEFINE same == {r \in Routers : db[r] = db[q]}
  <2>1. \A r \in same : Adjacent(r) \subseteq same
    <3> SUFFICES ASSUME NEW r \in same, NEW a \in Adjacent(r)
                 PROVE  a \in same
      OBVIOUS
    <3>1. a \in Routers /\ r \in Adjacent(a)
      BY DEF Adjacent
    <3>2. NotBehind(db[a], db[r]) /\ NotBehind(db[r], db[a])
      BY <3>1 DEF FloodInv, Linked
    <3>3. db[a] \in Lsas \cup {NoLsa} /\ db[r] \in Lsas \cup {NoLsa}
      BY <3>1 DEF FloodInv, Typed
    <3> QED BY <3>1, <3>2, <3>3, Order
  <2>2. same \in SUBSET Routers /\ same # {}
    OBVIOUS
  <2>3. same = Routers
    <3> HIDE DEF same
    <3> QED BY <2>1, <2>2 DEF FloodConstants
  <2> QED BY <2>3
<1> QED BY <1>1, FloodInvariant, PTL

\* compare_lsa and receive never take a database back to an earlier instance,
\* whatever is delivered late or twice: only the originator's own restart does.
THEOREM FloodingNeverBackwards == ASSUME FloodConstants PROVE FloodSpec => NeverBackwards
<1> DEFINE forward == \A r \in Routers :
              db[r] # NoLsa /\ ~(r = Origin /\ restarts' # restarts) =>
                  db'[r] # NoLsa /\ AtLeast(db'[r], db[r])
<1>1. ASSUME FloodConstants, FloodInv, FloodInv', [FloodNext]_floodVars
      PROVE  [forward]_floodVars
  <2> SUFFICES ASSUME FloodNext, NEW r \in Routers, db[r] # NoLsa, ~(r = Origin /\ restarts' # restarts)
               PROVE  db'[r] # NoLsa /\ AtLeast(db'[r], db[r])
    BY <1>1
  <2>1. /\ db[r] \in Lsas /\ db'[r] \in Lsas \cup {NoLsa} /\ DOMAIN db = Routers
        /\ NotBehind(db[r], db[r]) /\ Origin \in Routers
    <3>1. db[r] \in Lsas \cup {NoLsa}
      BY <1>1 DEF FloodInv, Typed
    <3> QED BY <1>1, <3>1, Order DEF FloodInv, Typed, FloodConstants
  <2>2. SUFFICES NotBehind(db'[r], db[r])
    BY <2>1 DEF NotBehind
  <2>3. ASSUME NEW lsa, NEW underWay, Install(lsa, underWay), r = Origin => NotBehind(lsa, db[Origin])
        PROVE  NotBehind(db'[r], db[r])
    BY <2>1, <2>3 DEF Install
  <2>4. CASE Originate
    BY <1>1, <2>4, <2>3, OwnInstances DEF Originate
  <2>5. CASE Flush
    BY <1>1, <2>5, <2>3, OwnInstances DEF Flush
  <2>6. CASE Restart
    <3>1. restarts' # restarts
      BY <2>6, <1>1 DEF Restart
    <3> QED BY <3>1, <2>6, <2>3 DEF Restart
  <2>7. ASSUME NEW m \in packets, Lose(m)
        PROVE  NotBehind(db'[r], db[r])
    BY <2>1, <2>7 DEF Lose
  <2>8. ASSUME NEW m \in packets, NEW again \in BOOLEAN, Receive(m, again)
        PROVE  NotBehind(db'[r], db[r])
    <3>1. m.to \in Routers /\ m.lsa \in Lsas
      BY <1>1 DEF FloodInv, Typed
    <3>2. CASE receive(m.to, m.lsa) = "InstallAndFlood" /\ NotBehind(m.lsa, db[m.to])
      BY <3>1, <3>2, <2>1, <2>8 DEF Receive
    <3>3. CASE receive(m.to, m.lsa) # "InstallAndFlood"
      BY <3>3, <2>1, <2>8 DEF Receive
    <3> QED BY <1>1, <3>1, <3>2, <3>3, ReceiveSays DEF FloodInv
  <2> QED BY <2>4, <2>5, <2>6, <2>7, <2>8 DEF FloodNext
<1> QED BY <1>1, FloodInvariant, PTL DEF FloodSpec, NeverBackwards

-----------------------------------------------------------------------------
\* A neighbour that is tracked, and what is known of the exchange with it.
Neighbor == [state : NeighborState, master : BOOLEAN, dd_sequence : Nat, last_dd : Nat, pending_requests : Nat]

NeighborInv ==
    /\ DOMAIN neighbors \subseteq Peers /\ neighbors \in [DOMAIN neighbors -> Neighbor]
    /\ exchange \in [Peers -> Nat] /\ DOMAIN told = Peers
    /\ AdjacencyEarned

\* What AdjacencyEarned says of one neighbour.
Earned(n, begun, stages) ==
    /\ n.state \in {"Exchange", "Loading", "Full"} => "NegotiationDone" \in stages
    /\ n.state \in {"Loading", "Full"} => "ExchangeDone" \in stages
    /\ n.state \in Synchronizing =>
           /\ begun > 0
           /\ n.dd_sequence \in {0, begun} /\ n.last_dd = n.dd_sequence
           /\ n.dd_sequence = 0 => ~n.master

\* An event that breaks the two-way communication.
Breaks(event) == event[1] \in Lost \union {"OneWayReceived"} \/ event = <<"TwoWayReceived", FALSE>>

\* A neighbour is synchronizing only while it is heard both ways, and comes
\* from one stage of the exchange to the next by the event that ends it.
LEMMA Stages ==
    ASSUME NEW state \in NeighborState, NEW event \in NeighborEvent
    PROVE  LET next == transition(state, event)
           IN  /\ next \in NeighborState
               /\ next \in Synchronizing => ~Breaks(event)
               /\ next \in Synchronizing \ {"ExStart"} => state \in Synchronizing
               /\ next \in {"Exchange", "Loading", "Full"} =>
                     state \in {"Exchange", "Loading", "Full"} \/ event[1] = "NegotiationDone"
               /\ next \in {"Loading", "Full"} =>
                     state \in {"Loading", "Full"} \/ (state = "Exchange" /\ event[1] = "ExchangeDone")
<1> DEFINE next == transition(state, event)
<1>1. event = <<"TwoWayReceived", TRUE>> => event[1] = "TwoWayReceived" /\ event # <<"TwoWayReceived", FALSE>>
  OBVIOUS
<1>2. event = <<"TwoWayReceived", FALSE>> => event[1] = "TwoWayReceived"
  OBVIOUS
<1>3. CASE Breaks(event)
  BY <1>1, <1>2, <1>3, ZenonT(40) DEF transition, NeighborState, Synchronizing, Lost, Restarting, Breaks
<1>4. CASE ~Breaks(event)
  BY <1>1, <1>2, <1>4 DEF transition, NeighborState, Synchronizing, Lost, Restarting, Breaks
<1> QED BY <1>3, <1>4

\* on_event keeps a neighbour what its exchanges have earned.
LEMMA EventKeeps ==
    ASSUME NEW old \in Neighbor, NEW event \in NeighborEvent, NEW begun \in Nat, NEW stages,
           Earned(old, begun, stages)
    PROVE  LET new == on_event(old, event)
               begins == new.state = "ExStart" /\ old.state # "ExStart"
           IN  /\ new \in Neighbor
               /\ Earned(new, IF begins THEN begun + 1 ELSE begun,
                         IF begins \/ Breaks(event) THEN {} ELSE stages \union Stage(event, stages))
<1> DEFINE next == transition(old.state, event)
           new == on_event(old, event)
           begins == next = "ExStart" /\ old.state # "ExStart"
           after == IF begins \/ Breaks(event) THEN {} ELSE stages \union Stage(event, stages)
<1>1. old.state \in NeighborState
  BY DEF Neighbor
<1>2. /\ next \in NeighborState
      /\ next \in Synchronizing => ~Breaks(event)
      /\ next \in Synchronizing \ {"ExStart"} => old.state \in Synchronizing
      /\ next \in {"Exchange", "Loading", "Full"} =>
            old.state \in {"Exchange", "Loading", "Full"} \/ event[1] = "NegotiationDone"
      /\ next \in {"Loading", "Full"} =>
            old.state \in {"Loading", "Full"} \/ (old.state = "Exchange" /\ event[1] = "ExchangeDone")
  BY <1>1, Stages
<1> HIDE DEF next
<1>3. new = IF begins THEN [old EXCEPT !.state = next, !.master = FALSE, !.dd_sequence = 0, !.last_dd = 0]
            ELSE [old EXCEPT !.state = next]
  BY DEF on_event, next
<1> HIDE DEF new
<1>4. new \in Neighbor /\ new.state = next
  BY <1>2, <1>3 DEF Neighbor
<1>5. new.state \in {"Exchange", "Loading", "Full"} => "NegotiationDone" \in after
  <2> SUFFICES ASSUME next \in {"Exchange", "Loading", "Full"}
               PROVE  "NegotiationDone" \in after
    BY <1>4
  <2>1. ~begins /\ ~Breaks(event)
    BY <1>2 DEF Synchronizing
  <2> QED BY <2>1, <1>2 DEF Earned, Stage
<1>6. new.state \in {"Loading", "Full"} => "ExchangeDone" \in after
  <2> SUFFICES ASSUME next \in {"Loading", "Full"}
               PROVE  "ExchangeDone" \in after
    BY <1>4
  <2>1. ~begins /\ ~Breaks(event)
    BY <1>2 DEF Synchronizing
  <2> QED BY <2>1, <1>2 DEF Earned, Stage
<1>7. ASSUME new.state \in Synchronizing
      PROVE  /\ (IF begins THEN begun + 1 ELSE begun) > 0
             /\ new.dd_sequence \in {0, IF begins THEN begun + 1 ELSE begun} /\ new.last_dd = new.dd_sequence
             /\ new.dd_sequence = 0 => ~new.master
  <2>1. CASE begins
    BY <2>1, <1>3 DEF Neighbor
  <2>2. CASE ~begins
    <3>1. old.state \in Synchronizing
      BY <2>2, <1>2, <1>4, <1>7 DEF Synchronizing
    <3>2. new.dd_sequence = old.dd_sequence /\ new.last_dd = old.last_dd /\ new.master = old.master
      BY <2>2, <1>3 DEF Neighbor
    <3> QED BY <2>2, <3>1, <3>2 DEF Earned
  <2> QED BY <2>1, <2>2
<1> QED BY <1>4, <1>5, <1>6, <1>7 DEF Earned, new

\* The invariant of the neighbours is inductive.
LEMMA NeighborStep == ASSUME NeighborInv, [NeighborNext]_neighborVars PROVE NeighborInv'
<1> USE DEF NeighborInv
<1>0. \A p \in DOMAIN neighbors : Earned(neighbors[p], exchange[p], told[p])
  BY DEF AdjacencyEarned, Earned
<1>1. SUFFICES /\ DOMAIN neighbors' \subseteq Peers /\ neighbors' \in [DOMAIN neighbors' -> Neighbor]
               /\ exchange' \in [Peers -> Nat] /\ DOMAIN told' = Peers
               /\ \A p \in DOMAIN neighbors' : Earned(neighbors'[p], exchange'[p], told'[p])
  BY DEF AdjacencyEarned, Earned, Neighbor, NeighborState, Synchronizing
<1>2. ASSUME NEW p \in Peers, NEW event \in NeighborEvent, process(p, event)
      PROVE  /\ DOMAIN neighbors' \subseteq Peers /\ neighbors' \in [DOMAIN neighbors' -> Neighbor]
             /\ exchange' \in [Peers -> Nat] /\ DOMAIN told' = Peers
             /\ \A q \in DOMAIN neighbors' : Earned(neighbors'[q], exchange'[q], told'[q])
  <2> DEFINE old == Known(p)
             new == on_event(old, event)
             begins == new.state = "ExStart" /\ old.state # "ExStart"
  <2>1. old \in Neighbor /\ Earned(old, exchange[p], told[p])
    <3>1. CASE p \in DOMAIN neighbors
      BY <3>1, <1>0 DEF Known
    <3>2. CASE p \notin DOMAIN neighbors
      BY <3>2 DEF Known, Neighbor_new, Neighbor, NeighborState, Earned, Synchronizing
    <3> QED BY <3>1, <3>2
  <2>2. exchange[p] \in Nat
    OBVIOUS
  <2>3. /\ new \in Neighbor
        /\ Earned(new, IF begins THEN exchange[p] + 1 ELSE exchange[p],
                  IF begins \/ Breaks(event) THEN {} ELSE told[p] \union Stage(event, told[p]))
    BY <2>1, <2>2, EventKeeps
  <2>4. /\ neighbors' = Tracked(p, new)
        /\ exchange' = [exchange EXCEPT ![p] = IF begins THEN exchange[p] + 1 ELSE exchange[p]]
        /\ told' = [told EXCEPT ![p] = IF begins \/ Breaks(event) THEN {}
                                       ELSE told[p] \union Stage(event, told[p])]
    BY <1>2 DEF process, Breaks
  <2> HIDE DEF new, old, begins
  <2>5. /\ DOMAIN neighbors' = DOMAIN neighbors \union {p}
        /\ \A q \in DOMAIN neighbors' : neighbors'[q] = IF q = p THEN new ELSE neighbors[q]
        /\ neighbors' \in [DOMAIN neighbors' -> Neighbor]
    BY <2>3, <2>4 DEF Tracked
  <2>6. /\ exchange' \in [Peers -> Nat] /\ DOMAIN told' = Peers
        /\ exchange'[p] = IF begins THEN exchange[p] + 1 ELSE exchange[p]
        /\ told'[p] = IF begins \/ Breaks(event) THEN {} ELSE told[p] \union Stage(event, told[p])
        /\ \A q \in Peers \ {p} : exchange'[q] = exchange[q] /\ told'[q] = told[q]
    BY <2>4
  <2>7. ASSUME NEW q \in DOMAIN neighbors'
        PROVE  Earned(neighbors'[q], exchange'[q], told'[q])
    <3>1. CASE q = p
      BY <3>1, <2>3, <2>5, <2>6
    <3>2. CASE q # p
      BY <3>2, <1>0, <2>5, <2>6
    <3> QED BY <3>1, <3>2
  <2> QED BY <2>5, <2>6, <2>7
<1>3. ASSUME NEW p \in Peers, NEW master \in BOOLEAN, RecordDbd(p, master)
      PROVE  /\ DOMAIN neighbors' \subseteq Peers /\ neighbors' \in [DOMAIN neighbors' -> Neighbor]
             /\ exchange' \in [Peers -> Nat] /\ DOMAIN told' = Peers
             /\ \A q \in DOMAIN neighbors' : Earned(neighbors'[q], exchange'[q], told'[q])
  <2> DEFINE new == [neighbors[p] EXCEPT !.master = master, !.dd_sequence = exchange[p], !.last_dd = exchange[p]]
  <2>1. /\ p \in DOMAIN neighbors /\ neighbors[p].state \in Synchronizing /\ neighbors[p] \in Neighbor
        /\ neighbors' = [neighbors EXCEPT ![p] = new] /\ UNCHANGED <<exchange, told>>
    BY <1>3 DEF RecordDbd, Synchronizing
  <2>2. new \in Neighbor /\ new.state = neighbors[p].state /\ new.dd_sequence = exchange[p] /\ new.last_dd = exchange[p]
    BY <2>1 DEF Neighbor
  <2>3. Earned(new, exchange[p], told[p])
    BY <2>1, <2>2, <1>0 DEF Earned
  <2> QED BY <2>1, <2>2, <2>3, <1>0
<1>4. CASE UNCHANGED neighborVars
  BY <1>0, <1>4 DEF neighborVars
<1> QED BY <1>2, <1>3, <1>4 DEF NeighborNext

\* Neighbor::on_event takes an adjacency to Full only through a negotiation
\* and an exchange of descriptions of its own, in whatever order events come.
THEOREM AdjacenciesEarned == NeighborSpec => []AdjacencyEarned
<1>1. NeighborInit => NeighborInv
  BY DEF NeighborInit, NeighborInv, AdjacencyEarned
<1>2. NeighborInv => AdjacencyEarned
  BY DEF NeighborInv
<1> QED BY <1>1, <1>2, NeighborStep, PTL DEF NeighborSpec

-----------------------------------------------------------------------------
(***************************************************************************)
(* EstablishedAgrees for every pair of identifiers and every number of     *)
(* events.  A speaker leaves OpenConfirm and Established only by closing   *)
(* its end, and a new connection needs both ends closed; so a KEEPALIVE    *)
(* that is still to be read, like a session already Established on one,    *)
(* vouches for the speaker that sent it for as long as its end is open.    *)
(***************************************************************************)
Confirmed == {"OpenConfirm", "Established"}

PeeringIInv ==
    /\ fsm \in [Speakers -> [state : States, remote : Speakers \cup {0}]]
    /\ up \in [Speakers -> BOOLEAN]
    /\ inbox \in [Speakers -> Seq(Read)]
    /\ \A p \in Speakers : ~up[p] => inbox[p] = <<>> /\ fsm[p].state # "Established"
    /\ \A p \in Speakers :
          /\ up[Other(p)]
          /\ fsm[p].state = "Established" \/ \E i \in DOMAIN inbox[p] : inbox[p][i] = "SendKeepalive"
          => fsm[Other(p)].state \in Confirmed

\* What every outcome a of event e in state s has in common.
Sound(s, e, a) ==
    /\ a.next \in States
    /\ s \in Confirmed /\ a.next \notin Confirmed =>
          a.next = "Idle" /\ (e = "TcpClose" \/ "ReleaseTcpConnection" \in Range(a.do))
    /\ "SendKeepalive" \in Range(a.do) => a.next \in Confirmed
    /\ a.next = "Established" => s = "Established" \/ (s = "OpenConfirm" /\ e = "KeepaliveReceived")
    /\ e = "TcpClose" => a.next # "Established"

\* There are exactly two speakers, each the other's Other.
LEMMA OtherSpeaker ==
    ASSUME NEW p \in Speakers
    PROVE  /\ Other(p) \in Speakers /\ Other(p) # p
           /\ Other(Other(p)) = p
           /\ Speakers = {p, Other(p)}
<1>1. PICK q \in Speakers : q # p /\ Speakers = {p, q}
  BY PeeringAssumption
<1>2. Other(p) = q /\ Other(q) = p
  BY <1>1 DEF Other
<1> QED
  BY <1>1, <1>2

\* The elements of the action lists of on_event.
LEMMA ActionLists ==
    /\ \A x : x \in Range(<<>>) <=> FALSE
    /\ \A a, x : x \in Range(<<a>>) <=> x = a
    /\ \A a, b, x : x \in Range(<<a, b>>) <=> x \in {a, b}
    /\ \A a, b, c, x : x \in Range(<<a, b, c>>) <=> x \in {a, b, c}
<1>1. \A x : x \in Range(<<>>) <=> FALSE
  BY DEF Range
<1>2. \A a, x : x \in Range(<<a>>) <=> x = a
  BY DEF Range
<1>3. ASSUME NEW a, NEW b, NEW x
      PROVE  x \in Range(<<a, b>>) <=> x \in {a, b}
  <2>1. DOMAIN <<a, b>> = {1, 2} /\ <<a, b>>[1] = a /\ <<a, b>>[2] = b
    OBVIOUS
  <2> QED
    BY <2>1 DEF Range
<1>4. ASSUME NEW a, NEW b, NEW c, NEW x
      PROVE  x \in Range(<<a, b, c>>) <=> x \in {a, b, c}
  <2>1. DOMAIN <<a, b, c>> = {1, 2, 3} /\ <<a, b, c>>[1] = a /\ <<a, b, c>>[2] = b /\ <<a, b, c>>[3] = c
    OBVIOUS
  <2> QED
    BY <2>1 DEF Range
<1> QED
  BY <1>1, <1>2, <1>3, <1>4

\* A refused session is notified and released.
LEMMA RefuseActions ==
    \A x : x \in Range(Refuse) <=> x \in {"SendNotification", "ReleaseTcpConnection", "StartIdleHoldTimer"}
BY ActionLists DEF Refuse

\* Every row of the table on_event is made of is sound for its states and events.
LEMMA ArmsSound ==
    ASSUME NEW a \in Arms, NEW s \in a.in, NEW e \in a.on
    PROVE  Sound(s, e, a)
<1> QED
  BY ActionLists, RefuseActions DEF Arms, Row, Sound, Confirmed, States, Dial, Greet, Drop, Connected

\* The outcome of any event in any state is sound.
LEMMA OutcomesSound ==
    ASSUME NEW p \in Speakers, NEW e, fsm[p].state \in States
    PROVE  Sound(fsm[p].state, e, Arm(p, e))
<1> DEFINE s == fsm[p].state
           taken == {a \in Arms : s \in a.in /\ e \in a.on}
<1>1. CASE s \in {"OpenSent", "OpenConfirm"} /\ e \in Connected
  <2>1. Arm(p, e) = Collision(p)
    BY <1>1 DEF Arm
  <2>2. Sound(s, e, Collision(p))
    BY <1>1, ActionLists, RefuseActions DEF Collision, Row, Sound, Confirmed, States, Drop, Connected
  <2> QED
    BY <2>1, <2>2
<1>2. CASE ~(s \in {"OpenSent", "OpenConfirm"} /\ e \in Connected) /\ taken # {}
  <2>1. Arm(p, e) \in taken
    BY <1>2 DEF Arm
  <2> QED
    BY <2>1, ArmsSound
<1>3. CASE ~(s \in {"OpenSent", "OpenConfirm"} /\ e \in Connected) /\ taken = {}
  <2>1. Arm(p, e) = Row({s}, {e}, s, <<>>)
    BY <1>3 DEF Arm
  <2>2. s = "Established" /\ e = "TcpClose" => FALSE
    <3> DEFINE a == Row({"Established"}, {"ManualStop", "TcpClose", "HoldTimerExpired", "BgpOpenInvalid",
                          "NotificationReceived"}, "Idle", Refuse)
    <3>1. a \in Arms
      BY DEF Arms
    <3>2. "Established" \in a.in /\ "TcpClose" \in a.on
      BY DEF Row
    <3> QED
      BY <1>3, <3>1, <3>2
  <2> QED
    BY <2>1, <2>2, ActionLists DEF Row, Sound, Confirmed
<1> QED
  BY <1>1, <1>2, <1>3

\* A speaker that is fed an event keeps the invariant: in particular one that leaves OpenConfirm or Established closes
\* its end, and one that becomes Established had a KEEPALIVE to read.
LEMMA FeedKeeps ==
    ASSUME PeeringIInv, NEW p \in Speakers, NEW e, NEW unread \in Seq(Read),
           Feed(p, e, unread),
           unread = inbox[p] \/ (inbox[p] # <<>> /\ unread = Tail(inbox[p])),
           e = "KeepaliveReceived" => inbox[p] # <<>> /\ Head(inbox[p]) = "SendKeepalive"
    PROVE  PeeringIInv'
<1> DEFINE q == Other(p)
           a == Arm(p, e)
           does == Range(a.do)
           closes == e = "TcpClose" \/ ("ReleaseTcpConnection" \in does /\ a.next = "Idle")
           sends == IF does \intersect Messages = {} THEN <<>> ELSE <<CHOOSE m \in does : m \in Messages>>
           ending == IF closes THEN <<"TcpClose">> ELSE <<>>
           more == inbox[q] \o sends \o ending
<1>1. q \in Speakers /\ q # p /\ Other(q) = p /\ Speakers = {p, q}
  BY OtherSpeaker
<1>2. Sound(fsm[p].state, e, a)
  BY OutcomesSound DEF PeeringIInv
<1>3. /\ fsm' = [fsm EXCEPT ![p] = [state |-> a.next, remote |-> fsm_on_event(p, e).remote]]
      /\ up' = [up EXCEPT ![p] = @ /\ ~closes]
      /\ inbox' = [inbox EXCEPT ![p] = IF closes THEN <<>> ELSE unread,
                                ![q] = IF up[p] /\ up[q] THEN more ELSE @]
  BY DEF Feed, fsm_on_event
<1>4. /\ fsm_on_event(p, e).remote \in Speakers \cup {0}
      /\ a.next \in States
  BY <1>1, <1>2 DEF fsm_on_event, PeeringIInv, Sound
<1>5. /\ sends \in Seq(Read) /\ ending \in Seq(Read)
      /\ \A i \in DOMAIN sends : sends[i] \in does
      /\ \A i \in DOMAIN ending : ending[i] # "SendKeepalive"
  <2> HIDE DEF does, closes, a
  <2>1. ending \in Seq(Read) /\ \A i \in DOMAIN ending : ending[i] # "SendKeepalive"
    <3>1. CASE closes
      BY <3>1 DEF Read
    <3>2. CASE ~closes
      BY <3>2
    <3> QED
      BY <3>1, <3>2
  <2>2. sends \in Seq(Read) /\ \A i \in DOMAIN sends : sends[i] \in does
    <3>1. CASE does \intersect Messages = {}
      BY <3>1
    <3>2. CASE does \intersect Messages # {}
      <4>1. PICK m : sends = <<m>> /\ m \in does /\ m \in Messages
        BY <3>2
      <4>2. m \in Read
        BY <4>1 DEF Messages, Read
      <4> HIDE DEF sends
      <4> QED
        BY <4>1, <4>2
    <3> QED
      BY <3>1, <3>2
  <2> QED
    BY <2>1, <2>2
<1>6. /\ more \in Seq(Read)
      /\ (\E i \in DOMAIN more : more[i] = "SendKeepalive") =>
            (\E i \in DOMAIN inbox[q] : inbox[q][i] = "SendKeepalive") \/ "SendKeepalive" \in does
  <2>1. inbox[q] \in Seq(Read)
    BY <1>1 DEF PeeringIInv
  <2> HIDE DEF sends, ending
  <2> QED
    BY <2>1, <1>5
<1>7. (\E i \in DOMAIN unread : unread[i] = "SendKeepalive") \/ e = "KeepaliveReceived" =>
         \E i \in DOMAIN inbox[p] : inbox[p][i] = "SendKeepalive"
  <2>1. inbox[p] \in Seq(Read)
    BY DEF PeeringIInv
  <2>2. CASE e = "KeepaliveReceived"
    BY <2>1, <2>2
  <2>3. CASE \E i \in DOMAIN unread : unread[i] = "SendKeepalive"
    <3>1. PICK i \in DOMAIN unread : unread[i] = "SendKeepalive"
      BY <2>3
    <3>2. CASE unread = Tail(inbox[p]) /\ inbox[p] # <<>>
      <4>1. i + 1 \in DOMAIN inbox[p] /\ inbox[p][i + 1] = unread[i]
        BY <2>1, <3>1, <3>2
      <4> QED
        BY <3>1, <4>1
    <3> QED
      BY <3>1, <3>2
  <2> QED
    BY <2>2, <2>3
<1> HIDE DEF more, closes, does, a
<1>8. /\ fsm' \in [Speakers -> [state : States, remote : Speakers \cup {0}]]
      /\ fsm'[p].state = a.next /\ fsm'[q] = fsm[q]
  BY <1>1, <1>3, <1>4 DEF PeeringIInv
<1>9. /\ up' \in [Speakers -> BOOLEAN]
      /\ up'[p] = (up[p] /\ ~closes) /\ up'[q] = up[q]
  BY <1>1, <1>3 DEF PeeringIInv
<1>10. /\ inbox' \in [Speakers -> Seq(Read)]
       /\ inbox'[p] = IF closes THEN <<>> ELSE unread
       /\ inbox'[q] = IF up[p] /\ up[q] THEN more ELSE inbox[q]
  <2> DEFINE mine == IF closes THEN <<>> ELSE unread
             theirs == IF up[p] /\ up[q] THEN more ELSE inbox[q]
  <2>1. inbox \in [Speakers -> Seq(Read)]
    BY DEF PeeringIInv
  <2>2. mine \in Seq(Read) /\ theirs \in Seq(Read)
    BY <2>1, <1>1, <1>6
  <2>3. inbox' = [inbox EXCEPT ![p] = mine, ![q] = theirs]
    BY <1>1, <1>3, <2>1
  <2> HIDE DEF mine, theirs
  <2>4. inbox' \in [Speakers -> Seq(Read)] /\ inbox'[p] = mine /\ inbox'[q] = theirs
    BY <1>1, <2>1, <2>2, <2>3
  <2> QED
    BY <2>4 DEF mine, theirs
<1>11. closes => a.next # "Established"
  BY <1>2 DEF Sound, closes
<1>12. fsm[p].state \in Confirmed /\ a.next \notin Confirmed => closes
  BY <1>2 DEF Sound, closes, does
<1>13. \A r \in Speakers : ~up'[r] => inbox'[r] = <<>> /\ fsm'[r].state # "Established"
  <2>1. CASE ~up'[p]
    <3>1. inbox'[p] = <<>>
      BY <2>1, <1>9, <1>10 DEF PeeringIInv
    <3>2. fsm'[p].state # "Established"
      BY <2>1, <1>2, <1>7, <1>8, <1>9, <1>11 DEF PeeringIInv, Sound
    <3> QED
      BY <3>1, <3>2, <1>1, <1>8, <1>9, <1>10 DEF PeeringIInv
  <2>2. CASE up'[p]
    BY <2>2, <1>1, <1>8, <1>9, <1>10 DEF PeeringIInv
  <2> QED
    BY <2>1, <2>2, <1>9
<1>14. /\ up'[q]
       /\ fsm'[p].state = "Established" \/ \E i \in DOMAIN inbox'[p] : inbox'[p][i] = "SendKeepalive"
       => fsm'[q].state \in Confirmed
  <2> SUFFICES ASSUME up'[q],
                      fsm'[p].state = "Established" \/ \E i \in DOMAIN inbox'[p] : inbox'[p][i] = "SendKeepalive"
               PROVE  fsm'[q].state \in Confirmed
    OBVIOUS
  <2>1. fsm[p].state = "Established" \/ \E i \in DOMAIN inbox[p] : inbox[p][i] = "SendKeepalive"
    BY <1>2, <1>7, <1>8, <1>10 DEF Sound
  <2> QED
    BY <2>1, <1>1, <1>8, <1>9 DEF PeeringIInv
<1>15. /\ up'[p]
       /\ fsm'[q].state = "Established" \/ \E i \in DOMAIN inbox'[q] : inbox'[q][i] = "SendKeepalive"
       => fsm'[p].state \in Confirmed
  <2> SUFFICES ASSUME up'[p],
                      fsm'[q].state = "Established" \/ \E i \in DOMAIN inbox'[q] : inbox'[q][i] = "SendKeepalive"
               PROVE  fsm'[p].state \in Confirmed
    OBVIOUS
  <2>1. up[p] /\ ~closes
    BY <1>9
  <2>2. CASE "SendKeepalive" \in does
    BY <2>2, <1>2, <1>8 DEF Sound, does
  <2>3. CASE "SendKeepalive" \notin does
    <3>1. fsm[q].state = "Established" \/ \E i \in DOMAIN inbox[q] : inbox[q][i] = "SendKeepalive"
      BY <2>3, <1>6, <1>8, <1>10
    <3>2. fsm[p].state \in Confirmed
      BY <3>1, <2>1, <1>1 DEF PeeringIInv
    <3> QED
      BY <3>2, <2>1, <1>8, <1>12
  <2> QED
    BY <2>2, <2>3
<1> QED
  BY <1>1, <1>8, <1>9, <1>10, <1>13, <1>14, <1>15 DEF PeeringIInv

\* A connection is made between two closed ends, where nothing is left to read, or beside an open one.
LEMMA DialKeeps ==
    ASSUME PeeringIInv, NEW p \in Speakers, DialSucceeds(p)
    PROVE  PeeringIInv'
<1> DEFINE q == Other(p)
           word(r) == IF r = p THEN "TcpConnectionValid" ELSE "TcpConnectionOpened"
<1>1. q \in Speakers /\ q # p /\ Other(q) = p /\ Speakers = {p, q}
  BY OtherSpeaker
<1>2. /\ fsm' = fsm /\ up' = [s \in Speakers |-> TRUE] /\ up[p] = up[q]
      /\ inbox' = [inbox EXCEPT ![p] = Append(@, "TcpConnectionValid"), ![q] = Append(@, "TcpConnectionOpened")]
  BY DEF DialSucceeds
<1>3. inbox \in [Speakers -> Seq(Read)]
  BY DEF PeeringIInv
<1>4. \A r \in Speakers : inbox'[r] = Append(inbox[r], word(r)) /\ word(r) \in Read
  BY <1>1, <1>2, <1>3 DEF Read
<1>5. inbox' \in [Speakers -> Seq(Read)]
  <2>1. ASSUME NEW r \in Speakers
        PROVE  inbox'[r] \in Seq(Read)
    <3>1. inbox[r] \in Seq(Read) /\ word(r) \in Read /\ inbox'[r] = Append(inbox[r], word(r))
      BY <1>3, <1>4
    <3> HIDE DEF word
    <3> QED
      BY <3>1
  <2>2. inbox' = [r \in Speakers |-> inbox'[r]]
    BY <1>2, <1>3
  <2> QED
    BY <2>1, <2>2
<1>6. ASSUME NEW r \in Speakers, NEW i \in DOMAIN inbox'[r], inbox'[r][i] = "SendKeepalive"
      PROVE  \E j \in DOMAIN inbox[r] : inbox[r][j] = "SendKeepalive"
  <2>1. inbox[r] \in Seq(Read) /\ inbox'[r] = Append(inbox[r], word(r)) /\ word(r) # "SendKeepalive"
    BY <1>3, <1>4
  <2> HIDE DEF word
  <2> QED
    BY <2>1, <1>6
<1>7. ASSUME NEW r \in Speakers,
             fsm'[r].state = "Established" \/ \E i \in DOMAIN inbox'[r] : inbox'[r][i] = "SendKeepalive"
      PROVE  fsm'[Other(r)].state \in Confirmed
  <2>1. fsm[r].state = "Established" \/ \E i \in DOMAIN inbox[r] : inbox[r][i] = "SendKeepalive"
    BY <1>2, <1>6, <1>7
  <2>2. up[r]
    BY <2>1 DEF PeeringIInv
  <2>3. up[Other(r)]
    BY <2>2, <1>1, <1>2
  <2> QED
    BY <2>1, <2>3, <1>2 DEF PeeringIInv
<1>8. up' \in [Speakers -> BOOLEAN] /\ \A r \in Speakers : up'[r]
  BY <1>2
<1> QED
  BY <1>2, <1>5, <1>7, <1>8 DEF PeeringIInv

\* The inductive invariant of a peering.
LEMMA PeeringInductive ==
    /\ PeeringInit => PeeringIInv
    /\ PeeringIInv /\ [PeeringNext]_peeringVars => PeeringIInv'
<1>1. PeeringInit => PeeringIInv
  BY OtherSpeaker DEF PeeringInit, PeeringIInv, States
<1>2. ASSUME PeeringIInv, [PeeringNext]_peeringVars
      PROVE  PeeringIInv'
  <2>1. CASE UNCHANGED peeringVars
    BY <1>2, <2>1 DEF PeeringIInv, peeringVars
  <2>2. ASSUME NEW p \in Speakers, NEW e, e # "KeepaliveReceived", Feed(p, e, inbox[p])
        PROVE  PeeringIInv'
    <3>1. inbox[p] \in Seq(Read)
      BY <1>2 DEF PeeringIInv
    <3> QED
      BY <1>2, <2>2, <3>1, FeedKeeps
  <2>3. ASSUME NEW p \in Speakers, NEW e \in {"ManualStart", "ManualStop"}, Admin(p, e)
        PROVE  PeeringIInv'
    BY <2>2, <2>3 DEF Admin
  <2>4. ASSUME NEW p \in Speakers, NEW t \in DOMAIN Expiry, Expires(p, t)
        PROVE  PeeringIInv'
    <3>1. Expiry[t] # "KeepaliveReceived"
      BY DEF Expiry
    <3> QED
      BY <2>2, <2>4, <3>1 DEF Expires
  <2>5. ASSUME NEW p \in Speakers, Reads(p)
        PROVE  PeeringIInv'
    <3> DEFINE m == Head(inbox[p])
               rest == Tail(inbox[p])
    <3>1. inbox[p] \in Seq(Read) /\ inbox[p] # <<>>
      BY <1>2, <2>5 DEF PeeringIInv, Reads
    <3>2. m \in Read /\ rest \in Seq(Read)
      BY <3>1
    <3>3. PICK e : Feed(p, e, rest) /\ (e = "KeepaliveReceived" => m = "SendKeepalive")
      BY <2>5, <3>2 DEF Reads, Read
    <3> QED
      BY <1>2, <3>1, <3>2, <3>3, FeedKeeps
  <2>6. ASSUME NEW p \in Speakers, DialFails(p)
        PROVE  PeeringIInv'
    BY <2>2, <2>6 DEF DialFails
  <2> QED
    BY <1>2, <2>1, <2>3, <2>4, <2>5, <2>6, DialKeeps DEF PeeringNext
<1> QED
  BY <1>1, <1>2

\* No speaker stays Established while the peer whose end is open starts over: for any two identifiers, any number of
\* administrative, timer and dialling events, refused OPENs and second connections (fsm.rs, on_event).
THEOREM SessionsAgree == PeeringSpec => []EstablishedAgrees
<1>1. PeeringIInv => EstablishedAgrees
  BY DEF PeeringIInv, EstablishedAgrees, Confirmed
<1> QED
  BY <1>1, PeeringInductive, PTL DEF PeeringSpec

-----------------------------------------------------------------------------
\* Induction up to N, over the set of the numbers a statement is true of.
LEMMA Reaches ==
    ASSUME NEW N \in Nat, NEW T, 0 \in T, \A n \in 0 .. N : n \in T /\ n < N => n + 1 \in T
    PROVE  N \in T
<1> DEFINE R == {n \in 0 .. N : n \notin T}
<1>1. SUFFICES ASSUME N \notin T PROVE FALSE
  OBVIOUS
<1>2. R # {} /\ R \subseteq Nat
  BY <1>1
<1>3. \E x \in R : \A y \in R : ~(y < x)
  <2>1. PICK x \in R : \A y \in R : ~(<<y, x>> \in OpToRel(<, Nat))
    BY <1>2, WFMin, NatLessThanWellFounded
  <2>2. \A a, b \in Nat : a < b => <<a, b>> \in OpToRel(<, Nat)
    BY Zenon DEF OpToRel
  <2> HIDE DEF R
  <2> QED
    BY <1>2, <2>1, <2>2, Zenon
<1>4. PICK x \in R : \A y \in R : ~(y < x)
  BY <1>3
<1>5. x \in 1 .. N /\ x - 1 \in 0 .. N /\ x - 1 < N /\ x \notin T /\ x - 1 \notin R
  BY <1>4
<1>6. x - 1 \in T
  BY <1>5
<1>7. (x - 1) + 1 \in T
  BY <1>5, <1>6
<1> QED
  BY <1>5, <1>7

-----------------------------------------------------------------------------
(* The decision process of BGP *)

\* Routes that no two sources share.
OnePerSource(q) ==
    /\ q \in Seq(Routes)
    /\ \A i, j \in 1 .. Len(q) : SameSource(q[i], q[j]) => i = j

\* a is preferred to b, or is b.
Prevails(a, b) == a = b \/ compare(b, a)

\* A route has all its fields, unlike NoRoute.
LEMMA RouteFields ==
    ASSUME NEW r \in Routes
    PROVE  /\ r # NoRoute
           /\ r.peer \in Nat /\ r.is_ibgp \in BOOLEAN /\ r.local_pref \in Nat /\ r.segments \in Nat
           /\ r.origin \in Nat /\ r.med \in Nat
<1>1. DOMAIN r # DOMAIN NoRoute
  <2>1. "med" \in DOMAIN r /\ "med" \notin DOMAIN NoRoute
    BY DEF Routes, NoRoute
  <2> QED
    BY <2>1
<1> QED
  BY <1>1 DEF Routes

\* What compare says of two routes.
LEMMA CompareRoutes ==
    ASSUME NEW a \in Routes, NEW b \in Routes, a.neighbour = b.neighbour \/ a.med = b.med
    PROVE  compare(a, b) <=>
             \/ b.local_pref > a.local_pref
             \/ /\ b.local_pref = a.local_pref
                /\ \/ b.segments < a.segments
                   \/ /\ b.segments = a.segments
                      /\ \/ b.origin < a.origin
                         \/ /\ b.origin = a.origin
                            /\ \/ b.med < a.med
                               \/ /\ b.med = a.med
                                  /\ \/ a.is_ibgp /\ ~b.is_ibgp
                                     \/ a.is_ibgp = b.is_ibgp /\ b.peer < a.peer
<1>1. a # NoRoute
  BY RouteFields
<1>2. /\ a["local_pref"] = a.local_pref /\ b["local_pref"] = b.local_pref
      /\ a["segments"] = a.segments /\ b["segments"] = b.segments
      /\ a["origin"] = a.origin /\ b["origin"] = b.origin
      /\ a["med"] = a.med /\ b["med"] = b.med
      /\ a["is_ibgp"] = a.is_ibgp /\ b["is_ibgp"] = b.is_ibgp
      /\ a["peer"] = a.peer /\ b["peer"] = b.peer
  OBVIOUS
<1>3. /\ a.is_ibgp \in BOOLEAN /\ b.is_ibgp \in BOOLEAN /\ a.med \in Nat /\ b.med \in Nat
      /\ a.local_pref \in Nat /\ b.local_pref \in Nat /\ a.segments \in Nat /\ b.segments \in Nat
      /\ a.origin \in Nat /\ b.origin \in Nat /\ a.peer \in Nat /\ b.peer \in Nat
  BY RouteFields
<1> QED
  BY <1>1, <1>2, <1>3 DEF compare

\* Among routes whose MEDs can be compared, being preferred is transitive.
LEMMA PrefersFurther ==
    ASSUME NEW a \in Routes, NEW b \in Routes, NEW c \in Routes, Comparable({a, b, c}),
           compare(a, b), compare(b, c)
    PROVE  compare(a, c)
<1>1. /\ a.neighbour = b.neighbour \/ a.med = b.med
      /\ b.neighbour = c.neighbour \/ b.med = c.med
      /\ a.neighbour = c.neighbour \/ a.med = c.med
  BY DEF Comparable
<1> QED
  BY <1>1, CompareRoutes, RouteFields

\* Of routes of two sources one is preferred.
LEMMA OneIsPreferred ==
    ASSUME NEW a \in Routes, NEW b \in Routes, Comparable({a, b}), ~SameSource(a, b), ~compare(a, b)
    PROVE  compare(b, a)
<1>1. a.neighbour = b.neighbour \/ a.med = b.med
  BY DEF Comparable
<1>2. b.neighbour = a.neighbour \/ b.med = a.med
  BY <1>1
<1> QED
  BY <1>1, <1>2, CompareRoutes, RouteFields DEF SameSource

\* The best route g after each of the first N routes of q.
Scans(g, q, N) ==
    g = [n \in 0 .. N |-> IF n = 0 THEN NoRoute ELSE IF compare(g[n - 1], q[n]) THEN q[n] ELSE g[n - 1]]

\* The function that recompute's loop computes exists.
LEMMA ScansExist ==
    ASSUME NEW q, NEW N \in Nat
    PROVE  \E g : Scans(g, q, N)
<1> DEFINE Step(r, x) == IF compare(r, x) THEN x ELSE r
<1> HIDE DEF Step
<1> DEFINE Made(g, n) == g = [m \in 0 .. n |-> IF m = 0 THEN NoRoute ELSE Step(g[m - 1], q[m])]
           T == {n \in 0 .. N : \E g : Made(g, n)}
<1>1. 0 \in T
  <2>1. Made([m \in 0 .. 0 |-> NoRoute], 0)
    OBVIOUS
  <2> HIDE DEF Made
  <2> QED
    BY <2>1
<1>2. ASSUME NEW n \in 0 .. N, n \in T, n < N PROVE n + 1 \in T
  <2>1. PICK g : Made(g, n)
    BY <1>2
  <2> DEFINE h == [m \in 0 .. n + 1 |-> IF m <= n THEN g[m] ELSE Step(g[n], q[n + 1])]
  <2>2. ASSUME NEW m \in 0 .. n + 1
        PROVE  h[m] = IF m = 0 THEN NoRoute ELSE Step(h[m - 1], q[m])
    <3>1. CASE m <= n
      BY <2>1, <3>1
    <3>2. CASE m = n + 1
      BY <2>1, <3>2
    <3> QED
      BY <3>1, <3>2
  <2>3. Made(h, n + 1)
    <3> DEFINE w == [m \in 0 .. n + 1 |-> IF m = 0 THEN NoRoute ELSE Step(h[m - 1], q[m])]
    <3>1. h = w
      BY <2>2
    <3> QED
      BY <3>1
  <2>4. n + 1 \in 0 .. N
    BY <1>2
  <2> HIDE DEF Made, h
  <2> QED
    BY <2>3, <2>4
<1> HIDE DEF T
<1>3. N \in T
  BY <1>1, <1>2, Reaches
<1> QED
  BY <1>3 DEF T, Step, Scans

\* The route b stands after the first n routes of q.
Standing(b, q, n) ==
    /\ n = 0 => b = NoRoute
    /\ n > 0 => \E i \in 1 .. n : b = q[i]
    /\ Comparable(Range(q)) => \A i \in 1 .. n : Prevails(b, q[i])

\* One more route is compared with the one that stands.
LEMMA StandsOn ==
    ASSUME NEW q, OnePerSource(q), NEW n \in 0 .. Len(q), n < Len(q), NEW b, Standing(b, q, n)
    PROVE  Standing(IF compare(b, q[n + 1]) THEN q[n + 1] ELSE b, q, n + 1)
<1> DEFINE r == q[n + 1]
           c == IF compare(b, r) THEN r ELSE b
<1>1. /\ Len(q) \in Nat /\ n \in Nat /\ n + 1 \in 1 .. Len(q) /\ r \in Routes /\ DOMAIN q = 1 .. Len(q)
      /\ \A i \in 1 .. Len(q) : q[i] \in Routes /\ q[i] \in Range(q)
  BY DEF OnePerSource, Range
<1>2. \A i : i \in 1 .. n + 1 <=> i \in 1 .. n \/ i = n + 1
  BY <1>1
<1>3. 1 .. n \subseteq 1 .. Len(q)
  BY <1>1
<1> HIDE DEF r, c
<1>4. CASE n = 0
  <2>1. compare(b, r) /\ c = r
    BY <1>4 DEF Standing, compare, c
  <2> QED
    BY <1>1, <1>2, <1>4, <2>1 DEF Standing, Prevails, r, c
<1>5. CASE n > 0
  <2>1. PICK k \in 1 .. n : b = q[k]
    BY <1>5 DEF Standing
  <2>2. b \in Routes /\ b \in Range(q) /\ k \in 1 .. Len(q) /\ k # n + 1
    BY <1>1, <1>3, <2>1
  <2>3. \E i \in 1 .. n + 1 : c = q[i]
    BY <1>2, <2>1 DEF c, r
  <2>4. ASSUME Comparable(Range(q)), NEW i \in 1 .. n + 1 PROVE Prevails(c, q[i])
    <3>1. r \in Range(q) /\ q[i] \in Range(q) /\ q[i] \in Routes
      BY <1>1, <1>2, <1>3 DEF r
    <3>2. CASE compare(b, r)
      <4>1. CASE i = n + 1
        BY <3>2, <4>1 DEF Prevails, c, r
      <4>2. CASE i \in 1 .. n
        <5>1. Prevails(b, q[i])
          BY <2>4, <4>2 DEF Standing
        <5>2. CASE b = q[i]
          BY <3>2, <5>2 DEF Prevails, c
        <5>3. CASE compare(q[i], b)
          <6>1. Comparable({q[i], b, r})
            BY <2>2, <2>4, <3>1 DEF Comparable
          <6>2. compare(q[i], r)
            BY <1>1, <2>2, <3>1, <3>2, <5>3, <6>1, PrefersFurther
          <6> QED
            BY <3>2, <6>2 DEF Prevails, c
        <5> QED
          BY <5>1, <5>2, <5>3 DEF Prevails
      <4> QED
        BY <1>2, <4>1, <4>2
    <3>3. CASE ~compare(b, r)
      <4>1. CASE i = n + 1
        <5>1. ~SameSource(b, r)
          BY <1>1, <2>1, <2>2 DEF OnePerSource, r
        <5>2. Comparable({b, r})
          BY <2>2, <2>4, <3>1 DEF Comparable
        <5>3. compare(r, b)
          BY <1>1, <2>2, <3>3, <5>1, <5>2, OneIsPreferred
        <5> QED
          BY <3>3, <4>1, <5>3 DEF Prevails, c, r
      <4>2. CASE i \in 1 .. n
        BY <2>4, <3>3, <4>2 DEF Standing, c
      <4> QED
        BY <1>2, <4>1, <4>2
    <3> QED
      BY <3>2, <3>3
  <2> QED
    BY <1>1, <1>5, <2>3, <2>4 DEF Standing, c, r
<1> QED
  BY <1>1, <1>4, <1>5

\* The one pass of recompute: no route where there is none, otherwise one of them, which no other
\* beats if the MEDs can be compared.
LEMMA SelectedStands ==
    ASSUME NEW q, OnePerSource(q)
    PROVE  Standing(Selected(q), q, Len(q))
<1> DEFINE N == Len(q)
           best == CHOOSE g : Scans(g, q, N)
<1>1. Selected(q) = best[N]
  BY DEF Selected, Scans
<1>2. N \in Nat
  BY DEF OnePerSource
<1>3. Scans(best, q, N)
  BY <1>2, ScansExist
<1> HIDE DEF best, N
<1>4. best[0] = NoRoute /\ \A n \in 1 .. N : best[n] = IF compare(best[n - 1], q[n]) THEN q[n] ELSE best[n - 1]
  BY <1>2, <1>3 DEF Scans
<1> DEFINE T == {n \in 0 .. N : Standing(best[n], q, n)}
<1>5. 0 \in T
  BY <1>2, <1>4 DEF Standing
<1>6. ASSUME NEW n \in 0 .. N, n \in T, n < N PROVE n + 1 \in T
  <2>1. n + 1 \in 1 .. N /\ n + 1 \in 0 .. N /\ (n + 1) - 1 = n
    BY <1>2, <1>6
  <2>2. best[n + 1] = IF compare(best[n], q[n + 1]) THEN q[n + 1] ELSE best[n]
    BY <1>4, <2>1
  <2>3. Standing(best[n + 1], q, n + 1)
    BY <1>6, <2>2, StandsOn DEF N
  <2> QED
    BY <2>1, <2>3
<1> HIDE DEF T
<1>7. N \in T
  BY <1>2, <1>5, <1>6, Reaches
<1> QED
  BY <1>1, <1>7 DEF T, N

\* A route that no other beats is the one that elimination leaves.
LEMMA StandingIsElected ==
    ASSUME NEW R, R \subseteq Routes, NEW b \in R, Comparable(R), \A r \in R : Prevails(b, r),
           \A r, s \in R : SameSource(r, s) => r = s
    PROVE  Elected(R) = {b}
<1> DEFINE pref == Greatest(R, "local_pref")
           seg == Least(pref, "segments")
           short == Least(seg, "origin")
           cheap == {r \in short : \A s \in short : s.neighbour = r.neighbour => r.med <= s.med}
           ext == External(cheap)
<1>1. ASSUME NEW r \in R
      PROVE  /\ r.peer \in Nat /\ r.is_ibgp \in BOOLEAN /\ r.local_pref \in Nat /\ r.segments \in Nat
             /\ r.origin \in Nat /\ r.med \in Nat
  BY RouteFields
<1>2. ASSUME NEW r \in R
      PROVE  /\ b.local_pref >= r.local_pref
             /\ b.local_pref = r.local_pref => b.segments <= r.segments
             /\ b.local_pref = r.local_pref /\ b.segments = r.segments => b.origin <= r.origin
             /\ b.local_pref = r.local_pref /\ b.segments = r.segments /\ b.origin = r.origin => b.med <= r.med
             /\ b.local_pref = r.local_pref /\ b.segments = r.segments /\ b.origin = r.origin /\ b.med = r.med
                   => /\ b.is_ibgp => r.is_ibgp
                      /\ b.is_ibgp = r.is_ibgp => b.peer <= r.peer
  <2>1. r.neighbour = b.neighbour \/ r.med = b.med
    BY DEF Comparable
  <2>2. r \in Routes /\ b \in Routes
    OBVIOUS
  <2>3. CASE b = r
    BY <1>1, <2>3
  <2>4. CASE compare(r, b)
    BY <1>1, <2>1, <2>2, <2>4, CompareRoutes
  <2> QED
    BY <2>3, <2>4 DEF Prevails
<1>3. b \in pref /\ \A r \in pref : r \in R /\ r.local_pref = b.local_pref
  BY <1>1, <1>2 DEF Greatest
<1> HIDE DEF pref
<1>4. b \in seg /\ \A r \in seg : r \in R /\ r.local_pref = b.local_pref /\ r.segments = b.segments
  BY <1>1, <1>2, <1>3 DEF Least
<1> HIDE DEF seg
<1>5. b \in short /\ \A r \in short : /\ r \in R /\ r.local_pref = b.local_pref /\ r.segments = b.segments
                                      /\ r.origin = b.origin
  BY <1>1, <1>2, <1>4 DEF Least
<1> HIDE DEF short
<1>6. b \in cheap /\ \A r \in cheap : r \in short /\ r.med = b.med
  <2>1. ASSUME NEW r \in short PROVE b.med <= r.med
    BY <1>2, <1>5
  <2>2. ASSUME NEW r \in cheap PROVE r.med = b.med
    <3>1. r \in short /\ r \in R /\ (r.neighbour = b.neighbour \/ r.med = b.med)
      BY <1>5 DEF Comparable
    <3>2. b.neighbour = r.neighbour => r.med <= b.med
      BY <1>5
    <3> QED
      BY <1>1, <2>1, <3>1, <3>2
  <2> QED
    BY <1>5, <2>1, <2>2
<1> HIDE DEF cheap
<1>7. ASSUME NEW r \in cheap PROVE /\ r \in R /\ (b.is_ibgp => r.is_ibgp)
                                   /\ (b.is_ibgp = r.is_ibgp => b.peer <= r.peer)
  BY <1>2, <1>5, <1>6
<1>8. b \in ext /\ \A r \in ext : r \in cheap /\ r.is_ibgp = b.is_ibgp
  <2>1. CASE b.is_ibgp
    BY <1>1, <1>6, <1>7, <2>1 DEF External
  <2>2. CASE ~b.is_ibgp
    BY <1>1, <1>6, <1>7, <2>2 DEF External
  <2> QED
    BY <2>1, <2>2
<1> HIDE DEF ext
<1>9. b \in Least(ext, "peer") /\ \A r \in Least(ext, "peer") : r = b
  <2>1. \A r \in ext : b.peer <= r.peer
    BY <1>7, <1>8
  <2>2. ASSUME NEW r \in Least(ext, "peer") PROVE r = b
    <3>1. r \in ext /\ r.peer <= b.peer
      BY <1>8 DEF Least
    <3>2. r \in R /\ r.peer = b.peer /\ r.is_ibgp = b.is_ibgp
      BY <1>1, <1>7, <1>8, <2>1, <3>1
    <3> QED
      BY <3>2 DEF SameSource
  <2> QED
    BY <1>8, <2>1, <2>2 DEF Least
<1>10. Elected(R) = Least(ext, "peer")
  BY DEF Elected, ext, cheap, short, seg, pref
<1> QED
  BY <1>9, <1>10

\* A route that peer or policy gives is a route.
LEMMA GivenIsRoute ==
    ASSUME RibConstants, NEW r \in Offers
    PROVE  r \in Routes /\ apply(r) \in Routes
<1>1. r \in Routes /\ PolicyPref \in Nat
  BY DEF RibConstants
<1>2. [r EXCEPT !.local_pref = PolicyPref] \in Routes
  BY <1>1 DEF Routes
<1> QED
  BY <1>1, <1>2 DEF apply

\* insert leaves one route per source.
LEMMA InsertKeepsOne ==
    ASSUME NEW q, OnePerSource(q), NEW r \in Routes
    PROVE  LET at == {i \in DOMAIN q : SameSource(q[i], r)}
           IN  OnePerSource(IF at = {} THEN Append(q, r) ELSE [i \in DOMAIN q |-> IF i \in at THEN r ELSE q[i]])
<1> DEFINE at == {i \in DOMAIN q : SameSource(q[i], r)}
           h == [i \in DOMAIN q |-> IF i \in at THEN r ELSE q[i]]
<1>1. q \in Seq(Routes) /\ Len(q) \in Nat /\ DOMAIN q = 1 .. Len(q)
  BY DEF OnePerSource
<1>2. CASE at = {}
  <2>1. /\ Append(q, r) \in Seq(Routes) /\ Len(Append(q, r)) = Len(q) + 1 /\ Append(q, r)[Len(q) + 1] = r
        /\ \A i \in 1 .. Len(q) : Append(q, r)[i] = q[i]
    BY <1>1
  <2> DEFINE a == Append(q, r)
  <2> HIDE DEF a
  <2>2. ASSUME NEW i \in 1 .. Len(a), NEW j \in 1 .. Len(a), SameSource(a[i], a[j]) PROVE i = j
    <3>1. \A k \in 1 .. Len(q) : ~SameSource(q[k], r)
      BY <1>1, <1>2
    <3>2. \A k \in 1 .. Len(q) : ~SameSource(r, q[k])
      BY <3>1 DEF SameSource
    <3>3. \A k \in 1 .. Len(a) : k \in 1 .. Len(q) \/ k = Len(q) + 1
      BY <1>1, <2>1 DEF a
    <3> QED
      BY <2>1, <2>2, <3>1, <3>2, <3>3 DEF OnePerSource, a
  <2> QED
    BY <1>2, <2>1, <2>2 DEF OnePerSource, a
<1>3. CASE at # {}
  <2>1. h \in Seq(Routes) /\ Len(h) = Len(q) /\ \A i \in 1 .. Len(q) : h[i] = IF i \in at THEN r ELSE q[i]
    <3>1. \A i \in 1 .. Len(q) : q[i] \in Routes
      BY <1>1
    <3>2. h \in [1 .. Len(q) -> Routes]
      BY <1>1, <3>1
    <3> QED
      BY <1>1, <3>2
  <2> HIDE DEF h
  <2>2. ASSUME NEW i \in 1 .. Len(q), NEW j \in 1 .. Len(q), SameSource(h[i], h[j]) PROVE SameSource(q[i], q[j])
    BY <1>1, <2>1, <2>2 DEF SameSource
  <2> QED
    BY <1>3, <2>1, <2>2 DEF OnePerSource, h
<1> QED
  BY <1>2, <1>3

\* What withdraw has kept, g, after each of the first N routes of q.
Keeps(g, q, peer, N) ==
    g = [n \in 0 .. N |-> IF n = 0 THEN <<>> ELSE IF q[n].peer # peer THEN Append(g[n - 1], q[n]) ELSE g[n - 1]]

\* The function that retain computes exists.
LEMMA KeepsExist ==
    ASSUME NEW q, NEW peer, NEW N \in Nat
    PROVE  \E g : Keeps(g, q, peer, N)
<1> DEFINE Step(r, x) == IF x.peer # peer THEN Append(r, x) ELSE r
<1> HIDE DEF Step
<1> DEFINE Made(g, n) == g = [m \in 0 .. n |-> IF m = 0 THEN <<>> ELSE Step(g[m - 1], q[m])]
           T == {n \in 0 .. N : \E g : Made(g, n)}
<1>1. 0 \in T
  <2>1. Made([m \in 0 .. 0 |-> <<>>], 0)
    OBVIOUS
  <2> HIDE DEF Made
  <2> QED
    BY <2>1
<1>2. ASSUME NEW n \in 0 .. N, n \in T, n < N PROVE n + 1 \in T
  <2>1. PICK g : Made(g, n)
    BY <1>2
  <2> DEFINE h == [m \in 0 .. n + 1 |-> IF m <= n THEN g[m] ELSE Step(g[n], q[n + 1])]
  <2>2. ASSUME NEW m \in 0 .. n + 1
        PROVE  h[m] = IF m = 0 THEN <<>> ELSE Step(h[m - 1], q[m])
    <3>1. CASE m <= n
      BY <2>1, <3>1
    <3>2. CASE m = n + 1
      BY <2>1, <3>2
    <3> QED
      BY <3>1, <3>2
  <2>3. Made(h, n + 1)
    <3> DEFINE w == [m \in 0 .. n + 1 |-> IF m = 0 THEN <<>> ELSE Step(h[m - 1], q[m])]
    <3>1. h = w
      BY <2>2
    <3> QED
      BY <3>1
  <2>4. n + 1 \in 0 .. N
    BY <1>2
  <2> HIDE DEF Made, h
  <2> QED
    BY <2>3, <2>4
<1> HIDE DEF T
<1>3. N \in T
  BY <1>1, <1>2, Reaches
<1> QED
  BY <1>3 DEF T, Step, Keeps

\* k is made of routes of the first n of q, one per source.
Remains(k, q, n) == OnePerSource(k) /\ \A j \in 1 .. Len(k) : \E i \in 1 .. n : k[j] = q[i]

\* withdraw leaves one route per source.
LEMMA RetainKeepsOne ==
    ASSUME NEW q, OnePerSource(q), NEW peer
    PROVE  OnePerSource(retain(q, peer))
<1> DEFINE N == Len(q)
           kept == CHOOSE g : Keeps(g, q, peer, N)
<1>1. retain(q, peer) = kept[N]
  BY DEF retain, Keeps
<1>2. N \in Nat /\ q \in Seq(Routes)
  BY DEF OnePerSource
<1>3. Keeps(kept, q, peer, N)
  BY <1>2, KeepsExist
<1> DEFINE After(k, r) == IF r.peer # peer THEN Append(k, r) ELSE k
<1> HIDE DEF kept, N, After
<1>4. kept[0] = <<>> /\ \A n \in 1 .. N : kept[n] = After(kept[n - 1], q[n])
  <2>1. kept = [n \in 0 .. N |-> IF n = 0 THEN <<>> ELSE After(kept[n - 1], q[n])]
    BY <1>3 DEF Keeps, After
  <2>2. 0 \in 0 .. N /\ \A n \in 1 .. N : n \in 0 .. N /\ n # 0
    BY <1>2
  <2> QED
    BY <2>1, <2>2, Zenon
<1> DEFINE T == {n \in 0 .. N : Remains(kept[n], q, n)}
<1>5. 0 \in T
  <2>1. <<>> \in Seq(Routes) /\ Len(<<>>) = 0 /\ 1 .. 0 = {} /\ 0 \in 0 .. N
    BY <1>2
  <2>2. Remains(<<>>, q, 0)
    BY <2>1, Zenon DEF Remains, OnePerSource
  <2> QED
    BY <1>4, <2>1, <2>2
<1>6. ASSUME NEW n \in 0 .. N, n \in T, n < N PROVE n + 1 \in T
  <2> DEFINE k == kept[n]
             r == q[n + 1]
             a == Append(k, r)
  <2>1. n + 1 \in 1 .. N /\ n + 1 \in 0 .. N /\ (n + 1) - 1 = n /\ r \in Routes /\ 1 .. n \subseteq 1 .. N
    BY <1>2, <1>6 DEF N
  <2>2. kept[n + 1] = IF r.peer # peer THEN a ELSE k
    BY <1>4, <2>1 DEF After
  <2>3. Remains(k, q, n) /\ k \in Seq(Routes) /\ Len(k) \in Nat
    <3>1. Remains(k, q, n)
      BY <1>6, Zenon
    <3> QED
      BY <3>1 DEF Remains, OnePerSource
  <2> HIDE DEF k
  <2>4. /\ a \in Seq(Routes) /\ Len(a) = Len(k) + 1 /\ a[Len(k) + 1] = r /\ \A j \in 1 .. Len(k) : a[j] = k[j]
    BY <2>1, <2>3
  <2> HIDE DEF a, r
  <2>5. \A j \in 1 .. Len(a) : j \in 1 .. Len(k) \/ j = Len(k) + 1
    BY <2>3, <2>4
  <2>6. ASSUME NEW j \in 1 .. Len(k) PROVE ~SameSource(k[j], r) /\ ~SameSource(r, k[j])
    <3>1. PICK i \in 1 .. n : k[j] = q[i]
      BY <2>3 DEF Remains
    <3>2. i \in 1 .. N /\ i # n + 1
      BY <1>2, <2>1
    <3>3. ~SameSource(q[i], q[n + 1]) /\ ~SameSource(q[n + 1], q[i])
      BY <2>1, <3>2 DEF OnePerSource, N
    <3> QED
      BY <3>1, <3>3 DEF r
  <2>7. OnePerSource(a)
    <3>1. ASSUME NEW i \in 1 .. Len(a), NEW j \in 1 .. Len(a), SameSource(a[i], a[j]) PROVE i = j
      BY <2>3, <2>4, <2>5, <2>6, <3>1 DEF Remains, OnePerSource
    <3> QED
      BY <2>4, <3>1 DEF OnePerSource
  <2>8. \A i : i \in 1 .. n => i \in 1 .. n + 1
    BY <2>1
  <2>9. n + 1 \in 1 .. n + 1
    BY <2>1
  <2>10. Remains(a, q, n + 1)
    <3>1. ASSUME NEW j \in 1 .. Len(a) PROVE \E i \in 1 .. n + 1 : a[j] = q[i]
      BY <2>3, <2>4, <2>5, <2>8, <2>9 DEF Remains, r
    <3> QED
      BY <2>7, <3>1 DEF Remains
  <2>11. Remains(k, q, n + 1)
    BY <2>3, <2>8 DEF Remains
  <2>12. Remains(kept[n + 1], q, n + 1)
    BY <2>2, <2>10, <2>11
  <2> QED
    BY <2>1, <2>12
<1> HIDE DEF T
<1>7. N \in T
  BY <1>2, <1>5, <1>6, Reaches
<1> QED
  BY <1>1, <1>7 DEF T, Remains

\* The inductive invariant: one route per source, and the last selection was of the routes there are.
RibInv ==
    /\ adj = [p \in Destinations |-> adj[p]] /\ loc = [p \in Destinations |-> loc[p]]
    /\ \A p \in Destinations : OnePerSource(adj[p]) /\ loc[p] = Selected(adj[p])

\* A new selection for routes of one per source.
LEMMA RecomputeKeeps ==
    ASSUME RibInv, NEW p \in Destinations, NEW q, OnePerSource(q), recompute(p, q)
    PROVE  RibInv'
<1>1. adj' = [adj EXCEPT ![p] = q] /\ loc' = [loc EXCEPT ![p] = Selected(q)]
  BY DEF recompute
<1>2. DOMAIN adj = Destinations /\ DOMAIN loc = Destinations
  BY DEF RibInv
<1>3. ASSUME NEW d \in Destinations PROVE OnePerSource(adj'[d]) /\ loc'[d] = Selected(adj'[d])
  BY <1>1, <1>2 DEF RibInv
<1>4. adj' = [d \in Destinations |-> adj'[d]] /\ loc' = [d \in Destinations |-> loc'[d]]
  BY <1>1, <1>2
<1> QED
  BY <1>3, <1>4 DEF RibInv

\* Whatever peers advertise, replace and withdraw, in whatever order, and whatever the policy takes: the
\* Loc-RIB has the route that elimination elects from the set of the routes (rib.rs, insert,
\* insert_with_policy, withdraw, recompute, DefaultDecision::compare), if their MEDs can be compared.
THEOREM TheBestIsElected ==
    ASSUME RibConstants
    PROVE  RibSpec => []BestIsElected
<1>1. RibInit => RibInv
  <2> SUFFICES ASSUME RibInit PROVE RibInv
    OBVIOUS
  <2>1. OnePerSource(<<>>)
    BY DEF OnePerSource
  <2>2. Selected(<<>>) = NoRoute
    BY <2>1, SelectedStands DEF Standing
  <2> QED
    BY <2>1, <2>2 DEF RibInit, RibInv
<1>2. RibInv /\ [RibNext]_ribVars => RibInv'
  <2> SUFFICES ASSUME RibInv, [RibNext]_ribVars PROVE RibInv'
    OBVIOUS
  <2>1. ASSUME NEW p \in Destinations, NEW r \in Routes, insert(p, r) PROVE RibInv'
    <3> DEFINE at == {i \in DOMAIN adj[p] : SameSource(adj[p][i], r)}
               q == IF at = {} THEN Append(adj[p], r) ELSE [i \in DOMAIN adj[p] |-> IF i \in at THEN r ELSE adj[p][i]]
    <3>1. OnePerSource(q)
      BY <2>1, InsertKeepsOne DEF RibInv
    <3>2. recompute(p, q)
      BY <2>1 DEF insert
    <3> HIDE DEF q
    <3> QED
      BY <2>1, <3>1, <3>2, RecomputeKeeps
  <2>2. ASSUME NEW p \in Destinations, NEW r \in Offers, insert_with_policy(p, r) PROVE RibInv'
    BY <2>1, <2>2, GivenIsRoute DEF insert_with_policy
  <2>3. ASSUME NEW p \in Destinations, NEW r \in Offers, withdraw(p, r.peer) PROVE RibInv'
    <3>1. OnePerSource(retain(adj[p], r.peer))
      BY <2>3, RetainKeepsOne DEF RibInv
    <3> QED
      BY <2>3, <3>1, RecomputeKeeps DEF withdraw
  <2>4. ASSUME UNCHANGED ribVars PROVE RibInv'
    BY <2>4 DEF ribVars, RibInv
  <2> QED
    BY <2>1, <2>2, <2>3, <2>4, GivenIsRoute DEF RibNext
<1>3. RibInv => BestIsElected
  <2> SUFFICES ASSUME RibInv, NEW p \in Destinations
               PROVE  LET R == Range(adj[p])
                      IN /\ loc[p] = NoRoute <=> R = {}
                         /\ R # {} /\ Comparable(R) => Elected(R) = {loc[p]}
    BY DEF BestIsElected
  <2> DEFINE q == adj[p]
             R == Range(q)
             b == loc[p]
  <2>1. OnePerSource(q) /\ b = Selected(q)
    BY DEF RibInv
  <2>2. Standing(b, q, Len(q)) /\ q \in Seq(Routes) /\ Len(q) \in Nat /\ DOMAIN q = 1 .. Len(q)
    BY <2>1, SelectedStands, SMTT(30) DEF OnePerSource
  <2> HIDE DEF q, b
  <2>3. \A x : x \in R <=> \E i \in 1 .. Len(q) : x = q[i]
    BY <2>2 DEF Range
  <2>4. R \subseteq Routes
    BY <2>2, <2>3
  <2>5. \A r, s \in R : SameSource(r, s) => r = s
    BY <2>1, <2>3 DEF OnePerSource
  <2>6. CASE Len(q) = 0
    <3>1. R = {} /\ b = NoRoute
      BY <2>2, <2>3, <2>6 DEF Standing
    <3> QED
      BY <3>1 DEF q, b
  <2>7. CASE Len(q) > 0
    <3>1. b \in R /\ R # {}
      BY <2>2, <2>3, <2>7 DEF Standing
    <3>2. b # NoRoute
      BY <2>4, <3>1, RouteFields
    <3>3. ASSUME Comparable(R) PROVE Elected(R) = {b}
      <4>1. \A r \in R : Prevails(b, r)
        BY <2>2, <2>3, <3>3 DEF Standing
      <4> HIDE DEF R
      <4> QED
        BY <2>4, <2>5, <3>1, <3>3, <4>1, StandingIsElected
    <3> QED
      BY <3>1, <3>2, <3>3 DEF q, b
  <2> QED
    BY <2>2, <2>6, <2>7
<1> QED
  BY <1>1, <1>2, <1>3, PTL DEF RibSpec

=============================================================================
