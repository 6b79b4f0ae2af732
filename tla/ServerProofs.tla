---------------------------- MODULE ServerProofs ----------------------------
(***************************************************************************)
(* The servers whose sessions share a store, and the login of an SSH       *)
(* server, for every number of connections, users, messages and commands.  *)
(*                                                                         *)
(* Smtp: what a session remembers of a transaction in progress is what its *)
(* replies accepted since MAIL (InTransaction), although EHLO leaves the   *)
(* paths of a transaction it gives up where they are: MAIL, the only way   *)
(* back into one, clears them.                                             *)
(*                                                                         *)
(* Pop3: a session's marks are the UIDs its DELE commands asked for, and   *)
(* the messages of its snapshot are in the mailbox unless a QUIT wiped them *)
(* (PopInv).  What travels is stuffed so that a lone dot ends it and       *)
(* nothing before does (FirstLone).                                        *)
(*                                                                         *)
(* Jmap: a client's copy agrees with the account wherever the change log   *)
(* has not spoken since the state the copy is of (KeeperOK).               *)
(*                                                                         *)
(* Ssh: no payload makes server_handle answer with success but one that    *)
(* proves the user (SuccessProves).                                        *)
(*                                                                         *)
(* Ldap: entries are under their names and keep the numbers of their Add   *)
(* (EntriesOK); what a search has found after n entries is what matches    *)
(* among them, by induction on n (Reaches, Gathered).                      *)
(***************************************************************************)
EXTENDS MCServers, Ssh, Integers, Sequences, FiniteSets, FiniteSetTheorems, SequenceTheorems, WellFoundedInduction, TLAPS

-----------------------------------------------------------------------------
(* Sequences *)

\* The sequences, of whatever elements.
IsSeq(q) == \E S : q \in Seq(S)

\* What Append does to a sequence of any elements.
LEMMA AppendAny ==
    ASSUME NEW q, IsSeq(q), NEW e
    PROVE  /\ IsSeq(Append(q, e))
           /\ DOMAIN Append(q, e) = 1 .. Len(q) + 1 /\ DOMAIN q = 1 .. Len(q) /\ Len(q) \in Nat
           /\ Append(q, e)[Len(q) + 1] = e
           /\ \A i \in DOMAIN q : Append(q, e)[i] = q[i]
<1>1. PICK S : q \in Seq(S)
  BY DEF IsSeq
<1> DEFINE T == S \union {e}
<1>2. q \in Seq(T) /\ e \in T
  BY <1>1
<1> HIDE DEF T
<1>3. Append(q, e) \in Seq(T)
  BY <1>2
<1> QED
  BY <1>2, <1>3 DEF IsSeq

\* One or two elements of a set make a sequence of it.
LEMMA ShortSeqs ==
    ASSUME NEW S, NEW q \in {<<x>> : x \in S} \union {<<x, y>> : x, y \in S}
    PROVE  q \in Seq(S)
<1>1. ASSUME NEW p \in {<<x>> : x \in S} PROVE p \in Seq(S)
  <2>1. PICK x \in S : p = <<x>>
    OBVIOUS
  <2> QED
    BY <2>1
<1>2. CASE q \in {<<x, y>> : x, y \in S}
  <2>1. \E x, y \in S : q = <<x, y>>
    BY <1>2
  <2> QED
    BY <2>1
<1> QED
  BY <1>1, <1>2

-----------------------------------------------------------------------------
(* Lines and dots *)

\* A message is a sequence of lines, of whose characters only the dot matters.
Lone == <<".">>
Char == {".", "x"}
Lines == Seq(Char)
Text == Seq(Lines)
Doubled(l) == IF l # <<>> /\ Head(l) = "." THEN Lone \o l ELSE l

\* A line is never sent as a lone dot, and taking the dot away that was put before it gives it back.
LEMMA Stuffing ==
    ASSUME NEW l \in Lines
    PROVE  /\ Doubled(l) \in Lines /\ Doubled(l) # Lone
           /\ l # <<>> /\ Head(l) = "." =>
                 /\ Len(Doubled(l)) >= 2 /\ Doubled(l)[1] = "." /\ Doubled(l)[2] = "."
                 /\ Doubled(l) # <<>> /\ Head(Doubled(l)) = "." /\ Tail(Doubled(l)) = l
<1>1. CASE l # <<>> /\ Head(l) = "."
  <2>1. Lone \in Seq(Char) /\ Len(Lone) = 1 /\ Lone[1] = "." /\ l \in Seq(Char)
    BY DEF Lone, Char, Lines
  <2>2. Len(l) >= 1 /\ l[1] = "." /\ Len(l) \in Nat
    BY <1>1 DEF Lines
  <2>3. /\ Lone \o l \in Seq(Char) /\ Len(Lone \o l) = 1 + Len(l)
        /\ (Lone \o l)[1] = "." /\ (Lone \o l)[2] = "."
        /\ \A i \in 1 .. Len(l) : (Lone \o l)[i + 1] = l[i]
    <3>1. /\ Lone \o l \in Seq(Char) /\ Len(Lone \o l) = 1 + Len(l)
          /\ \A i \in 1 .. 1 + Len(l) : (Lone \o l)[i] = IF i <= 1 THEN Lone[i] ELSE l[i - 1]
      <4>1. /\ Lone \o l \in Seq(Char) /\ Len(Lone \o l) = Len(Lone) + Len(l)
            /\ \A i \in 1 .. Len(Lone) + Len(l) :
                  (Lone \o l)[i] = IF i <= Len(Lone) THEN Lone[i] ELSE l[i - Len(Lone)]
        BY <2>1, ConcatProperties, Zenon
      <4> QED
        BY <2>1, <4>1, Zenon
    <3> HIDE DEF Lone
    <3> QED
      BY <2>1, <2>2, <3>1
  <2>4. /\ Lone \o l # <<>> /\ Lone \o l # Lone /\ Head(Lone \o l) = "."
        /\ Tail(Lone \o l) \in Seq(Char) /\ Len(Tail(Lone \o l)) = Len(l)
        /\ \A i \in 1 .. Len(l) : Tail(Lone \o l)[i] = l[i]
    BY <2>1, <2>2, <2>3
  <2>5. Tail(Lone \o l) = l
    BY <2>1, <2>4, SeqEqual
  <2>6. Doubled(l) = Lone \o l
    BY <1>1 DEF Doubled
  <2> QED
    BY <2>2, <2>3, <2>4, <2>5, <2>6 DEF Lines
<1>2. CASE ~(l # <<>> /\ Head(l) = ".")
  BY <1>2 DEF Doubled, Lone
<1> QED
  BY <1>1, <1>2

\* Sequences of one element.
LEMMA Singles ==
    /\ Lone \in Lines /\ <<>> \in Lines /\ Lone # <<>>
    /\ \A l \in Lines : <<l>> \in Text /\ Len(<<l>>) = 1 /\ <<l>>[1] = l
    /\ \A l, k \in Lines : <<l, k>> \in Text /\ Len(<<l, k>>) = 2 /\ <<l, k>>[1] = l /\ <<l, k>>[2] = k
<1>1. Lone \in Lines /\ <<>> \in Lines /\ Lone # <<>>
  BY DEF Lone, Lines, Char
<1>2. \A l \in Lines : <<l>> \in Seq(Lines)
  OBVIOUS
<1>3. \A l, k \in Lines : <<l, k>> \in Seq(Lines)
  OBVIOUS
<1> QED
  BY <1>1, <1>2, <1>3 DEF Text

\* The lone dot after lines that are none is the first, and before it there is none.
LEMMA FirstLone ==
    ASSUME NEW w \in Text, \A i \in DOMAIN w : w[i] # Lone
    PROVE  /\ {i \in DOMAIN (w \o <<Lone>>) : (w \o <<Lone>>)[i] = Lone} = {Len(w) + 1}
           /\ Len(w \o <<Lone>>) = Len(w) + 1
           /\ \A i \in 1 .. Len(w) : (w \o <<Lone>>)[i] = w[i]
           /\ \A n \in 0 .. Len(w) :
                 {i \in DOMAIN SubSeq(w \o <<Lone>>, 1, n) : SubSeq(w \o <<Lone>>, 1, n)[i] = Lone} = {}
<1> DEFINE v == w \o <<Lone>>
<1>1. <<Lone>> \in Text /\ Len(<<Lone>>) = 1 /\ <<Lone>>[1] = Lone
  BY Singles
<1>2. /\ v \in Text /\ Len(v) = Len(w) + 1 /\ v[Len(w) + 1] = Lone /\ Len(w) \in Nat
      /\ \A i \in 1 .. Len(w) : v[i] = w[i] /\ w[i] # Lone
  BY <1>1 DEF Text
<1> HIDE DEF v
<1>3. DOMAIN v = 1 .. Len(w) + 1
  BY <1>2 DEF Text
<1>4. {i \in DOMAIN v : v[i] = Lone} = {Len(w) + 1}
  BY <1>2, <1>3
<1>5. ASSUME NEW n \in 0 .. Len(w)
      PROVE  {i \in DOMAIN SubSeq(v, 1, n) : SubSeq(v, 1, n)[i] = Lone} = {}
  <2>1. DOMAIN SubSeq(v, 1, n) = 1 .. n /\ \A i \in 1 .. n : SubSeq(v, 1, n)[i] = v[i]
    BY <1>2 DEF Text
  <2> QED
    BY <1>2, <2>1
<1> QED
  BY <1>2, <1>4, <1>5 DEF v

-----------------------------------------------------------------------------
(* SMTP *)

Path == Senders \union {"nobody"}
SmtpSession == [state : Smt!SmtpStates, tls : BOOLEAN, from : Path, rcpts : Seq(Allowed), left : Int]
Heard == [from : Path, rcpts : Seq(Allowed)]

SmtpTyped ==
    /\ smtp \in [Links -> SmtpSession]
    /\ accepted \in [Links -> Heard]
    /\ IsSeq(queue)

\* In a transaction a session remembers what its replies accepted.
Remembers(s, a) == s.state \in {"Mail", "Rcpt"} => a.from = s.from /\ a.rcpts = s.rcpts
InTransaction == \A l \in Links : Remembers(smtp[l], accepted[l])

SmtpInv == SmtpTyped /\ InTransaction /\ Smt!EnvelopeAsAccepted

\* The invariant of SMTP holds at the start.
LEMMA SmtpStart == MaxSmtp \in Nat /\ Smt!SmtpInit => SmtpInv
<1> SUFFICES ASSUME MaxSmtp \in Nat, Smt!SmtpInit PROVE SmtpInv
  OBVIOUS
<1>1. <<>> \in Seq(Allowed) /\ IsSeq(queue)
  BY DEF IsSeq, Smt!SmtpInit
<1>2. SmtpTyped
  BY <1>1 DEF SmtpTyped, SmtpSession, Heard, Smt!SmtpInit, Smt!Nothing, Smt!SmtpStates, Path
<1> QED
  BY <1>2 DEF SmtpInv, InTransaction, Remembers, Smt!SmtpInit, Smt!EnvelopeAsAccepted

\* A step in which the session of link l becomes s and what its replies accepted a.
LEMMA SmtpStep ==
    ASSUME SmtpInv, NEW l \in Links, NEW s \in SmtpSession, NEW a \in Heard, Remembers(s, a),
           smtp' = [smtp EXCEPT ![l] = s], accepted' = [accepted EXCEPT ![l] = a],
           IsSeq(queue'), Smt!EnvelopeAsAccepted'
    PROVE  SmtpInv'
<1>1. SmtpTyped'
  BY DEF SmtpInv, SmtpTyped
<1>2. InTransaction'
  BY DEF SmtpInv, SmtpTyped, InTransaction
<1> QED
  BY <1>1, <1>2 DEF SmtpInv

\* The same for a command of link l, which counts.
LEMMA SmtpTook ==
    ASSUME SmtpInv, NEW l \in Links, NEW s \in SmtpSession, NEW a \in Heard, Remembers(s, a),
           Smt!Took(l, s), accepted' = [accepted EXCEPT ![l] = a],
           IsSeq(queue'), Smt!EnvelopeAsAccepted'
    PROVE  SmtpInv'
<1> DEFINE t == [s EXCEPT !.left = @ - 1]
<1>1. t \in SmtpSession /\ Remembers(t, a)
  BY DEF SmtpSession, Remembers
<1>2. smtp' = [smtp EXCEPT ![l] = t]
  BY DEF Smt!Took
<1> HIDE DEF t
<1> QED
  BY <1>1, <1>2, SmtpStep

\* What the commands make of a session and of what was accepted.
LEMMA SmtpCommands ==
    ASSUME NEW s \in SmtpSession, NEW a \in Heard, Remembers(s, a)
    PROVE  /\ Smt!Nothing \in Heard
           /\ Smt!cmd_ehlo(s) \in SmtpSession /\ Remembers(Smt!cmd_ehlo(s), Smt!Nothing)
           /\ Smt!reset_transaction(s) \in SmtpSession /\ Remembers(Smt!reset_transaction(s), Smt!Nothing)
           /\ Smt!cmd_starttls(s) \in SmtpSession /\ Remembers(Smt!cmd_starttls(s), a)
           /\ Smt!After_data(s) \in SmtpSession
           /\ Remembers(Smt!After_data(s), IF s.state = "Rcpt" THEN Smt!Nothing ELSE a)
<1>1. <<>> \in Seq(Allowed) /\ "Initial" \in Smt!SmtpStates /\ "nobody" \in Path
  BY DEF Smt!SmtpStates, Path
<1>2. Smt!Nothing \in Heard
  BY <1>1 DEF Smt!Nothing, Heard
<1>3. Smt!cmd_ehlo(s) \in SmtpSession /\ Remembers(Smt!cmd_ehlo(s), Smt!Nothing)
  BY <1>1 DEF Smt!cmd_ehlo, SmtpSession, Remembers
<1>4. Smt!reset_transaction(s) \in SmtpSession /\ Remembers(Smt!reset_transaction(s), Smt!Nothing)
  BY <1>1 DEF Smt!reset_transaction, SmtpSession, Remembers
<1>5. Smt!cmd_starttls(s) \in SmtpSession /\ Remembers(Smt!cmd_starttls(s), a)
  BY DEF Smt!cmd_starttls, SmtpSession, Remembers
<1> QED
  BY <1>2, <1>3, <1>4, <1>5 DEF Smt!After_data

\* MAIL keeps the invariant.
LEMMA SmtpMail ==
    ASSUME NEW s \in SmtpSession, NEW a \in Heard, Remembers(s, a), NEW from \in Senders
    PROVE  LET b == IF Smt!MailRefused(s) THEN a ELSE [from |-> from, rcpts |-> <<>>]
           IN  b \in Heard /\ Smt!cmd_mail(s, from) \in SmtpSession /\ Remembers(Smt!cmd_mail(s, from), b)
<1>1. <<>> \in Seq(Allowed) /\ "Mail" \in Smt!SmtpStates /\ from \in Path
  BY DEF Smt!SmtpStates, Path
<1>2. CASE Smt!MailRefused(s)
  BY <1>2 DEF Smt!cmd_mail
<1>3. CASE ~Smt!MailRefused(s)
  BY <1>1, <1>3 DEF Smt!cmd_mail, SmtpSession, Heard, Remembers
<1> QED
  BY <1>2, <1>3

\* RCPT keeps the invariant.
LEMMA SmtpRcpt ==
    ASSUME NEW s \in SmtpSession, NEW a \in Heard, Remembers(s, a), NEW r
    PROVE  LET b == IF Smt!RcptRefused(s, r) THEN a ELSE [a EXCEPT !.rcpts = Append(@, r)]
           IN  b \in Heard /\ Smt!cmd_rcpt(s, r) \in SmtpSession /\ Remembers(Smt!cmd_rcpt(s, r), b)
<1>1. CASE Smt!RcptRefused(s, r)
  BY <1>1 DEF Smt!cmd_rcpt
<1>2. CASE ~Smt!RcptRefused(s, r)
  <2>1. r \in Allowed /\ s.state \in {"Mail", "Rcpt"} /\ "Rcpt" \in Smt!SmtpStates
    BY <1>2 DEF Smt!RcptRefused, Smt!SmtpStates
  <2>2. a.rcpts = s.rcpts /\ a.from = s.from
    BY <2>1 DEF Remembers
  <2>3. Append(s.rcpts, r) \in Seq(Allowed)
    BY <2>1 DEF SmtpSession
  <2> QED
    BY <1>2, <2>1, <2>2, <2>3 DEF Smt!cmd_rcpt, SmtpSession, Heard, Remembers
<1> QED
  BY <1>1, <1>2

\* DATA, and a connection that breaks in the middle of a message, leave every envelope as accepted.
LEMMA SmtpData ==
    ASSUME SmtpInv, NEW l \in Links, NEW w, NEW msg, NEW taken, Smt!cmd_data(l, w, msg, taken)
    PROVE  IsSeq(queue') /\ Smt!EnvelopeAsAccepted'
<1>1. CASE queue' = queue
  BY <1>1 DEF SmtpInv, SmtpTyped, Smt!EnvelopeAsAccepted
<1>2. CASE queue' # queue
  <2>1. smtp[l].state = "Rcpt" /\ queue' = Smt!deliver(l, w, msg)
    BY <1>2 DEF Smt!cmd_data
  <2> DEFINE e == [from |-> smtp[l].from, rcpts |-> smtp[l].rcpts, body |-> Smt!read_data(w).lines,
                   sent |-> msg, accepted |-> accepted[l], given |-> sending[l]]
  <2>2. e.from = e.accepted.from /\ e.rcpts = e.accepted.rcpts
    BY <2>1 DEF SmtpInv, InTransaction, Remembers
  <2>3. queue' = Append(queue, e) /\ IsSeq(queue)
    BY <2>1 DEF Smt!deliver, SmtpInv, SmtpTyped
  <2> HIDE DEF e
  <2>4. /\ IsSeq(queue')
        /\ \A i \in DOMAIN queue' : queue'[i] = e \/ (i \in DOMAIN queue /\ queue'[i] = queue[i])
    BY <2>3, AppendAny
  <2> QED
    BY <2>2, <2>4 DEF SmtpInv, Smt!EnvelopeAsAccepted
<1> QED
  BY <1>1, <1>2

\* The invariant of SMTP is inductive.
LEMMA SmtpInductive == SmtpInv /\ [Smt!SmtpNext]_Smt!smtpVars => SmtpInv'
<1> SUFFICES ASSUME SmtpInv, [Smt!SmtpNext]_Smt!smtpVars PROVE SmtpInv'
  OBVIOUS
<1>1. CASE UNCHANGED Smt!smtpVars
  BY <1>1 DEF Smt!smtpVars, SmtpInv, SmtpTyped, InTransaction, Smt!EnvelopeAsAccepted
<1>2. ASSUME UNCHANGED queue PROVE IsSeq(queue') /\ Smt!EnvelopeAsAccepted'
  BY <1>2 DEF SmtpInv, SmtpTyped, Smt!EnvelopeAsAccepted
<1>3. ASSUME NEW l \in Links
      PROVE  smtp[l] \in SmtpSession /\ accepted[l] \in Heard /\ Remembers(smtp[l], accepted[l])
             /\ (UNCHANGED accepted => accepted' = [accepted EXCEPT ![l] = accepted[l]])
  BY DEF SmtpInv, SmtpTyped, InTransaction
<1>4. ASSUME NEW l \in Links, Smt!Ehlo(l) PROVE SmtpInv'
  BY <1>2, <1>3, <1>4, SmtpCommands, SmtpTook DEF Smt!Ehlo, Smt!Heard
<1>5. ASSUME NEW l \in Links, Smt!Rset(l) PROVE SmtpInv'
  BY <1>2, <1>3, <1>5, SmtpCommands, SmtpTook DEF Smt!Rset, Smt!Heard
<1>6. ASSUME NEW l \in Links, Smt!Starttls(l) PROVE SmtpInv'
  BY <1>2, <1>3, <1>6, SmtpCommands, SmtpTook DEF Smt!Starttls
<1>7. ASSUME NEW l \in Links, NEW from \in Senders, Smt!Mail(l, from) PROVE SmtpInv'
  BY <1>2, <1>3, <1>7, SmtpMail, SmtpTook DEF Smt!Mail, Smt!Heard
<1>8. ASSUME NEW l \in Links, NEW from \in Senders, NEW rs, NEW msg, Smt!SendMail(l, from, rs, msg) PROVE SmtpInv'
  BY <1>2, <1>3, <1>8, SmtpMail, SmtpTook DEF Smt!SendMail, Smt!Heard
<1>9. ASSUME NEW l \in Links, NEW r, Smt!Rcpt(l, r) PROVE SmtpInv'
  BY <1>2, <1>3, <1>9, SmtpRcpt, SmtpTook DEF Smt!Rcpt, Smt!Heard
<1>10. ASSUME NEW l \in Links, Smt!SendRcpt(l) PROVE SmtpInv'
  <2> DEFINE r == Head(sending[l].todo)
             b == IF Smt!RcptRefused(smtp[l], r) THEN accepted[l] ELSE [accepted[l] EXCEPT !.rcpts = Append(@, r)]
  <2>1. Smt!Took(l, Smt!cmd_rcpt(smtp[l], r)) /\ UNCHANGED queue
    BY <1>10 DEF Smt!SendRcpt
  <2>2. accepted' = [accepted EXCEPT ![l] = b]
    BY <1>3, <1>10 DEF Smt!SendRcpt, Smt!Heard
  <2>3. b \in Heard /\ Smt!cmd_rcpt(smtp[l], r) \in SmtpSession /\ Remembers(Smt!cmd_rcpt(smtp[l], r), b)
    BY <1>3, SmtpRcpt
  <2> QED
    BY <1>2, <2>1, <2>2, <2>3, SmtpTook
<1>11. ASSUME NEW l \in Links, NEW msg, NEW taken, Smt!Data(l, msg, taken) PROVE SmtpInv'
  <2>1. IsSeq(queue') /\ Smt!EnvelopeAsAccepted'
    BY <1>11, SmtpData DEF Smt!Data
  <2> QED
    BY <1>3, <1>11, <2>1, SmtpCommands, SmtpTook DEF Smt!Data, Smt!Heard
<1>12. ASSUME NEW l \in Links, NEW taken, Smt!SendData(l, taken) PROVE SmtpInv'
  <2>1. IsSeq(queue') /\ Smt!EnvelopeAsAccepted'
    BY <1>12, SmtpData DEF Smt!SendData
  <2> QED
    BY <1>3, <1>12, <2>1, SmtpCommands, SmtpTook DEF Smt!SendData, Smt!Heard
<1>13. ASSUME NEW l \in Links, UNCHANGED accepted, IsSeq(queue'), Smt!EnvelopeAsAccepted',
              smtp' = [smtp EXCEPT ![l].state = "Closed"]
       PROVE  SmtpInv'
  <2> DEFINE s == [smtp[l] EXCEPT !.state = "Closed"]
  <2>1. s \in SmtpSession /\ Remembers(s, accepted[l]) /\ smtp' = [smtp EXCEPT ![l] = s]
    BY <1>3, <1>13 DEF SmtpSession, Remembers, Smt!SmtpStates
  <2> HIDE DEF s
  <2> QED
    BY <1>3, <1>13, <2>1, SmtpStep
<1>14. ASSUME NEW l \in Links, Smt!Leave(l) PROVE SmtpInv'
  BY <1>2, <1>13, <1>14 DEF Smt!Leave
<1>15. ASSUME NEW l \in Links, NEW n, Smt!Cut(l, n) PROVE SmtpInv'
  <2>1. IsSeq(queue') /\ Smt!EnvelopeAsAccepted'
    BY <1>15, SmtpData DEF Smt!Cut
  <2> QED
    BY <1>13, <1>15, <2>1 DEF Smt!Cut
<1> QED
  BY <1>1, <1>4, <1>5, <1>6, <1>7, <1>8, <1>9, <1>10, <1>11, <1>12, <1>14, <1>15 DEF Smt!SmtpNext

\* For every number of connections, paths and commands, and wherever a client stops or its connection
\* breaks, a delivered envelope holds the reverse-path and the forward-paths that the session accepted
\* since the last MAIL it took (session.rs, cmd_mail, cmd_rcpt, cmd_data, reset_transaction).
THEOREM EnvelopesAsAccepted == MaxSmtp \in Nat /\ Smt!SmtpSpec => []EnvelopeAsAccepted
<1>1. SmtpInv => EnvelopeAsAccepted
  BY DEF SmtpInv, EnvelopeAsAccepted
<1> QED
  BY <1>1, SmtpStart, SmtpInductive, PTL DEF Smt!SmtpSpec

\* What the session reads of a message, and that it does not take a part for it.
Written(msg) == IF msg = <<>> THEN <<<<>>>> ELSE msg
\* What the lines on the wire are.
LEMMA SmtpWire ==
    ASSUME NEW msg \in Text
    PROVE  /\ Smt!read_data(Smt!DataWire(msg)).lines = Written(msg) \o <<<<>>>>
           /\ \A n \in Nat : n < Len(Smt!DataWire(msg)) => ~Smt!read_data(SubSeq(Smt!DataWire(msg), 1, n)).ended
<1> DEFINE t == Written(msg)
           w == [i \in 1 .. Len(t) + 1 |-> IF i = Len(t) + 1 THEN <<>> ELSE Doubled(t[i])]
           v == Smt!DataWire(msg)
           out == Smt!write_dot_stuffed(msg)
<1>1. t \in Text /\ Len(t) \in Nat /\ <<>> \in Lines
  <2>1. t \in Text /\ <<>> \in Lines
    BY Singles DEF Written
  <2> QED
    BY <2>1 DEF Text
<1>2. /\ w \in Text /\ Len(w) = Len(t) + 1
      /\ w[Len(t) + 1] = <<>>
      /\ \A i \in 1 .. Len(t) : w[i] = Doubled(t[i]) /\ w[i] # Lone /\ t[i] \in Lines
  <2>1. \A i \in 1 .. Len(t) : t[i] \in Lines
    BY <1>1 DEF Text
  <2>2. \A i \in 1 .. Len(t) : Doubled(t[i]) \in Lines /\ Doubled(t[i]) # Lone
    BY <2>1, Stuffing
  <2>3. w \in [1 .. Len(t) + 1 -> Lines]
    BY <1>1, <2>2
  <2>4. w \in Text /\ Len(w) = Len(t) + 1
    BY <1>1, <2>3, IsASeq DEF Text
  <2> QED
    BY <1>1, <2>1, <2>2, <2>4
<1>3. out \in Text /\ Len(out) = Len(t) /\ \A i \in 1 .. Len(t) : out[i] = Doubled(t[i])
  <2>1. CASE msg = <<>>
    <3>1. t = <<<<>>>> /\ out = <<<<>>>> /\ Doubled(<<>>) = <<>>
      BY <2>1 DEF Smt!write_dot_stuffed, Written, Doubled
    <3> QED
      BY <3>1, Singles
  <2>2. CASE msg # <<>>
    <3>1. t = msg /\ DOMAIN msg = 1 .. Len(t)
      BY <1>1, <2>2 DEF Written, Text
    <3>2. out = [i \in 1 .. Len(t) |-> Doubled(t[i])]
      BY <2>2, <3>1 DEF Smt!write_dot_stuffed, Smt!Stuffed, Smt!Dotted, Smt!Dot, Doubled, Lone
    <3>3. out \in [1 .. Len(t) -> Lines]
      BY <1>1, <3>2, Stuffing DEF Text
    <3> QED
      BY <1>1, <3>2, <3>3, IsASeq DEF Text
  <2> QED
    BY <2>1, <2>2
<1>4. v = w \o <<Lone>>
  <2>1. v = out \o <<<<>>, Lone>>
    BY DEF Smt!DataWire, Smt!LoneDot, Smt!Dot, Lone
  <2>2. <<<<>>, Lone>> \in Text /\ Len(<<<<>>, Lone>>) = 2 /\ <<Lone>> \in Text /\ Len(<<Lone>>) = 1
    BY Singles
  <2>3. v \in Text /\ Len(v) = Len(t) + 2 /\ \A i \in 1 .. Len(t) : v[i] = out[i]
    BY <1>1, <1>3, <2>1, <2>2 DEF Text
  <2>4. v[Len(t) + 1] = <<>> /\ v[Len(t) + 2] = Lone
    BY <1>1, <1>3, <2>1, <2>2 DEF Text
  <2> DEFINE u == w \o <<Lone>>
  <2>5. u \in Text /\ Len(u) = Len(t) + 2 /\ u[Len(t) + 2] = Lone /\ \A i \in 1 .. Len(t) + 1 : u[i] = w[i]
    BY <1>1, <1>2, <2>2 DEF Text
  <2> HIDE DEF u, v, w, out
  <2>6. \A i \in 1 .. Len(t) + 2 : u[i] = v[i]
    BY <1>1, <1>2, <1>3, <2>3, <2>4, <2>5
  <2>7. u = v
    BY <2>3, <2>5, <2>6, SeqEqual DEF Text
  <2> QED
    BY <2>7 DEF u
<1>5. \A i \in DOMAIN w : w[i] # Lone
  <2>1. DOMAIN w = 1 .. Len(t) + 1 /\ <<>> # Lone
    BY Singles
  <2> QED
    BY <1>1, <1>2, <2>1
<1> HIDE DEF w, v, out, t
<1>6. /\ {i \in DOMAIN v : v[i] = Lone} = {Len(t) + 2} /\ Len(v) = Len(t) + 2
      /\ \A i \in 1 .. Len(t) + 1 : v[i] = w[i]
      /\ \A n \in 0 .. Len(t) + 1 : {i \in DOMAIN SubSeq(v, 1, n) : SubSeq(v, 1, n)[i] = Lone} = {}
  BY <1>1, <1>2, <1>4, <1>5, FirstLone
<1>7. Smt!Min({Len(t) + 2}) = Len(t) + 2
  BY <1>1 DEF Smt!Min
<1>8. Smt!read_data(v).lines = [i \in 1 .. Len(t) + 1 |-> Smt!Undot(v[i])]
  <2> DEFINE ends == {i \in DOMAIN v : v[i] = Smt!LoneDot}
             n == IF ends = {} THEN Len(v) + 1 ELSE Smt!Min(ends)
  <2>1. ends = {Len(t) + 2}
    BY <1>6 DEF Smt!LoneDot, Smt!Dot, Lone
  <2>2. Smt!read_data(v).lines = [i \in 1 .. n - 1 |-> Smt!Undot(v[i])]
    BY DEF Smt!read_data
  <2> HIDE DEF ends
  <2>3. n - 1 = Len(t) + 1
    BY <1>1, <1>7, <2>1
  <2> QED
    BY <2>2, <2>3
<1>9. ASSUME NEW i \in 1 .. Len(t) PROVE Smt!Undot(v[i]) = t[i]
  <2>1. v[i] = Doubled(t[i]) /\ t[i] \in Lines
    BY <1>1, <1>2, <1>6
  <2>2. CASE t[i] # <<>> /\ Head(t[i]) = "."
    BY <2>1, <2>2, Stuffing DEF Smt!Undot, Smt!Dotted, Smt!Dot
  <2>3. CASE ~(t[i] # <<>> /\ Head(t[i]) = ".")
    BY <2>1, <2>3 DEF Smt!Undot, Smt!Dotted, Smt!Dot, Doubled
  <2> QED
    BY <2>2, <2>3
<1>10. Smt!Undot(v[Len(t) + 1]) = <<>>
  BY <1>1, <1>2, <1>6 DEF Smt!Undot, Smt!Dotted
<1> DEFINE r == [i \in 1 .. Len(t) + 1 |-> Smt!Undot(v[i])]
<1>11. r = t \o <<<<>>>>
  <2>1. <<<<>>>> \in Text /\ Len(<<<<>>>>) = 1
    BY Singles
  <2> DEFINE u == t \o <<<<>>>>
  <2>2. u \in Text /\ Len(u) = Len(t) + 1 /\ u[Len(t) + 1] = <<>> /\ \A i \in 1 .. Len(t) : u[i] = t[i]
    BY <1>1, <2>1 DEF Text
  <2>3. r \in Text /\ Len(r) = Len(t) + 1
    <3>1. \A i \in 1 .. Len(t) + 1 : Smt!Undot(v[i]) \in Lines
      BY <1>1, <1>2, <1>9, <1>10
    <3>2. r \in [1 .. Len(t) + 1 -> Lines]
      BY <3>1
    <3> QED
      BY <1>1, <3>2, IsASeq DEF Text
  <2> HIDE DEF u
  <2>4. \A i \in 1 .. Len(t) + 1 : r[i] = u[i]
    BY <1>1, <1>9, <1>10, <2>2
  <2> HIDE DEF r
  <2>5. r = u
    BY <2>2, <2>3, <2>4, SeqEqual DEF Text
  <2> QED
    BY <2>5 DEF u
<1>12. ASSUME NEW n \in Nat, n < Len(v) PROVE ~Smt!read_data(SubSeq(v, 1, n)).ended
  <2> DEFINE p == SubSeq(v, 1, n)
  <2>1. {i \in DOMAIN p : p[i] = Lone} = {}
    BY <1>1, <1>6, <1>12
  <2> HIDE DEF p
  <2>2. ~Smt!read_data(p).ended
    BY <2>1 DEF Smt!read_data, Smt!LoneDot, Smt!Dot, Lone
  <2> QED
    BY <2>2 DEF p
<1> QED
  BY <1>8, <1>11, <1>12 DEF v, t

\* The message of a call of send_mail is one of those there are.
SmtpText ==
    /\ sending \in [Links -> [from : Path, todo : Seq(Rcpts), all : Seq(Rcpts), msg : Text, at : {"idle", "rcpt"}]]
    /\ IsSeq(queue)
    /\ Smt!DeliveredWhole

\* DATA delivers the whole message or nothing.
LEMMA SmtpWhole ==
    ASSUME SmtpText, NEW l \in Links, NEW msg \in Text, NEW taken, NEW w,
           \/ w = Smt!DataWire(msg)
           \/ \E n \in Nat : n < Len(Smt!DataWire(msg)) /\ w = SubSeq(Smt!DataWire(msg), 1, n),
           Smt!cmd_data(l, w, msg, taken)
    PROVE  IsSeq(queue') /\ Smt!DeliveredWhole'
<1>1. CASE queue' = queue
  BY <1>1 DEF SmtpText, Smt!DeliveredWhole
<1>2. CASE queue' # queue
  <2>1. Smt!data_outcome(w) = "deliver" /\ queue' = Smt!deliver(l, w, msg)
    BY <1>2 DEF Smt!cmd_data
  <2>2. Smt!read_data(w).ended /\ ~(Smt!Octets(Smt!read_data(w).lines) > MaxMessage)
    BY <2>1 DEF Smt!data_outcome
  <2>3. Smt!read_data(w).lines = Written(msg) \o <<<<>>>>
    BY <2>2, SmtpWire
  <2> DEFINE e == [from |-> smtp[l].from, rcpts |-> smtp[l].rcpts, body |-> Smt!read_data(w).lines,
                   sent |-> msg, accepted |-> accepted[l], given |-> sending[l]]
  <2>4. e.body = Written(e.sent) \o <<<<>>>> /\ ~(Smt!Octets(e.body) > MaxMessage)
    BY <2>2, <2>3
  <2>5. queue' = Append(queue, e) /\ IsSeq(queue)
    BY <2>1 DEF Smt!deliver, SmtpText
  <2> HIDE DEF e
  <2>6. /\ IsSeq(queue')
        /\ \A i \in DOMAIN queue' : queue'[i] = e \/ (i \in DOMAIN queue /\ queue'[i] = queue[i])
    BY <2>5, AppendAny
  <2> QED
    BY <2>4, <2>6 DEF SmtpText, Smt!DeliveredWhole, Written
<1> QED
  BY <1>1, <1>2

\* The text in transit stays whole.
LEMMA SmtpTextInductive ==
    ASSUME SmtpMessages \subseteq Text
    PROVE  /\ Smt!SmtpInit => SmtpText
           /\ SmtpText /\ [Smt!SmtpNext]_Smt!smtpVars => SmtpText'
<1> DEFINE Call == [from : Path, todo : Seq(Rcpts), all : Seq(Rcpts), msg : Text, at : {"idle", "rcpt"}]
<1>1. Smt!Idle \in Call
  BY DEF Smt!Idle, Path, Text
<1>2. Smt!SmtpInit => SmtpText
  <2>1. Smt!SmtpInit => IsSeq(queue)
    BY DEF IsSeq, Smt!SmtpInit
  <2> QED
    BY <1>1, <2>1 DEF SmtpText, Smt!SmtpInit, Smt!DeliveredWhole
<1>3. ASSUME SmtpText, [Smt!SmtpNext]_Smt!smtpVars PROVE SmtpText'
  <2>1. ASSUME UNCHANGED queue PROVE IsSeq(queue') /\ Smt!DeliveredWhole'
    BY <1>3, <2>1 DEF SmtpText, Smt!DeliveredWhole
  <2>2. ASSUME UNCHANGED sending, UNCHANGED queue PROVE SmtpText'
    BY <1>3, <2>1, <2>2 DEF SmtpText
  <2>3. ASSUME NEW l \in Links, NEW v \in Call, sending' = [sending EXCEPT ![l] = v],
               IsSeq(queue'), Smt!DeliveredWhole'
        PROVE  SmtpText'
    BY <1>3, <2>3 DEF SmtpText
  <2>4. CASE UNCHANGED Smt!smtpVars
    BY <2>2, <2>4 DEF Smt!smtpVars
  <2>5. ASSUME NEW l \in Links, Smt!Ehlo(l) \/ Smt!Rset(l) \/ Smt!Starttls(l) PROVE SmtpText'
    BY <2>2, <2>5 DEF Smt!Ehlo, Smt!Rset, Smt!Starttls
  <2>6. ASSUME NEW l \in Links, NEW x, Smt!Mail(l, x) \/ Smt!Rcpt(l, x) PROVE SmtpText'
    BY <2>2, <2>6 DEF Smt!Mail, Smt!Rcpt
  <2>7. ASSUME NEW l \in Links, NEW from \in Senders, NEW rs \in Seq(Rcpts), NEW msg \in SmtpMessages,
               Smt!SendMail(l, from, rs, msg)
        PROVE  SmtpText'
    <3> DEFINE v == [from |-> from, todo |-> rs, all |-> rs, msg |-> msg, at |-> "rcpt"]
    <3>1. v \in Call
      BY DEF Path
    <3>2. sending' = [sending EXCEPT ![l] = v] /\ UNCHANGED queue
      BY <2>7 DEF Smt!SendMail
    <3> HIDE DEF v
    <3> QED
      BY <2>1, <2>3, <3>1, <3>2
  <2>8. ASSUME NEW l \in Links, Smt!SendRcpt(l) PROVE SmtpText'
    <3>1. UNCHANGED queue /\ sending[l] \in Call /\ sending[l].todo # <<>>
      BY <1>3, <2>8 DEF Smt!SendRcpt, SmtpText
    <3>2. CASE sending' = [sending EXCEPT ![l] = Smt!Idle]
      BY <1>1, <2>1, <2>3, <3>1, <3>2
    <3>3. CASE sending' = [sending EXCEPT ![l].todo = Tail(@)]
      <4> DEFINE v == [sending[l] EXCEPT !.todo = Tail(@)]
      <4>1. Tail(sending[l].todo) \in Seq(Rcpts)
        BY <3>1
      <4>2. v \in Call
        BY <3>1, <4>1
      <4>3. sending' = [sending EXCEPT ![l] = v]
        BY <3>3
      <4> HIDE DEF v
      <4> QED
        BY <2>1, <2>3, <3>1, <4>2, <4>3
    <3> QED
      BY <2>8, <3>2, <3>3 DEF Smt!SendRcpt
  <2>9. ASSUME NEW l \in Links, Smt!Leave(l) PROVE SmtpText'
    BY <1>1, <2>1, <2>3, <2>9 DEF Smt!Leave
  <2>10. ASSUME NEW l \in Links, NEW msg \in SmtpMessages, NEW taken, Smt!Data(l, msg, taken) PROVE SmtpText'
    <3>1. IsSeq(queue') /\ Smt!DeliveredWhole'
      BY <1>3, <2>10, SmtpWhole DEF Smt!Data
    <3> QED
      BY <1>3, <2>10, <3>1 DEF Smt!Data, SmtpText
  <2>11. ASSUME NEW l \in Links, NEW taken, Smt!SendData(l, taken) PROVE SmtpText'
    <3>1. sending[l].msg \in Text
      BY <1>3 DEF SmtpText
    <3>2. IsSeq(queue') /\ Smt!DeliveredWhole'
      BY <1>3, <2>11, <3>1, SmtpWhole DEF Smt!SendData
    <3> QED
      BY <1>1, <2>3, <2>11, <3>2 DEF Smt!SendData
  <2>12. ASSUME NEW l \in Links, NEW n \in 0 .. 4, Smt!Cut(l, n) PROVE SmtpText'
    <3>1. sending[l].msg \in Text
      BY <1>3 DEF SmtpText
    <3> DEFINE w == SubSeq(Smt!DataWire(sending[l].msg), 1, n)
    <3>2. /\ n \in Nat /\ n < Len(Smt!DataWire(sending[l].msg))
          /\ Smt!cmd_data(l, w, sending[l].msg, TRUE)
      <4>1. n \in Nat
        OBVIOUS
      <4> QED
        BY <2>12, <4>1, Zenon DEF Smt!Cut
    <3>3. IsSeq(queue') /\ Smt!DeliveredWhole'
      <4>1. \E k \in Nat : k < Len(Smt!DataWire(sending[l].msg)) /\ w = SubSeq(Smt!DataWire(sending[l].msg), 1, k)
        BY <3>2
      <4> HIDE DEF w
      <4> QED
        BY <1>3, <3>1, <3>2, <4>1, SmtpWhole
    <3> QED
      BY <1>1, <2>3, <2>12, <3>3 DEF Smt!Cut
  <2>13. ASSUME NEW rs \in {<<r>> : r \in Rcpts} \union {<<r, q>> : r, q \in Rcpts} PROVE rs \in Seq(Rcpts)
    BY <2>13, ShortSeqs
  <2> QED
    BY <1>3, <2>4, <2>5, <2>6, <2>7, <2>8, <2>9, <2>10, <2>11, <2>12, <2>13 DEF Smt!SmtpNext
<1> QED
  BY <1>2, <1>3

-----------------------------------------------------------------------------
(* POP3 *)

Account == Users \union {"none"}
MailboxContents == UNION {[U -> Text] : U \in SUBSET Nat}
Entry == [uid : Nat, content : Text, deleted : BOOLEAN]
Snapshot == UNION {[I -> Entry] : I \in SUBSET Nat}
PopSession == [state : Pop!PopStates, pending : Account, user : Account, messages : Snapshot, left : Int]

PopTyped ==
    /\ mailbox \in [Users -> MailboxContents]
    /\ pop \in [Conns -> PopSession]

\* The UIDs a session has marked are those whose DELE it acknowledged.
Marked(s) == {s.messages[i].uid : i \in {j \in DOMAIN s.messages : s.messages[j].deleted}}
MarkedIsAsked ==
    /\ asked = [c \in Conns |-> Marked(pop[c])]
    /\ \A c \in Conns : pop[c].state = "Authorization" => Marked(pop[c]) = {}

\* What a QUIT removed is in no mailbox.
Gone == \A u \in Users : \A i \in DOMAIN mailbox[u] : [user |-> u, uid |-> i] \notin wiped

\* The messages of a session are in the mailbox of its user, unless a QUIT removed them.
Accounted(s) == \A u \in Users : s.user = u =>
    \A i \in DOMAIN s.messages :
        s.messages[i].uid \in DOMAIN mailbox[u] <=> [user |-> u, uid |-> s.messages[i].uid] \notin wiped

PopInv == PopTyped /\ MarkedIsAsked /\ Gone /\ \A c \in Conns : Accounted(pop[c])

\* The invariant of POP3 holds at the start.
LEMMA PopStart ==
    "none" \notin Users /\ PopMessages \subseteq Seq(Text) /\ MaxCommands \in Nat /\ Pop!PopInit => PopInv
<1> SUFFICES ASSUME "none" \notin Users, PopMessages \subseteq Seq(Text), MaxCommands \in Nat, Pop!PopInit
             PROVE  PopInv
  OBVIOUS
<1>1. ASSUME NEW ms \in PopMessages PROVE [i \in 0 .. Len(ms) - 1 |-> ms[i + 1]] \in MailboxContents
  <2>1. ms \in Seq(Text) /\ Len(ms) \in Nat /\ 0 .. Len(ms) - 1 \in SUBSET Nat
    OBVIOUS
  <2>2. [i \in 0 .. Len(ms) - 1 |-> ms[i + 1]] \in [0 .. Len(ms) - 1 -> Text]
    BY <2>1
  <2> QED
    BY <2>1, <2>2 DEF MailboxContents
<1>2. mailbox \in [Users -> MailboxContents]
  BY <1>1 DEF Pop!PopInit
<1>3. <<>> \in Snapshot /\ DOMAIN <<>> = {}
  <2>1. <<>> \in [1 .. 0 -> Entry]
    BY LenProperties
  <2>2. 1 .. 0 \in SUBSET Nat /\ DOMAIN <<>> = {}
    OBVIOUS
  <2> QED
    BY <2>1, <2>2 DEF Snapshot
<1>4. pop \in [Conns -> PopSession]
  BY <1>3 DEF Pop!PopInit, PopSession, Account, Pop!None, Pop!PopStates
<1>5. MarkedIsAsked
  BY <1>3 DEF Pop!PopInit, MarkedIsAsked, Marked
<1>6. Gone /\ \A c \in Conns : Accounted(pop[c])
  BY <1>3 DEF Pop!PopInit, Gone, Accounted, Pop!None
<1> QED
  BY <1>2, <1>4, <1>5, <1>6 DEF PopInv, PopTyped

\* A step in which the session of connection c becomes s and the mailboxes stay.
LEMMA PopStep ==
    ASSUME PopInv, NEW c \in Conns, NEW s \in PopSession,
           s.state = "Authorization" => Marked(s) = {}, Accounted(s),
           pop' = [pop EXCEPT ![c] = s], asked' = [asked EXCEPT ![c] = Marked(s)],
           UNCHANGED <<mailbox, wiped>>
    PROVE  PopInv'
<1>1. PopTyped'
  BY DEF PopInv, PopTyped
<1>2. MarkedIsAsked'
  BY DEF PopInv, PopTyped, MarkedIsAsked
<1>3. Gone'
  BY DEF PopInv, Gone
<1>4. (\A d \in Conns : Accounted(pop[d]))'
  BY DEF PopInv, PopTyped, Accounted
<1> QED
  BY <1>1, <1>2, <1>3, <1>4 DEF PopInv

\* The same for a command, which counts.
LEMMA PopTook ==
    ASSUME PopInv, NEW c \in Conns, NEW s \in PopSession,
           s.state = "Authorization" => Marked(s) = {}, Accounted(s),
           Pop!Became(c, s), asked' = [asked EXCEPT ![c] = Marked(s)], UNCHANGED <<mailbox, wiped>>
    PROVE  PopInv'
<1> DEFINE t == [s EXCEPT !.left = @ - 1]
<1>1. t \in PopSession /\ t.messages = s.messages /\ t.user = s.user /\ t.state = s.state
  BY DEF PopSession
<1>2. pop' = [pop EXCEPT ![c] = t]
  BY DEF Pop!Became
<1> HIDE DEF t
<1>3. Marked(t) = Marked(s) /\ Accounted(t)
  BY <1>1 DEF Marked, Accounted
<1> QED
  BY <1>1, <1>2, <1>3, PopStep

\* The snapshot a session takes is of what is in the mailbox, and nothing in it is marked.
LEMMA PopEnter ==
    ASSUME PopInv, NEW s \in PopSession, NEW u \in Users, NEW q \in Pop!InOrder(DOMAIN mailbox[u])
    PROVE  LET t == Pop!enter_transaction(s, u, q)
           IN  t \in PopSession /\ t.state = "Transaction" /\ Marked(t) = {} /\ Accounted(t)
<1> DEFINE t == Pop!enter_transaction(s, u, q)
           ms == [i \in DOMAIN q |-> [uid |-> q[i], content |-> mailbox[u][q[i]], deleted |-> FALSE]]
<1>1. mailbox[u] \in MailboxContents
  BY DEF PopInv, PopTyped
<1>2. PICK U \in SUBSET Nat : mailbox[u] \in [U -> Text]
  BY <1>1 DEF MailboxContents
<1>3. PICK n : q \in [1 .. n -> U] /\ DOMAIN mailbox[u] = U
  <2>1. \E n : q \in [1 .. n -> DOMAIN mailbox[u]]
    BY Zenon DEF Pop!InOrder
  <2> QED
    BY <1>2, <2>1
<1>4. 1 .. n \in SUBSET Nat
  OBVIOUS
<1>5. DOMAIN ms = 1 .. n /\ \A i \in 1 .. n : q[i] \in U /\ ms[i] \in Entry /\ ms[i].uid = q[i] /\ ~ms[i].deleted
  BY <1>2, <1>3 DEF Entry
<1>6. ms \in [1 .. n -> Entry]
  BY <1>3, <1>5
<1>7. t = [s EXCEPT !.state = "Transaction", !.user = u, !.messages = ms]
  BY DEF Pop!enter_transaction
<1> HIDE DEF ms
<1>8. ms \in Snapshot
  BY <1>4, <1>6 DEF Snapshot
<1>9. t \in PopSession /\ t.state = "Transaction" /\ t.user = u /\ t.messages = ms
  BY <1>7, <1>8 DEF PopSession, Pop!PopStates, Account
<1> HIDE DEF t
<1>10. Marked(t) = {}
  BY <1>5, <1>9 DEF Marked
<1>11. Accounted(t)
  BY <1>3, <1>5, <1>9 DEF Accounted, PopInv, Gone
<1> QED
  BY <1>9, <1>10, <1>11 DEF t

\* The invariant of POP3 is inductive.
LEMMA PopInductive == "none" \notin Users /\ PopInv /\ [Pop!PopNext]_Pop!popVars => PopInv'
<1> SUFFICES ASSUME "none" \notin Users, PopInv, [Pop!PopNext]_Pop!popVars PROVE PopInv'
  OBVIOUS
<1>1. CASE UNCHANGED Pop!popVars
  <2>1. UNCHANGED <<mailbox, pop, asked, wiped>>
    BY <1>1 DEF Pop!popVars
  <2>2. PopTyped' /\ Gone'
    BY <2>1 DEF PopInv, PopTyped, Gone
  <2>3. MarkedIsAsked'
    BY <2>1 DEF PopInv, MarkedIsAsked, Marked
  <2>4. (\A c \in Conns : Accounted(pop[c]))'
    BY <2>1 DEF PopInv, Accounted
  <2> QED
    BY <2>2, <2>3, <2>4 DEF PopInv
<1>2. ASSUME NEW c \in Conns
      PROVE  /\ pop[c] \in PopSession /\ Accounted(pop[c]) /\ asked[c] = Marked(pop[c])
             /\ pop[c].state = "Authorization" => Marked(pop[c]) = {}
             /\ asked = [asked EXCEPT ![c] = Marked(pop[c])]
  BY DEF PopInv, PopTyped, MarkedIsAsked
<1>3. ASSUME NEW c \in Conns, NEW s \in PopSession, s.messages = pop[c].messages, s.user = pop[c].user,
             s.state # "Authorization" \/ pop[c].state = "Authorization"
      PROVE  Marked(s) = Marked(pop[c]) /\ Accounted(s) /\ (s.state = "Authorization" => Marked(s) = {})
  <2>1. Marked(s) = Marked(pop[c])
    BY <1>3 DEF Marked
  <2>2. Accounted(s)
    BY <1>2, <1>3 DEF Accounted
  <2> QED
    BY <1>2, <1>3, <2>1, <2>2
<1>4. ASSUME NEW c \in Conns, Pop!Became(c, pop[c]), UNCHANGED <<mailbox, asked, wiped>> PROVE PopInv'
  BY <1>2, <1>4, PopTook
<1>5. ASSUME NEW c \in Conns, NEW u \in Users, Pop!User(c, u) PROVE PopInv'
  <2> DEFINE s == [pop[c] EXCEPT !.pending = u]
  <2>1. s \in PopSession /\ s.messages = pop[c].messages /\ s.user = pop[c].user /\ s.state = pop[c].state
    BY <1>2 DEF PopSession, Account
  <2>2. Pop!Became(c, s) /\ UNCHANGED <<mailbox, asked, wiped>> /\ pop[c].state = "Authorization"
    BY <1>5 DEF Pop!User, Pop!Same, Pop!Command
  <2> HIDE DEF s
  <2> QED
    BY <1>2, <1>3, <2>1, <2>2, PopTook
<1>6. ASSUME NEW c \in Conns, NEW u \in Users, NEW s \in PopSession, pop[c].state = "Authorization",
             NEW q \in Pop!InOrder(DOMAIN mailbox[u]), Pop!Became(c, Pop!enter_transaction(s, u, q)), Pop!Same
      PROVE  PopInv'
  <2>1. /\ Pop!enter_transaction(s, u, q) \in PopSession /\ Accounted(Pop!enter_transaction(s, u, q))
        /\ Marked(Pop!enter_transaction(s, u, q)) = {}
    BY PopEnter
  <2>2. asked' = [asked EXCEPT ![c] = {}] /\ UNCHANGED <<mailbox, wiped>>
    BY <1>2, <1>6 DEF Pop!Same
  <2> QED
    BY <1>6, <2>1, <2>2, PopTook
<1>7. ASSUME NEW c \in Conns, NEW u \in Users, Pop!Apop(c, u) PROVE PopInv'
  BY <1>2, <1>6, <1>7 DEF Pop!Apop, Pop!Command
<1>8. ASSUME NEW c \in Conns, NEW good, Pop!Pass(c, good) PROVE PopInv'
  <2> DEFINE s == [pop[c] EXCEPT !.pending = "none"]
  <2>1. s \in PopSession /\ s.messages = pop[c].messages /\ s.user = pop[c].user /\ s.state = pop[c].state
    BY <1>2 DEF PopSession, Account
  <2>2. Pop!Same /\ UNCHANGED <<mailbox, asked, wiped>> /\ pop[c].state = "Authorization"
    BY <1>8 DEF Pop!Pass, Pop!Same, Pop!Command
  <2>3. CASE Pop!Became(c, s)
    <3> HIDE DEF s
    <3> QED
      BY <1>2, <1>3, <2>1, <2>2, <2>3, PopTook
  <2>4. CASE ~Pop!Became(c, s)
    <3> DEFINE u == pop[c].pending
    <3>1. u # "none" /\ \E q \in Pop!InOrder(DOMAIN mailbox[u]) : Pop!Became(c, Pop!enter_transaction(s, u, q))
      BY <1>8, <2>4 DEF Pop!Pass, Pop!None
    <3>2. u \in Users
      BY <1>2, <3>1 DEF PopSession, Account
    <3> HIDE DEF s, u
    <3> QED
      BY <1>6, <2>1, <2>2, <3>1, <3>2
  <2> QED
    BY <2>3, <2>4
<1>9. ASSUME NEW c \in Conns, Pop!Ask(c) PROVE PopInv'
  BY <1>4, <1>9 DEF Pop!Ask, Pop!Same
<1>10. ASSUME NEW c \in Conns, NEW num, Pop!ListOne(c, num) PROVE PopInv'
  <2> DEFINE s == [pop[c] EXCEPT !.state = "Stuck"]
  <2>1. s \in PopSession /\ s.messages = pop[c].messages /\ s.user = pop[c].user /\ s.state = "Stuck"
    BY <1>2 DEF PopSession, Pop!PopStates
  <2>2. Pop!Became(c, s) /\ UNCHANGED <<mailbox, asked, wiped>>
    BY <1>10 DEF Pop!ListOne, Pop!Same
  <2> HIDE DEF s
  <2> QED
    BY <1>2, <1>3, <2>1, <2>2, PopTook
<1>11. ASSUME NEW c \in Conns, Pop!Drop(c) PROVE PopInv'
  <2> DEFINE s == [pop[c] EXCEPT !.state = "Closed"]
  <2>1. s \in PopSession /\ s.messages = pop[c].messages /\ s.user = pop[c].user /\ s.state = "Closed"
    BY <1>2 DEF PopSession, Pop!PopStates
  <2>2. pop' = [pop EXCEPT ![c] = s] /\ UNCHANGED <<mailbox, asked, wiped>>
    BY <1>2, <1>11 DEF Pop!Drop, Pop!Same
  <2> HIDE DEF s
  <2> QED
    BY <1>2, <1>3, <2>1, <2>2, PopStep
<1>12. ASSUME NEW c \in Conns, NEW num, NEW n, Pop!Retr(c, num) \/ Pop!Top(c, num, n) PROVE PopInv'
  BY <1>4, <1>12 DEF Pop!Retr, Pop!Top, Pop!Answer
<1>13. ASSUME NEW c \in Conns PROVE \E I \in SUBSET Nat : pop[c].messages \in [I -> Entry]
  BY <1>2 DEF PopSession, Snapshot
<1>14. ASSUME NEW c \in Conns, NEW num, Pop!Dele(c, num) PROVE PopInv'
  <2>1. PICK I \in SUBSET Nat : pop[c].messages \in [I -> Entry]
    BY <1>13
  <2> DEFINE ms == [pop[c].messages EXCEPT ![num].deleted = TRUE]
             s == [pop[c] EXCEPT !.messages = ms]
  <2>2. num \in I /\ Pop!Became(c, s) /\ UNCHANGED <<mailbox, wiped>> /\ pop[c].state = "Transaction"
    BY <1>14, <2>1 DEF Pop!Dele, Pop!resolve, Pop!Command
  <2>3. asked' = [asked EXCEPT ![c] = Marked(pop[c]) \union {pop[c].messages[num].uid}]
    BY <1>2, <1>14 DEF Pop!Dele
  <2>4. /\ ms \in [I -> Entry]
        /\ \A i \in I : ms[i].uid = pop[c].messages[i].uid
                        /\ (ms[i].deleted <=> pop[c].messages[i].deleted \/ i = num)
    BY <2>1, <2>2 DEF Entry
  <2> HIDE DEF ms
  <2>5. s \in PopSession /\ s.messages = ms /\ s.user = pop[c].user /\ s.state = "Transaction"
    BY <1>2, <2>2, <2>4 DEF PopSession, Snapshot
  <2> HIDE DEF s
  <2>6. Marked(s) = Marked(pop[c]) \union {pop[c].messages[num].uid}
    BY <2>1, <2>2, <2>4, <2>5 DEF Marked
  <2>7. Accounted(s)
    BY <1>2, <2>1, <2>4, <2>5 DEF Accounted
  <2> QED
    BY <2>2, <2>3, <2>5, <2>6, <2>7, PopTook
<1>15. ASSUME NEW c \in Conns, Pop!Rset(c) PROVE PopInv'
  <2>1. PICK I \in SUBSET Nat : pop[c].messages \in [I -> Entry]
    BY <1>13
  <2> DEFINE ms == [i \in DOMAIN pop[c].messages |-> [pop[c].messages[i] EXCEPT !.deleted = FALSE]]
             s == [pop[c] EXCEPT !.messages = ms]
  <2>2. /\ Pop!Became(c, s) /\ UNCHANGED <<mailbox, wiped>> /\ pop[c].state = "Transaction"
        /\ asked' = [asked EXCEPT ![c] = {}]
    BY <1>15 DEF Pop!Rset, Pop!Unmarked, Pop!Command
  <2>4. /\ ms \in [I -> Entry]
        /\ \A i \in I : ms[i].uid = pop[c].messages[i].uid /\ ~ms[i].deleted
    BY <2>1 DEF Entry
  <2> HIDE DEF ms
  <2>5. s \in PopSession /\ s.messages = ms /\ s.user = pop[c].user /\ s.state = "Transaction"
    BY <1>2, <2>2, <2>4 DEF PopSession, Snapshot
  <2> HIDE DEF s
  <2>6. Marked(s) = {}
    BY <2>4, <2>5 DEF Marked
  <2>7. Accounted(s)
    BY <1>2, <2>1, <2>4, <2>5 DEF Accounted
  <2> QED
    BY <2>2, <2>5, <2>6, <2>7, PopTook
<1>16. ASSUME NEW c \in Conns, Pop!Quit(c) PROVE PopInv'
  <2> DEFINE s == [pop[c] EXCEPT !.state = "Closed"]
             t == [s EXCEPT !.left = @ - 1]
             w == pop[c].user
             M == Marked(pop[c])
  <2>1. t \in PopSession /\ t.messages = pop[c].messages /\ t.user = pop[c].user /\ t.state = "Closed"
    <3>1. s \in PopSession /\ s.messages = pop[c].messages /\ s.user = pop[c].user /\ s.state = "Closed"
      BY <1>2 DEF PopSession, Pop!PopStates
    <3> HIDE DEF s
    <3> QED
      BY <3>1 DEF PopSession
  <2>2. pop' = [pop EXCEPT ![c] = t] /\ UNCHANGED asked
    BY <1>16 DEF Pop!Quit, Pop!Became
  <2> HIDE DEF t
  <2>3. wiped' = wiped \union {[user |-> w, uid |-> i] : i \in M}
    BY <1>2, <1>16 DEF Pop!Quit
  <2>4. mailbox' = IF w = "none" THEN mailbox
                   ELSE [mailbox EXCEPT ![w] = [i \in DOMAIN mailbox[w] \ M |-> mailbox[w][i]]]
    BY <1>16 DEF Pop!Quit, Pop!expunge, Pop!None, Marked
  <2> HIDE DEF M
  <2>5. w \in Users \/ w = "none"
    BY <1>2 DEF PopSession, Account
  <2>6. \A u \in Users : DOMAIN mailbox'[u] = IF u = w THEN DOMAIN mailbox[u] \ M ELSE DOMAIN mailbox[u]
    BY <2>4, <2>5 DEF PopInv, PopTyped
  <2>7. \A u, i : [user |-> u, uid |-> i] \in wiped' <=> [user |-> u, uid |-> i] \in wiped \/ (u = w /\ i \in M)
    BY <2>3
  <2>8. mailbox' \in [Users -> MailboxContents]
    <3>1. mailbox \in [Users -> MailboxContents]
      BY DEF PopInv, PopTyped
    <3>2. ASSUME w \in Users PROVE [i \in DOMAIN mailbox[w] \ M |-> mailbox[w][i]] \in MailboxContents
      <4> DEFINE m == mailbox[w]
      <4>0. m \in MailboxContents
        BY <3>1, <3>2
      <4> HIDE DEF m
      <4>1. PICK U \in SUBSET Nat : m \in [U -> Text]
        BY <4>0 DEF MailboxContents
      <4>2. DOMAIN m \ M \in SUBSET Nat
        BY <4>1
      <4>3. [i \in DOMAIN m \ M |-> m[i]] \in [DOMAIN m \ M -> Text]
        BY <4>1
      <4>4. [i \in DOMAIN m \ M |-> m[i]] \in MailboxContents
        BY <4>2, <4>3 DEF MailboxContents
      <4> QED
        BY <4>4 DEF m
    <3> QED
      BY <2>4, <2>5, <3>1, <3>2
  <2>9. PopTyped'
    BY <2>1, <2>2, <2>8 DEF PopInv, PopTyped
  <2>10. MarkedIsAsked'
    <3>1. \A d \in Conns : Marked(pop'[d]) = Marked(pop[d])
      BY <2>1, <2>2 DEF PopInv, PopTyped, Marked
    <3>2. \A d \in Conns : pop'[d].state = "Authorization" => pop[d].state = "Authorization"
      BY <2>1, <2>2 DEF PopInv, PopTyped
    <3> QED
      BY <2>2, <3>1, <3>2 DEF PopInv, MarkedIsAsked, Marked
  <2>11. Gone'
    BY <2>6, <2>7 DEF PopInv, Gone
  <2>12. ASSUME NEW d \in Conns PROVE Accounted(pop[d])'
    <3>1. pop'[d].user = pop[d].user /\ pop'[d].messages = pop[d].messages /\ Accounted(pop[d])
      BY <1>2, <2>1, <2>2 DEF PopInv, PopTyped
    <3> QED
      BY <2>6, <2>7, <3>1, ZenonT(40) DEF Accounted
  <2> QED
    BY <2>9, <2>10, <2>11, <2>12 DEF PopInv
<1> QED
  BY <1>1, <1>5, <1>7, <1>8, <1>9, <1>10, <1>11, <1>12, <1>14, <1>15, <1>16 DEF Pop!PopNext

\* For every number of users, connections and messages: while two sessions of one user each work on a
\* snapshot of their own, a message is missing from the mailbox exactly when a session that ended with
\* QUIT had acknowledged its DELE and not taken it back (session.rs, dele, rset, quit; backend.rs, expunge).
THEOREM MailRemovedAsAsked ==
    /\ "none" \notin Users /\ PopMessages \subseteq Seq(Text) /\ MaxCommands \in Nat
    /\ Pop!PopSpec
    => []RemovedAsAsked
<1> SUFFICES ASSUME "none" \notin Users, PopMessages \subseteq Seq(Text), MaxCommands \in Nat
             PROVE  Pop!PopSpec => []RemovedAsAsked
  OBVIOUS
<1>1. PopInv => RemovedAsAsked
  BY DEF PopInv, Accounted, RemovedAsAsked, Pop!RemovedAsAsked
<1> QED
  BY <1>1, PopStart, PopInductive, PTL DEF Pop!PopSpec

\* Min of numbers is the least of them.
LEMMA PopMin ==
    ASSUME NEW T, T \subseteq Nat, T # {}
    PROVE  Pop!Min(T) \in T /\ \A y \in T : Pop!Min(T) <= y
<1>1. PICK x \in T : \A y \in T : ~(<<y, x>> \in OpToRel(<, Nat))
  BY WFMin, NatLessThanWellFounded
<1>2. ASSUME NEW y \in T PROVE x <= y
  <2>1. \A a, b \in Nat : a < b => <<a, b>> \in OpToRel(<, Nat)
    BY Zenon DEF OpToRel
  <2>2. ~(y < x)
    BY <1>1, <2>1, Zenon
  <2> QED
    BY <2>2
<1> QED
  BY <1>2 DEF Pop!Min

\* What TOP is about is lines of the message.
LEMMA PopTop ==
    ASSUME NEW msg \in Text, NEW n \in Nat
    PROVE  Pop!top_bytes(msg, n) \in Text
<1> DEFINE T == Pop!find_separator(msg)
           m == Pop!Min(T)
           K == {Len(msg), m + n}
           k == Pop!Min(K)
<1>1. CASE T = {}
  BY <1>1 DEF Pop!top_bytes
<1>2. CASE T # {}
  <2>1. T \subseteq Nat /\ Len(msg) \in Nat
    BY DEF Pop!find_separator, Text
  <2> HIDE DEF T
  <2>2. m \in Nat
    BY <1>2, <2>1, PopMin
  <2> HIDE DEF m
  <2>3. K \subseteq Nat /\ K # {} /\ Len(msg) \in K
    BY <2>1, <2>2
  <2> HIDE DEF K
  <2>4. k \in Nat /\ k <= Len(msg)
    BY <2>3, PopMin
  <2>5. Pop!top_bytes(msg, n) = SubSeq(msg, 1, k)
    BY <1>2 DEF Pop!top_bytes, T, m, K
  <2> HIDE DEF k
  <2>6. SubSeq(msg, 1, k) \in Seq(Lines)
    BY <2>1, <2>4 DEF Text
  <2> QED
    BY <2>5, <2>6 DEF Text
<1> QED
  BY <1>1, <1>2

\* What the client reads of a message that was sent with its dots doubled.
LEMMA PopWire ==
    ASSUME NEW msg \in Text
    PROVE  LET r == Pop!read_multiline(Pop!write_stuffed(msg) \o <<Pop!LoneDot>>)
           IN  r.lines = Written(msg) /\ r.rest = <<>>
<1> DEFINE t == Written(msg)
           out == Pop!write_stuffed(msg)
           v == out \o <<Lone>>
<1>1. t \in Text /\ Len(t) \in Nat
  <2>1. t \in Text
    BY Singles DEF Written
  <2> QED
    BY <2>1 DEF Text
<1>2. out \in Text /\ Len(out) = Len(t) /\ \A i \in 1 .. Len(t) : out[i] = Doubled(t[i]) /\ out[i] # Lone /\ t[i] \in Lines
  <2>1. CASE msg = <<>>
    <3>1. t = <<<<>>>> /\ out = <<<<>>>> /\ Doubled(<<>>) = <<>>
      BY <2>1 DEF Pop!write_stuffed, Written, Doubled
    <3> QED
      BY <3>1, Singles
  <2>2. CASE msg # <<>>
    <3>1. t = msg /\ DOMAIN msg = 1 .. Len(t)
      BY <1>1, <2>2 DEF Written, Text
    <3>2. out = [i \in 1 .. Len(t) |-> Doubled(t[i])]
      BY <2>2, <3>1 DEF Pop!write_stuffed, Pop!Stuffed, Pop!Dot, Doubled, Lone
    <3>3. \A i \in 1 .. Len(t) : t[i] \in Lines /\ Doubled(t[i]) \in Lines /\ Doubled(t[i]) # Lone
      BY <1>1, Stuffing DEF Text
    <3>4. out \in [1 .. Len(t) -> Lines]
      BY <3>2, <3>3
    <3> QED
      BY <1>1, <3>2, <3>3, <3>4, IsASeq DEF Text
  <2> QED
    BY <2>1, <2>2
<1> HIDE DEF t, out
<1>3. \A i \in DOMAIN out : out[i] # Lone
  BY <1>2 DEF Text
<1>4. /\ {i \in DOMAIN v : v[i] = Lone} = {Len(t) + 1} /\ Len(v) = Len(t) + 1
      /\ \A i \in 1 .. Len(t) : v[i] = Doubled(t[i])
  BY <1>1, <1>2, <1>3, FirstLone
<1>5. v \in Seq(Lines)
  BY <1>2, Singles DEF Text
<1> HIDE DEF v
<1>6. Pop!Min({Len(t) + 1}) = Len(t) + 1
  BY <1>1 DEF Pop!Min
<1>7. \A i \in 1 .. Len(t) : Pop!Undouble(v[i]) = t[i]
  <2>1. ASSUME NEW l \in Lines PROVE Pop!Undouble(Doubled(l)) = l
    <3>1. CASE l # <<>> /\ Head(l) = "."
      BY <3>1, Stuffing DEF Pop!Undouble, Pop!Dot
    <3>2. CASE ~(l # <<>> /\ Head(l) = ".")
      BY <3>2 DEF Pop!Undouble, Pop!Dot, Doubled, Lines
    <3> QED
      BY <3>1, <3>2
  <2> QED
    BY <1>2, <1>4, <2>1
<1> DEFINE r == Pop!read_multiline(v)
<1>8. r.lines = [i \in 1 .. Len(t) |-> Pop!Undouble(v[i])] /\ r.rest = SubSeq(v, Len(t) + 2, Len(t) + 1)
  <2> DEFINE ends == {i \in DOMAIN v : v[i] = Pop!LoneDot}
             n == IF ends = {} THEN Len(v) + 1 ELSE Pop!Min(ends)
  <2>1. ends = {Len(t) + 1}
    BY <1>4 DEF Pop!LoneDot, Pop!Dot, Lone
  <2>2. n = Len(t) + 1
    BY <1>6, <2>1
  <2>3. r = [lines |-> [i \in 1 .. n - 1 |-> Pop!Undouble(v[i])], rest |-> SubSeq(v, n + 1, Len(v))]
    BY DEF Pop!read_multiline
  <2> HIDE DEF n
  <2>4. n - 1 = Len(t) /\ n + 1 = Len(t) + 2
    BY <1>1, <2>2
  <2> QED
    BY <1>4, <2>2, <2>3, <2>4
<1>9. r.lines = t
  <2>1. r.lines = [i \in 1 .. Len(t) |-> t[i]]
    BY <1>7, <1>8
  <2> QED
    BY <1>1, <2>1 DEF Text
<1>10. r.rest = <<>>
  BY <1>1, <1>5, <1>8
<1> QED
  BY <1>9, <1>10 DEF v, t, out, Pop!LoneDot, Pop!Dot, Lone

\* The body read stays whole.
LEMMA PopBody == PopInv /\ Pop!BodyWhole /\ [Pop!PopNext]_Pop!popVars => Pop!BodyWhole'
<1> SUFFICES ASSUME PopInv, Pop!BodyWhole, [Pop!PopNext]_Pop!popVars PROVE Pop!BodyWhole'
  OBVIOUS
<1>1. CASE UNCHANGED body
  BY <1>1 DEF Pop!BodyWhole
<1>2. ASSUME NEW c \in Conns, NEW text \in Text, Pop!Answer(c, text) PROVE Pop!BodyWhole'
  <2> DEFINE r == Pop!read_multiline(Pop!write_stuffed(text) \o <<Pop!LoneDot>>)
  <2>1. body' = [sent |-> text, got |-> r.lines, rest |-> r.rest, told |-> TRUE]
    BY <1>2 DEF Pop!Answer
  <2>2. r.lines = Written(text) /\ r.rest = <<>>
    BY PopWire
  <2> HIDE DEF r
  <2> QED
    BY <2>1, <2>2 DEF Pop!BodyWhole, Written
<1>3. ASSUME NEW c \in Conns, NEW num \in DOMAIN pop[c].messages PROVE pop[c].messages[num].content \in Text
  <2>1. pop[c] \in PopSession
    BY DEF PopInv, PopTyped
  <2>2. PICK I \in SUBSET Nat : pop[c].messages \in [I -> Entry]
    BY <2>1 DEF PopSession, Snapshot
  <2> QED
    BY <2>2 DEF Entry
<1>4. ASSUME NEW c \in Conns, NEW num \in DOMAIN pop[c].messages, Pop!Retr(c, num) PROVE Pop!BodyWhole'
  BY <1>2, <1>3, <1>4 DEF Pop!Retr
<1>5. ASSUME NEW c \in Conns, NEW num \in DOMAIN pop[c].messages, NEW n \in 0 .. 1, Pop!Top(c, num, n)
      PROVE  Pop!BodyWhole'
  <2>1. Pop!top_bytes(pop[c].messages[num].content, n) \in Text
    BY <1>3, PopTop
  <2> QED
    BY <1>2, <1>5, <2>1 DEF Pop!Top
<1>6. ASSUME NEW c \in Conns, NEW x,
             \/ Pop!User(c, x) \/ Pop!Apop(c, x) \/ Pop!Pass(c, x) \/ Pop!Ask(c) \/ Pop!Rset(c)
             \/ Pop!Quit(c) \/ Pop!Drop(c) \/ Pop!Dele(c, x) \/ Pop!ListOne(c, x)
      PROVE  UNCHANGED body
  BY <1>6 DEF Pop!User, Pop!Apop, Pop!Pass, Pop!Ask, Pop!Rset, Pop!Quit, Pop!Drop, Pop!Dele, Pop!ListOne, Pop!Same
<1> QED
  BY <1>1, <1>4, <1>5, <1>6 DEF Pop!PopNext, Pop!popVars

\* Messages of any length, of lines with dots anywhere: what RETR or TOP writes is what the client
\* reads, to the end of the answer, and every mail the SMTP server stores is the text a client sent, with
\* the one empty line read_data leaves at its end and not over the announced size; a message that was cut
\* off, refused or left unfinished is not stored (session.rs of both crates, write_stuffed, read_data).
THEOREM TextIsWhole ==
    /\ "none" \notin Users /\ PopMessages \subseteq Seq(Text) /\ MaxCommands \in Nat /\ SmtpMessages \subseteq Text
    /\ Pop!PopSpec /\ Smt!SmtpSpec
    => []TextWhole
<1> SUFFICES ASSUME "none" \notin Users, PopMessages \subseteq Seq(Text), MaxCommands \in Nat, SmtpMessages \subseteq Text
             PROVE  Pop!PopSpec /\ Smt!SmtpSpec => []TextWhole
  OBVIOUS
<1>1. Pop!PopSpec => []Pop!BodyWhole
  <2>1. Pop!PopInit => Pop!BodyWhole
    BY DEF Pop!PopInit, Pop!BodyWhole, Pop!NoBody
  <2> QED
    BY <2>1, PopStart, PopInductive, PopBody, PTL DEF Pop!PopSpec
<1>2. Smt!SmtpSpec => []Smt!DeliveredWhole
  <2>1. SmtpText => Smt!DeliveredWhole
    BY DEF SmtpText
  <2> QED
    BY <2>1, SmtpTextInductive, PTL DEF Smt!SmtpSpec
<1> QED
  BY <1>1, <1>2, PTL DEF TextWhole

-----------------------------------------------------------------------------
(* JMAP *)

\* Those that keep a copy are clients, and every client is about a type of object; a page has a size.
JmapConstants == Keepers \subseteq Clients /\ Follows \in [Clients -> Jma!Types] /\ Limit \in Nat

\* A function, of whatever domain; two of them at one argument.
IsMap(f) == f = [i \in DOMAIN f |-> f[i]]
Agree(f, g, i) == (i \in DOMAIN f <=> i \in DOMAIN g) /\ (i \in DOMAIN f => f[i] = g[i])
\* The ids a ChangeSet names, and those named after a revision.
Touched(ch) == ch.created \union ch.updated \union ch.destroyed
After(a, n) == UNION {Touched(a.log[k]) : k \in n + 1 .. Len(a.log)}
\* An id that was given out and is no object's; it will be none's again, since the counter only grows.
Retired(a, i) == i[2] \in 1 .. a.next /\ \A u \in Jma!Types : i \notin DOMAIN a.objs[u]
\* The objects of an account have ids of their type that were given out.
ObjsOK(a) ==
    \A u \in Jma!Types :
        /\ IsMap(a.objs[u]) /\ IsFiniteSet(DOMAIN a.objs[u])
        /\ \A i \in DOMAIN a.objs[u] : i[1] = Jma!Prefix(u) /\ i[2] \in 1 .. a.next
\* An account: its revision is the length of the log, and what the log says was destroyed is gone.
AcctOK(a) ==
    /\ a = [revision |-> a.revision, next |-> a.next, log |-> a.log, objs |-> a.objs]
    /\ a.next \in Nat /\ a.revision = Len(a.log) /\ IsSeq(a.log)
    /\ a.objs = [u \in Jma!Types |-> a.objs[u]]
    /\ ObjsOK(a)
    /\ \A k \in 1 .. Len(a.log) : \A i \in a.log[k].destroyed : Retired(a, i)

\* Maps that agree everywhere are one.
LEMMA SameMaps ==
    ASSUME NEW f, NEW g, IsMap(f), IsMap(g), \A i : Agree(f, g, i)
    PROVE  f = g
BY DEF IsMap, Agree

\* A copy that agrees with the account outside of T, of what is fetched and of what is gone agrees
\* outside of T once a /get has brought what is fetched.
LEMMA MergedAgrees ==
    ASSUME NEW objs, NEW a, NEW u, NEW ids, NEW gone, NEW T,
           \A i : i \notin ids /\ i \notin gone /\ i \notin T => Agree(objs, a.objs[u], i),
           \A i \in gone : i \notin DOMAIN a.objs[u]
    PROVE  LET m == Jma!Merged(objs, gone, ids, Jma!get(a, u, ids))
           IN  IsMap(m) /\ \A i : i \notin T => Agree(m, a.objs[u], i)
BY DEF Jma!Merged, Jma!get, Jma!Over, IsMap, Agree

\* The account a and what a /set has made of it so far.
Stage(a, t, r) ==
    /\ r = [acct |-> r.acct, change |-> r.change]
    /\ r.change = [created |-> r.change.created, updated |-> r.change.updated, destroyed |-> r.change.destroyed]
    /\ r.acct = [revision |-> a.revision, next |-> r.acct.next, log |-> a.log, objs |-> r.acct.objs]
    /\ r.acct.next \in Nat /\ r.acct.next >= a.next
    /\ r.acct.objs = [u \in Jma!Types |-> r.acct.objs[u]]
    /\ ObjsOK(r.acct)
    /\ \A u \in Jma!Types \ {t} : r.acct.objs[u] = a.objs[u]
    /\ \A i \in DOMAIN r.acct.objs[t] : i \in DOMAIN a.objs[t] \/ i[2] > a.next
    /\ \A i : i \notin Touched(r.change) => Agree(r.acct.objs[t], a.objs[t], i)

\* The prefix of an id tells its type.
LEMMA TypesDistinct ==
    \A u, v \in Jma!Types : Jma!Prefix(u) = Jma!Prefix(v) => u = v
BY DEF Jma!Types, Jma!Prefix

\* apply_create: a new object, if it is one, has an id nobody had, and the ChangeSet names it.
LEMMA CreateStage ==
    ASSUME NEW a, AcctOK(a), NEW t \in Jma!Types, NEW arg
    PROVE  LET r == Jma!apply_create([acct |-> a, change |-> Jma!NoChange], t, arg)
           IN  Stage(a, t, r) /\ r.change.updated = {} /\ r.change.destroyed = {}
<1> DEFINE r0 == [acct |-> a, change |-> Jma!NoChange]
           i == Jma!NewId(a, t)
           C == Jma!Creatable(a, t, arg)
           new == [j \in {i : o \in C} |-> CHOOSE o \in C : TRUE]
           b == Jma!alloc(a, t)
           r == Jma!apply_create(r0, t, arg)
<1>1. r = [acct |-> [b EXCEPT !.objs[t] = Jma!Over(new, @)],
           change |-> [Jma!NoChange EXCEPT !.created = @ \union DOMAIN new]]
  BY DEF Jma!apply_create
<1>2. /\ b = [revision |-> a.revision, next |-> b.next, log |-> a.log, objs |-> a.objs]
      /\ b.next \in Nat /\ b.next > a.next
  BY DEF AcctOK, Jma!alloc
<1>3. i[1] = Jma!Prefix(t) /\ i[2] = a.next + 1
  BY DEF Jma!NewId
<1>4. IsMap(new) /\ DOMAIN new \subseteq {i} /\ IsFiniteSet(DOMAIN new)
  <2>1. IsFiniteSet({i})
    BY FS_Singleton
  <2>2. DOMAIN new \subseteq {i}
    OBVIOUS
  <2> HIDE DEF new, i
  <2>3. IsFiniteSet(DOMAIN new)
    BY <2>1, <2>2, FS_Subset
  <2> QED
    BY <2>2, <2>3 DEF new, IsMap
<1> HIDE DEF i, new, b, r
<1>5. /\ r = [acct |-> r.acct, change |-> r.change]
      /\ r.acct = [revision |-> a.revision, next |-> b.next, log |-> a.log, objs |-> r.acct.objs]
      /\ r.acct.objs = [u \in Jma!Types |-> IF u = t THEN Jma!Over(new, a.objs[t]) ELSE a.objs[u]]
      /\ r.change = [created |-> DOMAIN new, updated |-> {}, destroyed |-> {}]
  <2>1. [b EXCEPT !.objs[t] = Jma!Over(new, @)]
           = [revision |-> a.revision, next |-> b.next, log |-> a.log,
              objs |-> [u \in Jma!Types |-> IF u = t THEN Jma!Over(new, a.objs[t]) ELSE a.objs[u]]]
    BY <1>2 DEF AcctOK
  <2> QED
    BY <1>1, <2>1 DEF Jma!NoChange
<1> DEFINE o == Jma!Over(new, a.objs[t])
<1>6. /\ IsMap(o) /\ DOMAIN o = DOMAIN new \union DOMAIN a.objs[t] /\ IsFiniteSet(DOMAIN o)
      /\ \A j : j \notin DOMAIN new => Agree(o, a.objs[t], j)
  <2>1. DOMAIN o = DOMAIN new \union DOMAIN a.objs[t]
    BY DEF Jma!Over
  <2>2. IsFiniteSet(DOMAIN a.objs[t])
    BY DEF AcctOK, ObjsOK
  <2>3. IsFiniteSet(DOMAIN o)
    BY <1>4, <2>1, <2>2, FS_Union
  <2> QED
    BY <2>1, <2>3 DEF Jma!Over, IsMap, Agree
<1> HIDE DEF o
<1>7. r.acct.objs[t] = o /\ \A u \in Jma!Types \ {t} : r.acct.objs[u] = a.objs[u]
  BY <1>5 DEF o
<1>8. r.acct.next = b.next
  BY <1>5
<1>9. ObjsOK(r.acct)
  <2> SUFFICES ASSUME NEW u \in Jma!Types
               PROVE  /\ IsMap(r.acct.objs[u]) /\ IsFiniteSet(DOMAIN r.acct.objs[u])
                      /\ \A j \in DOMAIN r.acct.objs[u] : j[1] = Jma!Prefix(u) /\ j[2] \in 1 .. r.acct.next
    BY DEF ObjsOK
  <2>1. CASE u = t
    <3>1. \A j \in DOMAIN a.objs[t] : j[1] = Jma!Prefix(t) /\ j[2] \in 1 .. a.next
      BY DEF AcctOK, ObjsOK
    <3>2. a.next \in Nat
      BY DEF AcctOK
    <3>3. \A j \in DOMAIN o : j = i \/ j \in DOMAIN a.objs[t]
      BY <1>4, <1>6
    <3> QED
      BY <1>2, <1>3, <1>6, <1>7, <1>8, <2>1, <3>1, <3>2, <3>3
  <2>2. CASE u # t
    BY <1>2, <1>7, <1>8, <2>2 DEF AcctOK, ObjsOK
  <2> QED
    BY <2>1, <2>2
<1>10. \A j \in DOMAIN o : j \in DOMAIN a.objs[t] \/ j[2] > a.next
  <2>1. a.next \in Nat
    BY DEF AcctOK
  <2> QED
    BY <1>3, <1>4, <1>6, <2>1
<1>11. Touched(r.change) = DOMAIN new /\ r.change.updated = {} /\ r.change.destroyed = {}
  BY <1>5 DEF Touched
<1>12. Stage(a, t, r)
  <2>1. r.acct.objs = [u \in Jma!Types |-> r.acct.objs[u]]
    BY <1>5
  <2>2. r.acct.next \in Nat /\ r.acct.next >= a.next
    BY <1>2, <1>8 DEF AcctOK
  <2>3. r.change = [created |-> r.change.created, updated |-> r.change.updated, destroyed |-> r.change.destroyed]
    BY <1>5
  <2>4. r.acct = [revision |-> a.revision, next |-> r.acct.next, log |-> a.log, objs |-> r.acct.objs]
    BY <1>5, <1>8
  <2> QED
    BY <1>5, <1>6, <1>7, <1>9, <1>10, <1>11, <2>1, <2>2, <2>3, <2>4 DEF Stage
<1> QED
  BY <1>11, <1>12 DEF r

\* A /set that has done nothing yet.
LEMMA NothingDone ==
    ASSUME NEW a, AcctOK(a), NEW t \in Jma!Types
    PROVE  LET r == [acct |-> a, change |-> Jma!NoChange]
           IN  Stage(a, t, r) /\ r.change.updated = {} /\ r.change.destroyed = {}
<1>1. a.next \in Nat /\ a.next >= a.next
  BY DEF AcctOK
<1> QED
  BY <1>1 DEF AcctOK, Stage, Jma!NoChange, Touched, Agree

\* A ChangeSet with other updates.
LEMMA ChangeUpdated ==
    ASSUME NEW ch, NEW done,
           ch = [created |-> ch.created, updated |-> ch.updated, destroyed |-> ch.destroyed]
    PROVE  [ch EXCEPT !.updated = done] = [created |-> ch.created, updated |-> done, destroyed |-> ch.destroyed]
OBVIOUS

\* An account after record_change.
LEMMA AccountLogged ==
    ASSUME NEW a, NEW ch, a = [revision |-> a.revision, next |-> a.next, log |-> a.log, objs |-> a.objs]
    PROVE  [a EXCEPT !.revision = @ + 1, !.log = Append(@, ch)]
               = [revision |-> a.revision + 1, next |-> a.next, log |-> Append(a.log, ch), objs |-> a.objs]
<1> DEFINE b == [a EXCEPT !.revision = @ + 1]
<1>1. b = [revision |-> a.revision + 1, next |-> a.next, log |-> a.log, objs |-> a.objs]
  OBVIOUS
<1> HIDE DEF b
<1> DEFINE l == Append(a.log, ch)
<1>2. b.log = a.log
  BY <1>1
<1> HIDE DEF l
<1>3. [b EXCEPT !.log = l] = [revision |-> a.revision + 1, next |-> a.next, log |-> l, objs |-> a.objs]
  BY <1>1
<1>4. [b EXCEPT !.log = Append(@, ch)] = [b EXCEPT !.log = l]
  BY <1>2, Zenon DEF l
<1> QED
  BY <1>3, <1>4, Zenon DEF b, l

\* apply_update: the ChangeSet names what was patched, and nothing comes or goes.
LEMMA UpdateStage ==
    ASSUME NEW a, AcctOK(a), NEW t \in Jma!Types, NEW q, Stage(a, t, q), NEW patches,
           q.change.updated = {}, q.change.destroyed = {}
    PROVE  LET r == Jma!apply_update(q, t, patches)
           IN  /\ Stage(a, t, r) /\ r.change.destroyed = {}
               /\ r.change.updated \subseteq DOMAIN patches \cap DOMAIN q.acct.objs[t]
               /\ r.change.created = q.change.created
               /\ DOMAIN r.acct.objs[t] = DOMAIN q.acct.objs[t]
<1> DEFINE objs == q.acct.objs[t]
           done == {i \in DOMAIN patches \cap DOMAIN objs : Jma!Updatable(objs[i], patches[i])}
           o == [i \in DOMAIN objs |-> IF i \in done THEN Jma!Over(patches[i], objs[i]) ELSE objs[i]]
           r == Jma!apply_update(q, t, patches)
<1>1. r = [acct |-> [q.acct EXCEPT !.objs[t] = o], change |-> [q.change EXCEPT !.updated = done]]
  BY DEF Jma!apply_update
<1>2. done \subseteq DOMAIN patches \cap DOMAIN objs
  OBVIOUS
<1>3. IsMap(o) /\ DOMAIN o = DOMAIN objs /\ \A i : i \notin done => Agree(o, objs, i)
  BY DEF IsMap, Agree
<1> HIDE DEF done, o, r
<1>4. /\ r = [acct |-> r.acct, change |-> r.change]
      /\ r.acct = [revision |-> a.revision, next |-> q.acct.next, log |-> a.log, objs |-> r.acct.objs]
      /\ r.acct.objs = [u \in Jma!Types |-> IF u = t THEN o ELSE q.acct.objs[u]]
      /\ r.change = [created |-> q.change.created, updated |-> done, destroyed |-> {}]
  <2>1. [q.acct EXCEPT !.objs[t] = o]
           = [revision |-> a.revision, next |-> q.acct.next, log |-> a.log,
              objs |-> [u \in Jma!Types |-> IF u = t THEN o ELSE q.acct.objs[u]]]
    BY DEF Stage
  <2>2. [q.change EXCEPT !.updated = done]
           = [created |-> q.change.created, updated |-> done, destroyed |-> q.change.destroyed]
    BY ChangeUpdated DEF Stage
  <2> QED
    BY <1>1, <2>1, <2>2
<1>5. r.acct.objs[t] = o /\ \A u \in Jma!Types \ {t} : r.acct.objs[u] = q.acct.objs[u]
  BY <1>4
<1>6. r.acct.next = q.acct.next
  BY <1>4
<1>7. ObjsOK(r.acct)
  <2> SUFFICES ASSUME NEW u \in Jma!Types
               PROVE  /\ IsMap(r.acct.objs[u]) /\ IsFiniteSet(DOMAIN r.acct.objs[u])
                      /\ \A j \in DOMAIN r.acct.objs[u] : j[1] = Jma!Prefix(u) /\ j[2] \in 1 .. r.acct.next
    BY DEF ObjsOK
  <2>1. /\ IsMap(q.acct.objs[u]) /\ IsFiniteSet(DOMAIN q.acct.objs[u])
        /\ \A j \in DOMAIN q.acct.objs[u] : j[1] = Jma!Prefix(u) /\ j[2] \in 1 .. q.acct.next
    BY DEF Stage, ObjsOK
  <2> QED
    BY <2>1, <1>3, <1>5, <1>6
<1>8. Touched(r.change) = q.change.created \union done /\ Touched(q.change) = q.change.created
  BY <1>4 DEF Touched
<1>9. \A i : i \notin Touched(r.change) => Agree(r.acct.objs[t], a.objs[t], i)
  <2>1. \A i : i \notin Touched(q.change) => Agree(objs, a.objs[t], i)
    BY DEF Stage
  <2> QED
    BY <2>1, <1>3, <1>5, <1>8 DEF Agree
<1>10. Stage(a, t, r)
  <2>1. r.acct.objs = [u \in Jma!Types |-> r.acct.objs[u]]
    BY <1>4
  <2>2. r.acct.next \in Nat /\ r.acct.next >= a.next
    BY <1>6 DEF Stage
  <2>3. r.change = [created |-> r.change.created, updated |-> r.change.updated, destroyed |-> r.change.destroyed]
    BY <1>4
  <2>4. r.acct = [revision |-> a.revision, next |-> r.acct.next, log |-> a.log, objs |-> r.acct.objs]
    BY <1>4, <1>6
  <2>5. \A u \in Jma!Types \ {t} : r.acct.objs[u] = a.objs[u]
    BY <1>5 DEF Stage
  <2>6. \A i \in DOMAIN r.acct.objs[t] : i \in DOMAIN a.objs[t] \/ i[2] > a.next
    BY <1>3, <1>5 DEF Stage
  <2> QED
    BY <1>4, <1>7, <1>9, <2>1, <2>2, <2>3, <2>4, <2>5, <2>6 DEF Stage
<1> QED
  BY <1>2, <1>3, <1>4, <1>5, <1>10 DEF r

\* apply_destroy: the ChangeSet names what was there and is gone.
LEMMA DestroyStage ==
    ASSUME NEW a, AcctOK(a), NEW t \in Jma!Types, NEW q, Stage(a, t, q), NEW ids,
           q.change.destroyed = {}
    PROVE  LET r == Jma!apply_destroy(q, t, ids)
           IN  /\ Stage(a, t, r)
               /\ r.change.updated = q.change.updated /\ r.change.created = q.change.created
               /\ r.change.destroyed = ids \cap DOMAIN q.acct.objs[t]
               /\ \A i \in r.change.destroyed : Retired(r.acct, i)
<1> DEFINE objs == q.acct.objs[t]
           gone == ids \cap DOMAIN objs
           o == [i \in DOMAIN objs \ ids |-> objs[i]]
           r == Jma!apply_destroy(q, t, ids)
<1>1. r = [acct |-> [q.acct EXCEPT !.objs[t] = o], change |-> [q.change EXCEPT !.destroyed = gone]]
  BY DEF Jma!apply_destroy
<1>2. gone = ids \cap DOMAIN objs
  OBVIOUS
<1>3. IsMap(o) /\ DOMAIN o = DOMAIN objs \ ids /\ \A i : i \notin gone => Agree(o, objs, i)
  BY DEF IsMap, Agree
<1> HIDE DEF gone, o, r
<1>4. /\ r = [acct |-> r.acct, change |-> r.change]
      /\ r.acct = [revision |-> a.revision, next |-> q.acct.next, log |-> a.log, objs |-> r.acct.objs]
      /\ r.acct.objs = [u \in Jma!Types |-> IF u = t THEN o ELSE q.acct.objs[u]]
      /\ r.change = [created |-> q.change.created, updated |-> q.change.updated, destroyed |-> gone]
  <2>1. [q.acct EXCEPT !.objs[t] = o]
           = [revision |-> a.revision, next |-> q.acct.next, log |-> a.log,
              objs |-> [u \in Jma!Types |-> IF u = t THEN o ELSE q.acct.objs[u]]]
    BY DEF Stage
  <2>2. [q.change EXCEPT !.destroyed = gone]
           = [created |-> q.change.created, updated |-> q.change.updated, destroyed |-> gone]
    BY DEF Stage
  <2> QED
    BY <1>1, <2>1, <2>2
<1>5. r.acct.objs[t] = o /\ \A u \in Jma!Types \ {t} : r.acct.objs[u] = q.acct.objs[u]
  BY <1>4
<1>6. r.acct.next = q.acct.next
  BY <1>4
<1>7. ObjsOK(r.acct)
  <2> SUFFICES ASSUME NEW u \in Jma!Types
               PROVE  /\ IsMap(r.acct.objs[u]) /\ IsFiniteSet(DOMAIN r.acct.objs[u])
                      /\ \A j \in DOMAIN r.acct.objs[u] : j[1] = Jma!Prefix(u) /\ j[2] \in 1 .. r.acct.next
    BY DEF ObjsOK
  <2>1. /\ IsMap(q.acct.objs[u]) /\ IsFiniteSet(DOMAIN q.acct.objs[u])
        /\ \A j \in DOMAIN q.acct.objs[u] : j[1] = Jma!Prefix(u) /\ j[2] \in 1 .. q.acct.next
    BY DEF Stage, ObjsOK
  <2>2. DOMAIN r.acct.objs[u] \subseteq DOMAIN q.acct.objs[u] /\ IsMap(r.acct.objs[u])
    BY <2>1, <1>3, <1>5
  <2>3. IsFiniteSet(DOMAIN r.acct.objs[u])
    BY <2>1, <2>2, FS_Subset
  <2> QED
    BY <2>1, <2>2, <2>3, <1>6
<1>8. Touched(r.change) = Touched(q.change) \union gone
  BY <1>4 DEF Touched
<1>9. \A i : i \notin Touched(r.change) => Agree(r.acct.objs[t], a.objs[t], i)
  <2>1. \A i : i \notin Touched(q.change) => Agree(objs, a.objs[t], i)
    BY DEF Stage
  <2> QED
    BY <2>1, <1>3, <1>5, <1>8 DEF Agree
<1>10. Stage(a, t, r)
  <2>1. r.acct.objs = [u \in Jma!Types |-> r.acct.objs[u]]
    BY <1>4
  <2>2. r.acct.next \in Nat /\ r.acct.next >= a.next
    BY <1>6 DEF Stage
  <2>3. r.change = [created |-> r.change.created, updated |-> r.change.updated, destroyed |-> r.change.destroyed]
    BY <1>4
  <2>4. r.acct = [revision |-> a.revision, next |-> r.acct.next, log |-> a.log, objs |-> r.acct.objs]
    BY <1>4, <1>6
  <2>5. \A u \in Jma!Types \ {t} : r.acct.objs[u] = a.objs[u]
    BY <1>5 DEF Stage
  <2>6. \A i \in DOMAIN r.acct.objs[t] : i \in DOMAIN a.objs[t] \/ i[2] > a.next
    BY <1>3, <1>5 DEF Stage
  <2> QED
    BY <1>4, <1>7, <1>9, <2>1, <2>2, <2>3, <2>4, <2>5, <2>6 DEF Stage
<1>11. ASSUME NEW i \in gone PROVE Retired(r.acct, i)
  <2>1. i[1] = Jma!Prefix(t) /\ i[2] \in 1 .. r.acct.next
    BY <1>2, <1>6, <1>11 DEF Stage, ObjsOK
  <2>2. i \notin DOMAIN r.acct.objs[t]
    BY <1>2, <1>3, <1>5, <1>11
  <2>3. ASSUME NEW u \in Jma!Types \ {t} PROVE i \notin DOMAIN r.acct.objs[u]
    BY <1>7, <2>1, TypesDistinct DEF ObjsOK
  <2> QED
    BY <2>1, <2>2, <2>3 DEF Retired
<1>12. /\ r.change.updated = q.change.updated /\ r.change.created = q.change.created
       /\ r.change.destroyed = gone
  BY <1>4
<1> QED
  BY <1>2, <1>10, <1>11, <1>12 DEF r

\* The arguments of a /set create an object or change some.
ArgsFit(args) == args.create = <<>> \/ (Len(args.create) = 1 /\ args.update = <<>> /\ args.destroy = {})

\* What a /set does to an account a.
SetDone(a, t, s) ==
    /\ AcctOK(s.acct) /\ s.acct.next >= a.next
    /\ \A u \in Jma!Types \ {t} : s.acct.objs[u] = a.objs[u]
    /\ \A i : i \notin Touched(s.change) => Agree(s.acct.objs[t], a.objs[t], i)
    /\ \A i \in DOMAIN s.acct.objs[t] : i \in DOMAIN a.objs[t] \/ i[2] > a.next
    /\ \A i \in s.change.destroyed : i \notin DOMAIN s.acct.objs[t]
    /\ s.change.updated \union s.change.destroyed \subseteq DOMAIN a.objs[t]
    /\ IF s.change = Jma!NoChange THEN s.acct.revision = a.revision /\ s.acct.log = a.log
       ELSE s.acct.revision = a.revision + 1 /\ s.acct.log = Append(a.log, s.change)

\* What is gone stays gone as long as new ids are above the counter.
LEMMA RetiredStays ==
    ASSUME NEW a, AcctOK(a), NEW t \in Jma!Types, NEW b, b.next \in Nat, b.next >= a.next,
           \A u \in Jma!Types \ {t} : b.objs[u] = a.objs[u],
           \A i \in DOMAIN b.objs[t] : i \in DOMAIN a.objs[t] \/ i[2] > a.next,
           NEW i, Retired(a, i)
    PROVE  Retired(b, i)
<1>1. i[2] \in 1 .. a.next /\ a.next \in Nat
  BY DEF Retired, AcctOK
<1> QED
  BY <1>1 DEF Retired

\* Whatever a /set creates, patches and destroys, its ChangeSet names every object that is another after
\* it, and the revision moves unless there is none.
LEMMA SetSound ==
    ASSUME NEW a, AcctOK(a), NEW t \in Jma!Types, NEW args, ArgsFit(args)
    PROVE  SetDone(a, t, Jma!set(a, t, args))
<1> DEFINE n == Len(args.create)
           r0 == [acct |-> a, change |-> Jma!NoChange]
           Made(g) == g = [k \in 0 .. n |-> IF k = 0 THEN r0 ELSE Jma!apply_create(g[k - 1], t, args.create[k])]
           made == CHOOSE g : Made(g)
           r2 == Jma!apply_update(made[n], t, args.update)
           r == Jma!apply_destroy(r2, t, args.destroy)
           s == Jma!set(a, t, args)
<1>1. s = [acct |-> Jma!record_change(r.acct, r.change), change |-> r.change]
  BY DEF Jma!set
<1>2. n = 0 \/ n = 1
  BY DEF ArgsFit
<1>3. Made(made)
  <2>1. \E g : Made(g)
    <3> DEFINE w == [k \in 0 .. n |-> IF k = 0 THEN r0 ELSE Jma!apply_create(r0, t, args.create[1])]
    <3>1. Made(w)
      BY <1>2
    <3> QED
      BY <3>1
  <2> QED
    BY <2>1
<1> HIDE DEF made, r2, r, s
<1>4. Stage(a, t, made[n]) /\ made[n].change.updated = {} /\ made[n].change.destroyed = {}
  <2>1. CASE n = 0
    BY <1>3, <2>1, NothingDone
  <2>2. CASE n = 1
    <3>1. made[n] = Jma!apply_create(r0, t, args.create[1])
      BY <1>3, <2>2
    <3> QED
      BY <3>1, CreateStage
  <2> QED
    BY <1>2, <2>1, <2>2
<1>5. /\ Stage(a, t, r2) /\ r2.change.destroyed = {}
      /\ r2.change.updated \subseteq DOMAIN args.update \cap DOMAIN made[n].acct.objs[t]
      /\ r2.change.created = made[n].change.created
      /\ DOMAIN r2.acct.objs[t] = DOMAIN made[n].acct.objs[t]
  BY <1>4, UpdateStage DEF r2
<1>6. /\ Stage(a, t, r)
      /\ r.change.updated = r2.change.updated /\ r.change.created = r2.change.created
      /\ r.change.destroyed = args.destroy \cap DOMAIN r2.acct.objs[t]
      /\ \A i \in r.change.destroyed : Retired(r.acct, i)
  BY <1>5, DestroyStage DEF r
<1>7. r.change.updated \union r.change.destroyed \subseteq DOMAIN a.objs[t]
  <2>1. CASE args.create = <<>>
    <3>1. made[n].acct = a
      BY <1>3, <2>1
    <3> QED
      BY <3>1, <1>5, <1>6
  <2>2. CASE args.update = <<>> /\ args.destroy = {}
    BY <1>5, <1>6, <2>2
  <2> QED
    BY <2>1, <2>2 DEF ArgsFit
<1> DEFINE b == s.acct
<1>8. /\ b.next = r.acct.next /\ b.objs = r.acct.objs /\ s.change = r.change
      /\ IF r.change = Jma!NoChange THEN b.revision = a.revision /\ b.log = a.log
         ELSE b.revision = a.revision + 1 /\ b.log = Append(a.log, r.change)
      /\ b = [revision |-> b.revision, next |-> b.next, log |-> b.log, objs |-> b.objs]
  <2>1. r.acct = [revision |-> a.revision, next |-> r.acct.next, log |-> a.log, objs |-> r.acct.objs]
    BY <1>6 DEF Stage
  <2>2. CASE r.change = Jma!NoChange
    BY <1>1, <2>1, <2>2 DEF Jma!record_change
  <2>3. CASE r.change # Jma!NoChange
    <3>1. b = [r.acct EXCEPT !.revision = @ + 1, !.log = Append(@, r.change)]
      BY <1>1, <2>3 DEF Jma!record_change
    <3>2. b = [revision |-> a.revision + 1, next |-> r.acct.next, log |-> Append(a.log, r.change),
               objs |-> r.acct.objs]
      <4>1. /\ r.acct = [revision |-> r.acct.revision, next |-> r.acct.next, log |-> r.acct.log, objs |-> r.acct.objs]
            /\ r.acct.revision = a.revision /\ r.acct.log = a.log
        BY <2>1
      <4> QED
        BY <3>1, <4>1, AccountLogged, ZenonT(40)
    <3> QED
      BY <1>1, <2>3, <3>2
  <2> QED
    BY <2>2, <2>3
<1> HIDE DEF b
<1>9. ObjsOK(b) /\ b.next \in Nat /\ b.next >= a.next /\ b.objs = [u \in Jma!Types |-> b.objs[u]]
  BY <1>6, <1>8 DEF Stage, ObjsOK
<1>10. /\ \A u \in Jma!Types \ {t} : b.objs[u] = a.objs[u]
       /\ \A i : i \notin Touched(r.change) => Agree(b.objs[t], a.objs[t], i)
       /\ \A i \in DOMAIN b.objs[t] : i \in DOMAIN a.objs[t] \/ i[2] > a.next
  BY <1>6, <1>8 DEF Stage
<1>11. \A i \in r.change.destroyed : Retired(b, i)
  BY <1>6, <1>8 DEF Retired
<1>12. \A k \in 1 .. Len(a.log) : \A i \in a.log[k].destroyed : Retired(b, i)
  BY <1>9, <1>10, RetiredStays DEF AcctOK
<1>13. AcctOK(b)
  <2>1. IsSeq(a.log) /\ a.revision = Len(a.log)
    BY DEF AcctOK
  <2>2. CASE r.change = Jma!NoChange
    BY <1>8, <1>9, <1>12, <2>1, <2>2 DEF AcctOK
  <2>3. CASE r.change # Jma!NoChange
    <3>1. /\ IsSeq(b.log) /\ Len(b.log) = Len(a.log) + 1 /\ Len(a.log) \in Nat
          /\ b.log[Len(a.log) + 1] = r.change
          /\ \A k \in 1 .. Len(a.log) : b.log[k] = a.log[k]
      <4>1. b.log = Append(a.log, r.change)
        BY <1>8, <2>3
      <4>2. Len(Append(a.log, r.change)) = Len(a.log) + 1
        BY <2>1 DEF IsSeq
      <4> QED
        BY <2>1, <4>1, <4>2, AppendAny
    <3>2. ASSUME NEW k \in 1 .. Len(b.log), NEW i \in b.log[k].destroyed PROVE Retired(b, i)
      <4>1. CASE k = Len(a.log) + 1
        BY <1>11, <3>1, <3>2, <4>1
      <4>2. CASE k \in 1 .. Len(a.log)
        BY <1>12, <3>1, <3>2, <4>2
      <4> QED
        BY <3>1, <4>1, <4>2
    <3>3. b.revision = Len(b.log)
      BY <1>8, <2>1, <2>3, <3>1
    <3> QED
      BY <1>8, <1>9, <3>1, <3>2, <3>3 DEF AcctOK
  <2> QED
    BY <2>2, <2>3
<1>14. \A i \in r.change.destroyed : i \notin DOMAIN b.objs[t]
  BY <1>11 DEF Retired
<1> QED
  BY <1>7, <1>8, <1>9, <1>10, <1>13, <1>14 DEF SetDone, b, s

\* A client's copy k of the objects of type u: where the log has not spoken since the state it is of, it
\* agrees with the account; in the middle of a synchronisation, where it has not spoken since the state
\* /changes gave and /changes named nothing.
KeeperOK(a, u, k) ==
    /\ k = [objs |-> k.objs, state |-> k.state, sync |-> k.sync] /\ IsMap(k.objs)
    /\ k.state \in 0 .. a.revision
    /\ \/ /\ k.sync = Jma!NoSync
          /\ \A i : i \notin After(a, k.state) => Agree(k.objs, a.objs[u], i)
       \/ /\ k.sync # Jma!NoSync /\ k.sync.new \in 0 .. a.revision
          /\ \A i : i \notin After(a, k.sync.new) /\ i \notin k.sync.ids /\ i \notin k.sync.gone
                        => Agree(k.objs, a.objs[u], i)
          /\ \A i \in k.sync.gone : Retired(a, i)

\* The pages p of a query whose answer is q: a beginning of it while the state string stands, and all of it at
\* the end.
PageOK(rev, q, p) ==
    /\ p.state \in {Jma!None} \union (0 .. rev)
    /\ p.state = Jma!None => p.ids = <<>> /\ ~p.done
    /\ p.state = rev => /\ Len(p.ids) \in 0 .. Len(q) /\ p.ids = SubSeq(q, 1, Len(p.ids))
                        /\ p.done => p.ids = q

\* The inductive invariant.
JmapInv ==
    /\ AcctOK(acct) /\ overwritten = {}
    /\ copy = [c \in Clients |-> copy[c]] /\ page = [c \in Clients |-> page[c]]
    /\ \A c \in Keepers : KeeperOK(acct, Follows[c], copy[c])
    /\ \A c \in Clients : PageOK(acct.revision, Jma!sorted(Follows[c]), page[c])

\* The log says nothing after the present revision.
LEMMA AfterAll ==
    ASSUME NEW a, AcctOK(a)
    PROVE  After(a, a.revision) = {}
<1>1. a.revision = Len(a.log) /\ Len(a.log) \in Nat
  BY AppendAny DEF AcctOK
<1> QED
  BY <1>1 DEF After

\* After a /set the log names what it named, and what the /set touched.
LEMMA AfterSet ==
    ASSUME NEW a, AcctOK(a), NEW t, NEW s, SetDone(a, t, s), NEW n \in 0 .. a.revision
    PROVE  \A i : i \notin After(s.acct, n) => i \notin After(a, n) /\ i \notin Touched(s.change)
<1>1. IsSeq(a.log) /\ a.revision = Len(a.log) /\ Len(a.log) \in Nat
  BY AppendAny DEF AcctOK
<1>2. CASE s.change = Jma!NoChange
  BY <1>2 DEF SetDone, After, Touched, Jma!NoChange
<1>3. CASE s.change # Jma!NoChange
  <2>1. s.acct.log = Append(a.log, s.change)
    BY <1>3 DEF SetDone
  <2>2. /\ Len(s.acct.log) = Len(a.log) + 1
        /\ s.acct.log[Len(a.log) + 1] = s.change
        /\ \A k \in 1 .. Len(a.log) : s.acct.log[k] = a.log[k]
    <3>1. Len(Append(a.log, s.change)) = Len(a.log) + 1
      BY <1>1 DEF IsSeq
    <3> QED
      BY <1>1, <2>1, <3>1, AppendAny
  <2>3. Touched(s.change) \subseteq After(s.acct, n)
    BY <1>1, <2>2 DEF After
  <2>4. After(a, n) \subseteq After(s.acct, n)
    <3> SUFFICES ASSUME NEW k \in n + 1 .. Len(a.log) PROVE Touched(a.log[k]) \subseteq After(s.acct, n)
      BY DEF After
    <3>1. k \in n + 1 .. Len(s.acct.log) /\ s.acct.log[k] = a.log[k]
      BY <1>1, <2>2
    <3> QED
      BY <3>1 DEF After
  <2> QED
    BY <2>3, <2>4
<1> QED
  BY <1>2, <1>3

\* collect_changes names all that was touched, and what it says was destroyed is gone.
LEMMA Collected ==
    ASSUME NEW a, AcctOK(a), NEW n \in 0 .. a.revision
    PROVE  LET ch == Jma!collect_changes(a, n)
           IN  /\ \A i : i \in After(a, n) => i \in ch.created \union ch.updated \union ch.destroyed
               /\ \A i \in ch.destroyed : Retired(a, i)
<1>1. a.revision = Len(a.log) /\ Len(a.log) \in Nat
  BY AppendAny DEF AcctOK
<1> DEFINE ch == Jma!collect_changes(a, n)
<1>2. ASSUME NEW i \in After(a, n) PROVE i \in ch.created \union ch.updated \union ch.destroyed
  <2>1. PICK k \in n + 1 .. Len(a.log) : i \in Touched(a.log[k])
    BY <1>2 DEF After
  <2> QED
    BY <2>1 DEF Touched, Jma!collect_changes
<1>3. ASSUME NEW i \in ch.destroyed PROVE Retired(a, i)
  <2>1. PICK k \in n + 1 .. Len(a.log) : i \in a.log[k].destroyed
    BY <1>3 DEF Jma!collect_changes
  <2>2. k \in 1 .. Len(a.log)
    BY <1>1
  <2> QED
    BY <2>1, <2>2 DEF AcctOK
<1> QED
  BY <1>2, <1>3

\* A /set of another client, or one whose answer was not heard.
LEMMA KeeperAside ==
    ASSUME NEW a, AcctOK(a), NEW t \in Jma!Types, NEW s, SetDone(a, t, s),
           NEW u \in Jma!Types, NEW k, KeeperOK(a, u, k)
    PROVE  KeeperOK(s.acct, u, k)
<1>1. s.acct.revision \in Nat /\ s.acct.revision >= a.revision /\ a.revision \in Nat
  <2>1. IsSeq(a.log) /\ a.revision = Len(a.log)
    BY DEF AcctOK
  <2>2. Len(a.log) \in Nat
    BY <2>1, AppendAny
  <2> QED
    BY <2>1, <2>2 DEF SetDone
<1>2. \A i : i \notin Touched(s.change) => Agree(s.acct.objs[u], a.objs[u], i)
  BY DEF SetDone, Agree
<1>3. \A i : Retired(a, i) => Retired(s.acct, i)
  BY RetiredStays, ZenonT(40) DEF SetDone, AcctOK
<1>4. CASE k.sync = Jma!NoSync
  <2>1. \A i : i \notin After(s.acct, k.state) => i \notin After(a, k.state) /\ i \notin Touched(s.change)
    BY AfterSet DEF KeeperOK
  <2> QED
    BY <1>1, <1>2, <1>4, <2>1 DEF KeeperOK, Agree
<1>5. CASE k.sync # Jma!NoSync
  <2>1. \A i : i \notin After(s.acct, k.sync.new) => i \notin After(a, k.sync.new) /\ i \notin Touched(s.change)
    BY <1>5, AfterSet DEF KeeperOK
  <2> QED
    BY <1>1, <1>2, <1>3, <1>5, <2>1 DEF KeeperOK, Agree
<1> QED
  BY <1>4, <1>5

\* The client that hears the answer to its own /set.
LEMMA KeeperAnswered ==
    ASSUME NEW a, AcctOK(a), NEW t \in Jma!Types, NEW s, SetDone(a, t, s),
           NEW k, KeeperOK(a, t, k), k.sync = Jma!NoSync, k.state = a.revision
    PROVE  LET touched == s.change.created \union s.change.updated
           IN  KeeperOK(s.acct, t, [k EXCEPT !.objs = Jma!Merged(@, s.change.destroyed, touched,
                                                                 Jma!get(s.acct, t, touched)),
                                             !.state = s.acct.revision])
<1> DEFINE touched == s.change.created \union s.change.updated
           o == Jma!Merged(k.objs, s.change.destroyed, touched, Jma!get(s.acct, t, touched))
<1>1. \A i : Agree(k.objs, a.objs[t], i)
  BY AfterAll DEF KeeperOK
<1>2. \A i : i \notin touched /\ i \notin s.change.destroyed /\ i \notin {} => Agree(k.objs, s.acct.objs[t], i)
  BY <1>1 DEF SetDone, Touched, Agree
<1>3. \A i \in s.change.destroyed : i \notin DOMAIN s.acct.objs[t]
  BY DEF SetDone
<1> HIDE DEF touched
<1>4. IsMap(o) /\ \A i : Agree(o, s.acct.objs[t], i)
  BY <1>2, <1>3, MergedAgrees
<1> HIDE DEF o
<1>5. k = [objs |-> k.objs, state |-> k.state, sync |-> Jma!NoSync]
  BY DEF KeeperOK
<1> DEFINE n == s.acct.revision
<1>6. n \in 0 .. n
  BY AppendAny DEF SetDone, AcctOK
<1> HIDE DEF n
<1> DEFINE j == [k EXCEPT !.objs = o]
<1>7. j = [objs |-> o, state |-> k.state, sync |-> Jma!NoSync]
  BY <1>5
<1> HIDE DEF j
<1>8. [j EXCEPT !.state = n] = [objs |-> o, state |-> n, sync |-> Jma!NoSync]
  BY <1>7
<1>9. KeeperOK(s.acct, t, [objs |-> o, state |-> n, sync |-> Jma!NoSync])
  BY <1>4, <1>6 DEF KeeperOK, n
<1> QED
  BY <1>8, <1>9, Zenon DEF j, o, touched, n

\* The answer of a query is a sequence.
LEMMA SortedSeq ==
    ASSUME AcctOK(acct), NEW u \in Jma!Types
    PROVE  IsSeq(Jma!sorted(u))
<1> DEFINE S == Jma!Ids(u)
           n == Jma!Cardinality(S)
           v(m) == CHOOSE i \in S : Jma!Cardinality({j \in S : Jma!Before(u, j, i)}) = m - 1
           f == [m \in 1 .. n |-> v(m)]
<1>1. n \in Nat
  <2>1. IsFiniteSet(S)
    BY DEF Jma!Ids, AcctOK, ObjsOK
  <2>2. Cardinality(S) \in Nat
    BY <2>1, FS_CardinalityType
  <2> QED
    BY <2>2 DEF Cardinality, Jma!Cardinality
<1> HIDE DEF n, v
<1>2. f \in Seq({v(m) : m \in 1 .. n})
  BY <1>1
<1>3. Jma!sorted(u) = f
  BY DEF Jma!sorted, n, v
<1> QED
  BY <1>2, <1>3 DEF IsSeq

\* The arguments a client gives.
LEMMA ArgsGiven ==
    ASSUME NEW c, NEW t \in Jma!Types, NEW args \in Jma!Args(c, t)
    PROVE  /\ ArgsFit(args)
           /\ args.if_in_state = Jma!None \/ (c \in Keepers /\ args.if_in_state = copy[c].state)
<1>1. args.if_in_state = Jma!None \/ (c \in Keepers /\ args.if_in_state = copy[c].state)
  BY DEF Jma!Args
<1>2. args.create = <<>> \/ (args.create \in Jma!CreateArgs(t) /\ args.update = <<>> /\ args.destroy = {})
  BY DEF Jma!Args
<1>3. ASSUME args.create \in Jma!CreateArgs(t) PROVE Len(args.create) = 1
  <2>1. PICK x : args.create = <<x>>
    BY <1>3 DEF Jma!CreateArgs
  <2> QED
    BY <2>1
<1> QED
  BY <1>1, <1>2, <1>3 DEF ArgsFit

\* A /set of any client, with or without ifInState, heard or not, keeps the invariant.
LEMMA SetKeeps ==
    ASSUME JmapConstants, JmapInv, NEW c \in Clients, NEW t \in Jma!Types, NEW args \in Jma!Args(c, t),
           NEW heard \in BOOLEAN, Jma!Set(c, t, args, heard)
    PROVE  JmapInv'
<1> DEFINE s == Jma!set(acct, t, args)
<1>1. SetDone(acct, t, s)
  BY ArgsGiven, SetSound DEF JmapInv
<1>2. acct' = s.acct /\ page' = page /\ copy[c].sync = Jma!NoSync
  BY DEF Jma!Set
<1>3. copy' = IF heard /\ c \in Keepers /\ t = Follows[c] /\ copy[c].state = acct.revision
              THEN [copy EXCEPT ![c] = Jma!Answered(c, t, s)] ELSE copy
  BY DEF Jma!Set
<1>4. overwritten' = {}
  <2>1. SUFFICES ASSUME args.if_in_state # Jma!None, c \in Keepers, t = Follows[c],
                        NEW i \in s.change.updated \union s.change.destroyed
                 PROVE  i \in DOMAIN copy[c].objs /\ copy[c].objs[i] = acct.objs[t][i]
    BY DEF Jma!Set, JmapInv
  <2>2. args.if_in_state = acct.revision /\ args.if_in_state = copy[c].state
    BY <2>1, ArgsGiven DEF Jma!Set, Jma!state_matches
  <2>3. Agree(copy[c].objs, acct.objs[t], i)
    BY <1>2, <2>1, <2>2, AfterAll DEF JmapInv, KeeperOK
  <2>4. i \in DOMAIN acct.objs[t]
    BY <1>1, <2>1 DEF SetDone
  <2> QED
    BY <2>3, <2>4 DEF Agree
<1> HIDE DEF s
<1>5. AcctOK(acct')
  BY <1>1, <1>2 DEF SetDone
<1>6. \A d \in Keepers : KeeperOK(acct', Follows[d], copy'[d])
  <2> SUFFICES ASSUME NEW d \in Keepers PROVE KeeperOK(acct', Follows[d], copy'[d])
    OBVIOUS
  <2>1. Follows[d] \in Jma!Types /\ d \in Clients /\ KeeperOK(acct, Follows[d], copy[d]) /\ AcctOK(acct)
    BY DEF JmapConstants, JmapInv
  <2>2. CASE copy'[d] = copy[d]
    BY <1>1, <1>2, <2>1, <2>2, KeeperAside
  <2>3. CASE copy'[d] # copy[d]
    <3>1. /\ d = c /\ t = Follows[c] /\ copy[c].state = acct.revision
          /\ copy'[d] = Jma!Answered(c, t, s)
      BY <1>3, <2>1, <2>3 DEF JmapInv
    <3>2. KeeperOK(acct, t, copy[c]) /\ copy[c].sync = Jma!NoSync
      BY <1>2, <2>1, <3>1
    <3>3. KeeperOK(s.acct, t, Jma!Answered(c, t, s))
      BY <1>1, <2>1, <3>1, <3>2, KeeperAnswered, Zenon DEF Jma!Answered
    <3> QED
      BY <1>2, <3>1, <3>3
  <2> QED
    BY <2>2, <2>3
<1>7. \A d \in Clients : PageOK(acct'.revision, Jma!sorted(Follows[d])', page'[d])
  <2> SUFFICES ASSUME NEW d \in Clients PROVE PageOK(acct'.revision, Jma!sorted(Follows[d])', page'[d])
    OBVIOUS
  <2>1. PageOK(acct.revision, Jma!sorted(Follows[d]), page[d]) /\ Follows[d] \in Jma!Types
    BY DEF JmapInv, JmapConstants
  <2>2. acct.revision \in Nat
    BY AppendAny DEF JmapInv, AcctOK
  <2>3. CASE s.change = Jma!NoChange
    <3>1. \A i : Agree(acct'.objs[Follows[d]], acct.objs[Follows[d]], i)
      BY <1>1, <1>2, <2>1, <2>3 DEF SetDone, Touched, Jma!NoChange, Agree
    <3>2. acct'.objs[Follows[d]] = acct.objs[Follows[d]]
      BY <1>5, <2>1, <3>1, SameMaps DEF AcctOK, ObjsOK, JmapInv
    <3>3. Jma!sorted(Follows[d])' = Jma!sorted(Follows[d])
      BY <3>2 DEF Jma!sorted, Jma!Ids, Jma!Before
    <3> QED
      BY <1>1, <1>2, <2>1, <2>3, <3>3 DEF SetDone
  <2>4. CASE s.change # Jma!NoChange
    <3>1. acct'.revision = acct.revision + 1
      BY <1>1, <1>2, <2>4 DEF SetDone
    <3> QED
      BY <1>2, <2>1, <2>2, <3>1 DEF PageOK, Jma!None
  <2> QED
    BY <2>3, <2>4
<1>8. copy' = [d \in Clients |-> copy'[d]] /\ page' = [d \in Clients |-> page'[d]]
  BY <1>2, <1>3 DEF JmapInv
<1> QED
  BY <1>4, <1>5, <1>6, <1>7, <1>8 DEF JmapInv

\* So does a client that follows the changes, in one request or two.
LEMMA SyncKeeps ==
    ASSUME JmapConstants, JmapInv, NEW c \in Keepers,
           Jma!SyncAtOnce(c) \/ Jma!Changes(c) \/ Jma!Get(c)
    PROVE  JmapInv'
<1> DEFINE u == Follows[c]
           k == copy[c]
           n == acct.revision
<1>1. acct' = acct /\ page' = page /\ overwritten' = overwritten
  BY DEF Jma!SyncAtOnce, Jma!Changes, Jma!Get
<1>2. c \in Clients /\ u \in Jma!Types /\ KeeperOK(acct, u, k) /\ AcctOK(acct) /\ k.state \in 0 .. n
  BY DEF JmapConstants, JmapInv, KeeperOK
<1>3. n \in Nat /\ n \in 0 .. n
  BY AppendAny DEF JmapInv, AcctOK
<1>4. ASSUME NEW j, KeeperOK(acct, u, j), copy' = [copy EXCEPT ![c] = j]
      PROVE  JmapInv'
  <2>1. ASSUME NEW d \in Keepers PROVE KeeperOK(acct, Follows[d], copy'[d])
    <3>1. copy'[d] = IF d = c THEN j ELSE copy[d]
      BY <1>4 DEF JmapInv, JmapConstants
    <3> QED
      BY <1>4, <3>1 DEF JmapInv
  <2>2. copy' = [d \in Clients |-> copy'[d]]
    BY <1>4 DEF JmapInv
  <2>3. ASSUME NEW d \in Clients PROVE Jma!sorted(Follows[d])' = Jma!sorted(Follows[d])
    BY <1>1 DEF Jma!sorted, Jma!Ids, Jma!Before
  <2> QED
    BY <1>1, <2>1, <2>2, <2>3 DEF JmapInv
<1> DEFINE ch == Jma!collect_changes(acct, k.state)
           ids == ch.created \union ch.updated
<1>5. /\ \A i : i \in After(acct, k.state) => i \in ids \/ i \in ch.destroyed
      /\ \A i \in ch.destroyed : Retired(acct, i)
  BY <1>2, Collected
<1>6. \A i \in ch.destroyed : i \notin DOMAIN acct.objs[u]
  BY <1>2, <1>5 DEF Retired
<1>7. k.sync = Jma!NoSync => \A i : i \notin ids /\ i \notin ch.destroyed => Agree(k.objs, acct.objs[u], i)
  BY <1>2, <1>5 DEF KeeperOK
<1> HIDE DEF ch, k
<1>8. CASE Jma!SyncAtOnce(c)
  <2> DEFINE o == Jma!Merged(k.objs, ch.destroyed, ids, Jma!get(acct, u, ids))
             j == [objs |-> o, state |-> n, sync |-> Jma!NoSync]
  <2>1. k.sync = Jma!NoSync /\ copy' = [copy EXCEPT ![c] = j]
    BY <1>8 DEF Jma!SyncAtOnce, k, ch
  <2>2. \A i : i \notin ids /\ i \notin ch.destroyed /\ i \notin {} => Agree(k.objs, acct.objs[u], i)
    BY <1>7, <2>1
  <2> HIDE DEF ids
  <2>3. IsMap(o) /\ \A i : Agree(o, acct.objs[u], i)
    BY <1>6, <2>2, MergedAgrees
  <2> HIDE DEF o
  <2>4. KeeperOK(acct, u, j)
    BY <1>3, <2>3 DEF KeeperOK
  <2> QED
    BY <1>4, <2>1, <2>4
<1>9. CASE Jma!Changes(c)
  <2> DEFINE y == [ids |-> ids, gone |-> ch.destroyed, new |-> n]
             j == [k EXCEPT !.sync = y]
  <2>1. k.sync = Jma!NoSync /\ copy' = [copy EXCEPT ![c].sync = y]
    BY <1>9 DEF Jma!Changes, k, ch
  <2>2. copy' = [copy EXCEPT ![c] = j]
    BY <1>2, <2>1 DEF JmapInv, k
  <2>3. y.ids = ids /\ y.gone = ch.destroyed /\ y.new = n
    OBVIOUS
  <2>4. y # Jma!NoSync
    BY <1>3, <2>3 DEF Jma!NoSync, Jma!None
  <2> HIDE DEF y, ids
  <2>5. j.objs = k.objs /\ j.state = k.state /\ j.sync = y /\ j = [objs |-> j.objs, state |-> j.state, sync |-> j.sync]
    BY <1>2 DEF KeeperOK, k
  <2> HIDE DEF j
  <2>6. IsMap(k.objs) /\ k.state \in 0 .. n
    BY <1>2 DEF KeeperOK, k
  <2>7. KeeperOK(acct, u, j)
    BY <1>3, <1>5, <1>7, <2>1, <2>3, <2>4, <2>5, <2>6 DEF KeeperOK
  <2> QED
    BY <1>4, <2>2, <2>7 DEF j
<1>10. CASE Jma!Get(c)
  <2> DEFINE y == k.sync
             o == Jma!Merged(k.objs, y.gone, y.ids, Jma!get(acct, u, y.ids))
             j == [objs |-> o, state |-> y.new, sync |-> Jma!NoSync]
  <2>1. y # Jma!NoSync /\ copy' = [copy EXCEPT ![c] = j]
    BY <1>10 DEF Jma!Get, k
  <2>2. /\ y.new \in 0 .. n
        /\ \A i : i \notin y.ids /\ i \notin y.gone /\ i \notin After(acct, y.new) => Agree(k.objs, acct.objs[u], i)
        /\ \A i \in y.gone : Retired(acct, i)
    BY <1>2, <2>1 DEF KeeperOK, k
  <2>3. \A i \in y.gone : i \notin DOMAIN acct.objs[u]
    BY <1>2, <2>2 DEF Retired
  <2> HIDE DEF y
  <2>4. IsMap(o) /\ \A i : i \notin After(acct, y.new) => Agree(o, acct.objs[u], i)
    BY <2>2, <2>3, MergedAgrees
  <2> HIDE DEF o
  <2>5. KeeperOK(acct, u, j)
    BY <2>2, <2>4 DEF KeeperOK
  <2> QED
    BY <1>4, <2>1, <2>5
<1> QED
  BY <1>8, <1>9, <1>10

\* So does the next page of a query.
LEMMA QueryKeeps ==
    ASSUME JmapConstants, JmapInv, NEW c \in Clients, Jma!Query(c)
    PROVE  JmapInv'
<1>0. acct' = acct
  BY DEF Jma!Query
<1>3. ASSUME NEW d \in Clients PROVE Jma!sorted(Follows[d])' = Jma!sorted(Follows[d])
  BY <1>0 DEF Jma!sorted, Jma!Ids, Jma!Before
<1> DEFINE q == Jma!sorted(Follows[c])
           p == page[c]
           n == acct.revision
           m == Len(p.ids)
           more == Jma!apply_query(q, m)
           next == IF p.state \in {Jma!None, n}
                   THEN [state |-> n, ids |-> p.ids \o more, done |-> Len(more) < Limit]
                   ELSE Jma!NoPage
<1>1. acct' = acct /\ copy' = copy /\ overwritten' = overwritten /\ page' = [page EXCEPT ![c] = next] /\ ~p.done
  BY DEF Jma!Query
<1>2. PageOK(n, q, p) /\ IsSeq(q) /\ n \in Nat
  BY SortedSeq, AppendAny DEF JmapInv, JmapConstants, AcctOK
<1> HIDE DEF q, p, n
<1>4. PageOK(n, q, next)
  <2>1. CASE p.state \in {Jma!None, n}
    <3>1. m \in 0 .. Len(q) /\ p.ids = SubSeq(q, 1, m) /\ Len(q) \in Nat
      <4>1. Len(q) \in Nat
        BY <1>2, AppendAny
      <4>2. CASE p.state = Jma!None
        <5>1. p.ids = <<>>
          BY <1>2, <4>2 DEF PageOK
        <5>2. SubSeq(q, 1, 0) = <<>>
          BY <1>2 DEF IsSeq
        <5> QED
          BY <4>1, <5>1, <5>2
      <4>3. CASE p.state = n
        BY <1>2, <4>1, <4>3 DEF PageOK
      <4> QED
        BY <2>1, <4>2, <4>3
    <3> HIDE DEF m
    <3> DEFINE e == Jma!least(m + Limit, Len(q))
    <3>2. e \in m .. Len(q) /\ e \in Nat /\ Limit \in Nat /\ e <= m + Limit /\ (e = m + Limit \/ e = Len(q))
      BY <3>1 DEF Jma!least, JmapConstants
    <3>3. more = SubSeq(q, m + 1, e)
      BY DEF Jma!apply_query
    <3> HIDE DEF e, more
    <3>4. p.ids \o more = SubSeq(q, 1, e) /\ Len(more) = e - m /\ Len(p.ids \o more) = e /\ SubSeq(q, 1, Len(q)) = q
      <4>1. PICK S : q \in Seq(S)
        BY <1>2 DEF IsSeq
      <4>2. SubSeq(q, 1, m) \in Seq(S) /\ SubSeq(q, m + 1, e) \in Seq(S) /\ SubSeq(q, 1, e) \in Seq(S)
        BY <4>1, <3>1, <3>2, SubSeqProperties
      <4>3. Len(SubSeq(q, 1, m)) = m /\ Len(SubSeq(q, m + 1, e)) = e - m /\ Len(SubSeq(q, 1, e)) = e
        BY <4>1, <3>1, <3>2, SubSeqProperties
      <4>4. SubSeq(q, 1, m) \o SubSeq(q, m + 1, e) = SubSeq(q, 1, e)
        BY <4>1, <4>2, <4>3, <3>1, <3>2
      <4>5. SubSeq(q, 1, Len(q)) = q
        BY <4>1
      <4> QED
        BY <3>1, <3>3, <4>3, <4>4, <4>5
    <3>5. Len(more) < Limit => e = Len(q)
      <4> DEFINE g == Len(more)
      <4>1. g = e - m
        BY <3>4
      <4> HIDE DEF g
      <4>2. g < Limit => e = Len(q)
        BY <3>1, <3>2, <4>1
      <4> QED
        BY <4>2 DEF g
    <3>6. next = [state |-> n, ids |-> SubSeq(q, 1, e), done |-> Len(more) < Limit]
      BY <2>1, <3>4
    <3>7. Len(SubSeq(q, 1, e)) = e
      BY <3>4
    <3> HIDE DEF next
    <3>8. next.state = n /\ next.ids = SubSeq(q, 1, e) /\ (next.done => Len(more) < Limit)
      BY <3>6
    <3>9. n # Jma!None
      BY <1>2 DEF Jma!None
    <3>10. e \in 0 .. Len(q)
      BY <3>1, <3>2
    <3>11. Len(next.ids) \in 0 .. Len(q) /\ next.ids = SubSeq(q, 1, Len(next.ids))
      BY <3>7, <3>8, <3>10
    <3>12. next.done => next.ids = q
      BY <3>4, <3>5, <3>8
    <3>13. next.state \in 0 .. n
      BY <1>2, <3>8
    <3> QED
      BY <3>8, <3>9, <3>11, <3>12, <3>13, Zenon DEF PageOK
  <2>2. CASE p.state \notin {Jma!None, n}
    BY <1>2, <2>2 DEF PageOK, Jma!NoPage, Jma!None
  <2> QED
    BY <2>1, <2>2
<1> HIDE DEF next
<1>5. ASSUME NEW d \in Clients PROVE PageOK(n, Jma!sorted(Follows[d]), page'[d])
  <2>1. page'[d] = IF d = c THEN next ELSE page[d]
    BY <1>1 DEF JmapInv
  <2> QED
    BY <1>4, <2>1 DEF JmapInv, q, n
<1>6. page' = [d \in Clients |-> page'[d]]
  BY <1>1 DEF JmapInv
<1> QED
  BY <1>1, <1>3, <1>5, <1>6 DEF JmapInv, n

\* For any number of clients, ids and revisions: a copy or the pages of a query under the account's state
\* string are what the account holds, whether the client followed the log in one request or two, by the
\* answers to its own /set calls or without hearing them; and a /set with ifInState changes no object in a
\* version its caller has not seen (mailbox_set, email_set, email_submission_set, collect_changes).
THEOREM ReadsAreCurrent ==
    ASSUME JmapConstants
    PROVE  Jma!JmapSpec => []ReadIsCurrent
<1>1. Jma!JmapInit => JmapInv
  <2> SUFFICES ASSUME Jma!JmapInit PROVE JmapInv
    OBVIOUS
  <2>1. /\ acct.revision = 0 /\ acct.next = 0 /\ acct.log = <<>> /\ acct.objs = [u \in Jma!Types |-> Jma!NoObjects]
        /\ acct = [revision |-> acct.revision, next |-> acct.next, log |-> acct.log, objs |-> acct.objs]
    BY DEF Jma!JmapInit
  <2>2. IsMap(Jma!NoObjects) /\ DOMAIN Jma!NoObjects = {} /\ IsFiniteSet({})
    BY FS_EmptySet DEF IsMap, Jma!NoObjects
  <2>3. IsSeq(<<>>) /\ Len(<<>>) = 0
    <3>1. <<>> \in Seq({})
      OBVIOUS
    <3> QED
      BY <3>1 DEF IsSeq
  <2>4. AcctOK(acct)
    BY <2>1, <2>2, <2>3 DEF AcctOK, ObjsOK
  <2>5. ASSUME NEW c \in Keepers PROVE KeeperOK(acct, Follows[c], copy[c])
    <3>1. copy[c] = [objs |-> Jma!NoObjects, state |-> 0, sync |-> Jma!NoSync] /\ Follows[c] \in Jma!Types
      BY DEF Jma!JmapInit, JmapConstants
    <3> QED
      BY <2>1, <2>2, <3>1 DEF KeeperOK, Agree
  <2>6. ASSUME NEW c \in Clients PROVE PageOK(acct.revision, Jma!sorted(Follows[c]), page[c])
    <3>1. page[c] = Jma!NoPage
      BY DEF Jma!JmapInit
    <3> QED
      BY <2>1, <3>1 DEF PageOK, Jma!NoPage, Jma!None
  <2>7. overwritten = {} /\ copy = [c \in Clients |-> copy[c]] /\ page = [c \in Clients |-> page[c]]
    BY DEF Jma!JmapInit
  <2> QED
    BY <2>4, <2>5, <2>6, <2>7 DEF JmapInv
<1>2. JmapInv /\ [Jma!JmapNext]_(Jma!jmapVars) => JmapInv'
  <2> SUFFICES ASSUME JmapInv, [Jma!JmapNext]_(Jma!jmapVars) PROVE JmapInv'
    OBVIOUS
  <2>1. CASE UNCHANGED Jma!jmapVars
    <3>1. acct' = acct /\ copy' = copy /\ page' = page /\ overwritten' = overwritten
      BY <2>1 DEF Jma!jmapVars
    <3>2. ASSUME NEW d \in Clients PROVE Jma!sorted(Follows[d])' = Jma!sorted(Follows[d])
      BY <3>1 DEF Jma!sorted, Jma!Ids, Jma!Before
    <3> QED
      BY <3>1, <3>2 DEF JmapInv
  <2>2. ASSUME NEW c \in Clients, c \in Keepers, Jma!SyncAtOnce(c) \/ Jma!Changes(c) \/ Jma!Get(c) PROVE JmapInv'
    BY <2>2, SyncKeeps
  <2>3. ASSUME NEW c \in Clients, Jma!Query(c) PROVE JmapInv'
    BY <2>3, QueryKeeps
  <2>4. ASSUME NEW c \in Clients, NEW t \in Jma!Types, NEW args \in Jma!Args(c, t), NEW heard \in BOOLEAN,
               Jma!Set(c, t, args, heard)
        PROVE  JmapInv'
    BY <2>4, SetKeeps
  <2> QED
    BY <2>1, <2>2, <2>3, <2>4 DEF Jma!JmapNext
<1>3. JmapInv => ReadIsCurrent
  <2> SUFFICES ASSUME JmapInv PROVE Jma!ReadIsCurrent /\ Jma!NothingOverwritten
    BY DEF ReadIsCurrent
  <2>1. ASSUME NEW c \in Keepers, copy[c].state = acct.revision, copy[c].sync = Jma!NoSync
        PROVE  copy[c].objs = acct.objs[Follows[c]]
    <3>1. KeeperOK(acct, Follows[c], copy[c]) /\ AcctOK(acct) /\ Follows[c] \in Jma!Types
      BY DEF JmapInv, JmapConstants
    <3>2. \A i : Agree(copy[c].objs, acct.objs[Follows[c]], i)
      BY <2>1, <3>1, AfterAll DEF KeeperOK
    <3>3. IsMap(copy[c].objs) /\ IsMap(acct.objs[Follows[c]])
      BY <3>1 DEF KeeperOK, AcctOK, ObjsOK
    <3> QED
      BY <3>2, <3>3, SameMaps
  <2>2. ASSUME NEW c \in Clients, page[c].done, page[c].state = acct.revision
        PROVE  page[c].ids = Jma!sorted(Follows[c])
    BY <2>2 DEF JmapInv, PageOK
  <2> QED
    BY <2>1, <2>2 DEF Jma!ReadIsCurrent, Jma!NothingOverwritten, JmapInv
<1> QED
  BY <1>1, <1>2, <1>3, PTL DEF Jma!JmapSpec

-----------------------------------------------------------------------------
(* SSH *)

\* A request that server_handle answers with success proves the user to this connection, whatever
\* fields its payload has.
LEMMA SuccessProves ==
    ASSUME NEW p, NEW id, Success \in server_handle(p, id)
    PROVE  Proves(p, id)
<1>1. Success # Fail
  <2>1. Len(Success) = 1 /\ Len(Fail) = 3
    BY DEF Success, Fail
  <2> QED
    BY <2>1
<1>2. ASSUME NEW a, NEW b PROVE Success # PkOk(a, b)
  <2>1. Len(Success) = 1 /\ Len(PkOk(a, b)) = 3
    BY DEF Success, PkOk
  <2> QED
    BY <2>1
<1>3. ASSUME NEW user, NEW service, NEW alg, NEW blob
      PROVE  publickey_signature_data(id, user, service, alg, blob)[1] = string(id)
  BY DEF publickey_signature_data
<1>4. p[4][2] = "password" \/ p[4][2] = "publickey"
  BY <1>1 DEF server_handle
<1>5. CASE p[4][2] = "password"
  BY <1>1, <1>5 DEF server_handle, Proves
<1>6. CASE p[4][2] = "publickey"
  BY <1>1, <1>2, <1>3, <1>6 DEF server_handle, Proves, verify
<1> QED
  BY <1>4, <1>5, <1>6

\* The inductive invariant: what is to be shown, and the shape of the server's state.
SshInv == OnlyTheUser /\ server.at \in {"start", "auth", "session", "done", "failed"}
        /\ server = [at |-> server.at, sent_close |-> server.sent_close, proved |-> server.proved, ran |-> server.ran]
\* For any passwords, any number of connections and tries and any way the stream is cut: a server that has
\* gone on to the session was shown the user's password, or a signature of the user's key over this
\* connection's identifier (server_handle, and the loop that calls it).
THEOREM OnlyTheUserEnters == SshSpec => []OnlyTheUser
<1>1. SshInit => SshInv
  BY DEF SshInit, NewServer, SshInv, OnlyTheUser
<1>2. SshInv /\ [SshNext]_(sshVars) => SshInv'
  <2> SUFFICES ASSUME SshInv, [SshNext]_(sshVars) PROVE SshInv'
    OBVIOUS
  <2>1. ASSUME NEW e, NEW f, handshake(e, f) PROVE SshInv'
    BY <2>1 DEF handshake, SshInv, OnlyTheUser
  <2>2. ASSUME NEW p, client_request(p) PROVE SshInv'
    BY <2>2 DEF client_request, SshInv, OnlyTheUser
  <2>3. ASSUME NEW k, client_turn(k) PROVE SshInv'
    BY <2>3 DEF client_turn, SshInv, OnlyTheUser
  <2>4. ASSUME NEW k, server_turn(k) PROVE SshInv'
    <3>0. server.at \in {"auth", "session"}
      BY <2>4 DEF server_turn
    <3> DEFINE x == recv("Server", k)
               m == parse_channel_message(x.payload)
    <3>1. CASE x.got = "more"
      <4>1. server' = server
        BY <2>4, <3>1 DEF server_turn
      <4> QED
        BY <4>1 DEF SshInv, OnlyTheUser
    <3>2. CASE x.got = "error"
      <4>1. server' = [server EXCEPT !.at = "failed"]
        BY <2>4, <3>2 DEF server_turn
      <4> QED
        BY <4>1 DEF SshInv, OnlyTheUser
    <3>3. CASE x.got = "payload" /\ server.at = "auth"
      <4>1. PICK a \in server_handle(x.payload, session.id) :
               server' = [server EXCEPT !.at = IF a = Success THEN "session" ELSE @,
                                        !.proved = IF a = Success
                                                   THEN Proves(x.payload, session.id) ELSE @]
        BY <2>4, <3>3 DEF server_turn
      <4> HIDE DEF x
      <4>2. CASE a = Success
        <5>1. Proves(x.payload, session.id)
          BY <4>2, SuccessProves
        <5> QED
          BY <4>1, <4>2, <5>1 DEF SshInv, OnlyTheUser
      <4>3. CASE a # Success
        BY <4>1, <4>3, <3>3 DEF SshInv, OnlyTheUser
      <4> QED
        BY <4>2, <4>3
    <3>4. CASE x.got = "payload" /\ server.at = "session"
      <4>1. \/ server' = server
            \/ \E r : server' = [server EXCEPT !.sent_close = TRUE, !.ran = r]
            \/ server' = [server EXCEPT !.at = "done"]
            \/ server' = [server EXCEPT !.at = IF m.kind = "error" THEN "failed" ELSE @]
        <5>1. CASE m.kind = "OpenSession"
          BY <2>4, <3>4, <5>1 DEF server_turn
        <5>2. CASE m.kind = "exec"
          BY <2>4, <3>4, <5>2 DEF server_turn
        <5>3. CASE m.kind = "Close"
          BY <2>4, <3>4, <5>3 DEF server_turn
        <5>4. CASE m.kind \notin {"OpenSession", "exec", "Close"}
          BY <2>4, <3>4, <5>4 DEF server_turn
        <5> QED
          BY <5>1, <5>2, <5>3, <5>4
      <4> QED
        BY <4>1, <3>4 DEF SshInv, OnlyTheUser
    <3> QED
      BY <2>4, <3>0, <3>1, <3>2, <3>3, <3>4 DEF server_turn
  <2>5. CASE reconnect
    BY <2>5 DEF reconnect, SshInv, OnlyTheUser, NewServer
  <2>6. CASE UNCHANGED sshVars
    BY <2>6 DEF sshVars, SshInv, OnlyTheUser
  <2> QED
    BY <2>1, <2>2, <2>3, <2>4, <2>5, <2>6 DEF SshNext
<1>3. SshInv => OnlyTheUser
  BY DEF SshInv
<1> QED
  BY <1>1, <1>2, <1>3, PTL DEF SshSpec

-----------------------------------------------------------------------------
(* The directory of an LDAP server *)

\* A superior is a name of at least one RDN.
LdapConstants == MaxOps \in Nat /\ \A s \in Superiors : IsSeq(s) /\ s # <<>>

\* Induction up to N, over the set of the numbers a statement is true of.
LEMMA Reaches ==
    ASSUME NEW N \in Nat, NEW T, 0 \in T, \A n \in 0 .. N : n \in T /\ n < N => n + 1 \in T
    PROVE  N \in T
<1> DEFINE R == {n \in 0 .. N : n \notin T}
<1>1. SUFFICES ASSUME N \notin T PROVE FALSE
  OBVIOUS
<1>2. R # {} /\ R \subseteq Nat
  BY <1>1
<1>3. \E x \in R : \A y \in R : ~(y < x)
  <2>1. PICK x \in R : \A y \in R : ~(<<y, x>> \in OpToRel(<, Nat))
    BY <1>2, WFMin, NatLessThanWellFounded
  <2>2. \A a, b \in Nat : a < b => <<a, b>> \in OpToRel(<, Nat)
    BY Zenon DEF OpToRel
  <2> HIDE DEF R
  <2> QED
    BY <1>2, <2>1, <2>2, Zenon
<1>4. PICK x \in R : \A y \in R : ~(y < x)
  BY <1>3
<1>5. x \in 1 .. N /\ x - 1 \in 0 .. N /\ x - 1 < N /\ x \notin T /\ x - 1 \notin R
  BY <1>4
<1>6. x - 1 \in T
  BY <1>5
<1>7. (x - 1) + 1 \in T
  BY <1>5, <1>6
<1> QED
  BY <1>5, <1>7

\* The order in which the entries are visited leaves none out and none twice.
LEMMA AllVisited ==
    ASSUME NEW S, IsFiniteSet(S)
    PROVE  LET q == Lda!SetToSeq(S) N == Cardinality(S)
           IN  /\ N \in Nat /\ q \in [1 .. N -> S] /\ Len(q) = N
               /\ \A i, j \in 1 .. N : q[i] = q[j] => i = j
               /\ \A x \in S : \E i \in 1 .. N : q[i] = x
<1> DEFINE N == Cardinality(S)
           q == Lda!SetToSeq(S)
<1>1. N \in Nat /\ ExistsBijection(1 .. N, S)
  BY FS_CardinalityType
<1>2. Lda!Cardinality(S) = N
  BY DEF Cardinality, Lda!Cardinality
<1>3. \E f \in [1 .. N -> S] : Lda!IsInjective(f)
  <2>1. PICK f : f \in Bijection(1 .. N, S)
    BY <1>1 DEF ExistsBijection
  <2>2. f \in [1 .. N -> S] /\ \A a, b \in 1 .. N : f[a] = f[b] => a = b
    BY <2>1 DEF Bijection, Injection, IsInjective
  <2> QED
    BY <2>2 DEF Lda!IsInjective
<1>4. q \in [1 .. N -> S] /\ Lda!IsInjective(q)
  BY <1>2, <1>3 DEF Lda!SetToSeq
<1> HIDE DEF q
<1>5. \A a, b \in 1 .. N : q[a] = q[b] => a = b
  BY <1>4 DEF Lda!IsInjective
<1>6. q \in Injection(1 .. N, S)
  BY <1>4, <1>5 DEF Injection, IsInjective
<1>7. Cardinality(1 .. N) = N
  BY <1>1, FS_Interval
<1> HIDE DEF N
<1>8. q \in Surjection(1 .. N, S)
  BY <1>6, <1>7, FS_Injection DEF N
<1>9. \A x \in S : \E i \in 1 .. N : q[i] = x
  BY <1>8 DEF Surjection
<1>10. Len(q) = N
  BY <1>1, <1>4
<1> QED
  BY <1>1, <1>4, <1>5, <1>9, <1>10 DEF N, q

\* The end of k that begins after n RDNs is base.
EndsIn(k, n, base) == n \in 0 .. Len(k) - Len(base) /\ SubSeq(k, n + 1, Len(k)) = base

\* The end of a sequence, element by element.
LEMMA EndsElementwise ==
    ASSUME NEW U, NEW k \in Seq(U), NEW base \in Seq(U), NEW n \in 0 .. Len(k)
    PROVE  SubSeq(k, n + 1, Len(k)) = base <=>
              Len(base) = Len(k) - n /\ \A i \in 1 .. Len(base) : base[i] = k[n + i]
<1>1. Len(k) \in Nat /\ Len(base) \in Nat
  OBVIOUS
<1>2. /\ SubSeq(k, n + 1, Len(k)) \in Seq(U) /\ Len(SubSeq(k, n + 1, Len(k))) = Len(k) - n
      /\ \A i \in 1 .. Len(k) - n : SubSeq(k, n + 1, Len(k))[i] = k[n + i]
  <2>1. n + 1 \in 1 .. Len(k) + 1 /\ Len(k) \in n .. Len(k)
    BY <1>1
  <2> QED
    BY <1>1, <2>1, SubSeqProperties
<1> DEFINE e == SubSeq(k, n + 1, Len(k))
<1> HIDE DEF e
<1>3. e = base <=> Len(e) = Len(base) /\ \A i \in 1 .. Len(base) : e[i] = base[i]
  <2>1. e \in Seq(U)
    BY <1>2 DEF e
  <2> QED
    BY <2>1, SeqEqual
<1>4. Len(e) = Len(k) - n /\ \A i \in 1 .. Len(k) - n : e[i] = k[n + i]
  BY <1>2 DEF e
<1> QED
  BY <1>1, <1>3, <1>4 DEF e

\* What scope_match asks of the name of an entry, in the three scopes.
LEMMA ScopeSound ==
    ASSUME NEW k, NEW base, IsSeq(k), IsSeq(base), base # <<>>
    PROVE  /\ Lda!scope_match("Base", base, k) <=> EndsIn(k, 0, base)
           /\ Lda!scope_match("SingleLevel", base, k) <=> EndsIn(k, 1, base)
           /\ Lda!scope_match("WholeSubtree", base, k) <=> \E n \in 0 .. Len(k) : EndsIn(k, n, base)
<1>1. PICK U : k \in Seq(U) /\ base \in Seq(U)
  <2>1. PICK S, T : k \in Seq(S) /\ base \in Seq(T)
    BY DEF IsSeq
  <2>2. k \in Seq(S \union T) /\ base \in Seq(S \union T)
    BY <2>1
  <2> QED
    BY <2>2
<1>2. Len(k) \in Nat /\ Len(base) \in Nat /\ Len(base) > 0
  BY <1>1, EmptySeq
<1>3. Lda!scope_match("Base", base, k) <=> EndsIn(k, 0, base)
  <2>1. k = base <=> Len(k) = Len(base) /\ \A i \in 1 .. Len(base) : base[i] = k[i]
    BY <1>1, SeqEqual
  <2> QED
    BY <1>1, <1>2, <2>1, EndsElementwise DEF Lda!scope_match, EndsIn
<1>4. Lda!scope_match("SingleLevel", base, k) <=> EndsIn(k, 1, base)
  <2>1. CASE Len(k) > 1
    <3>1. Tail(k) \in Seq(U) /\ Len(Tail(k)) = Len(k) - 1 /\ \A i \in 1 .. Len(k) - 1 : Tail(k)[i] = k[i + 1]
      BY <1>1, <1>2, <2>1
    <3>2. Tail(k) = base <=> Len(Tail(k)) = Len(base) /\ \A i \in 1 .. Len(base) : Tail(k)[i] = base[i]
      BY <1>1, <3>1, SeqEqual
    <3>3. EndsIn(k, 1, base) <=> Len(base) = Len(k) - 1 /\ \A i \in 1 .. Len(base) : base[i] = k[1 + i]
      <4>1. 1 \in 0 .. Len(k)
        BY <1>2, <2>1
      <4>2. SubSeq(k, 1 + 1, Len(k)) = base <=>
              Len(base) = Len(k) - 1 /\ \A i \in 1 .. Len(base) : base[i] = k[1 + i]
        BY <1>1, <4>1, EndsElementwise, Zenon
      <4>3. Len(base) = Len(k) - 1 => 1 \in 0 .. Len(k) - Len(base)
        BY <1>2, <2>1
      <4> QED
        BY <4>2, <4>3 DEF EndsIn
    <3>4. Tail(k) = base <=> Len(base) = Len(k) - 1 /\ \A i \in 1 .. Len(base) : base[i] = k[1 + i]
      <4>1. \A i \in 1 .. Len(k) - 1 : i + 1 = 1 + i
        BY <1>2
      <4> QED
        BY <1>2, <3>1, <3>2, <4>1
    <3> QED
      BY <2>1, <3>3, <3>4 DEF Lda!scope_match, Lda!dn_parent
  <2>2. CASE ~(Len(k) > 1)
    BY <1>1, <1>2, <2>2, EndsElementwise DEF Lda!scope_match, EndsIn
  <2> QED
    BY <2>1, <2>2
<1>5. Lda!scope_match("WholeSubtree", base, k) <=> \E n \in 0 .. Len(k) : EndsIn(k, n, base)
  <2> DEFINE rb == Lda!Reverse(base)
             rk == Lda!Reverse(k)
             d == Len(k) - Len(base)
  <2>1. /\ rb \in Seq(U) /\ Len(rb) = Len(base) /\ \A i \in 1 .. Len(base) : rb[i] = base[Len(base) - i + 1]
        /\ rk \in Seq(U) /\ Len(rk) = Len(k) /\ \A i \in 1 .. Len(k) : rk[i] = k[Len(k) - i + 1]
    BY <1>1, <1>2 DEF Lda!Reverse
  <2> HIDE DEF rb, rk
  <2>2. Lda!scope_match("WholeSubtree", base, k) <=>
          Len(base) <= Len(k) /\ \A i \in 1 .. Len(base) : rb[i] = rk[i]
    <3>1. Lda!scope_match("WholeSubtree", base, k) <=>
            Len(rb) <= Len(rk) /\ SubSeq(rb, 1, Len(rb)) = SubSeq(rk, 1, Len(rb))
      BY DEF Lda!scope_match, Lda!IsSuffix, Lda!IsPrefix, rb, rk
    <3>2. ASSUME Len(base) <= Len(k)
          PROVE  /\ SubSeq(rk, 1, Len(base)) \in Seq(U) /\ Len(SubSeq(rk, 1, Len(base))) = Len(base)
                 /\ \A i \in 1 .. Len(base) : SubSeq(rk, 1, Len(base))[i] = rk[i]
                 /\ SubSeq(rb, 1, Len(base)) = rb
      BY <1>2, <2>1, <3>2, SubSeqProperties
    <3> DEFINE e == SubSeq(rk, 1, Len(base))
    <3>3. Len(base) <= Len(k) => (rb = e <=> \A i \in 1 .. Len(base) : rb[i] = e[i])
      BY <2>1, <3>2, SeqEqual
    <3> QED
      BY <2>1, <3>1, <3>2, <3>3
  <2>3. Len(base) <= Len(k) => ((\A i \in 1 .. Len(base) : rb[i] = rk[i])
                                   <=> \A i \in 1 .. Len(base) : base[i] = k[d + i])
    <3> SUFFICES ASSUME Len(base) <= Len(k)
                 PROVE  (\A i \in 1 .. Len(base) : rb[i] = rk[i]) <=> \A i \in 1 .. Len(base) : base[i] = k[d + i]
      OBVIOUS
    <3>1. ASSUME NEW i \in 1 .. Len(base)
          PROVE  /\ Len(base) - i + 1 \in 1 .. Len(base) /\ Len(base) - (Len(base) - i + 1) + 1 = i
                 /\ Len(k) - i + 1 = d + (Len(base) - i + 1) /\ i \in 1 .. Len(k)
      BY <1>2
    <3>2. \A i \in 1 .. Len(base) : /\ rb[i] = base[Len(base) - i + 1]
                                    /\ rk[i] = k[d + (Len(base) - i + 1)]
      BY <2>1, <3>1
    <3> HIDE DEF d
    <3>3. ASSUME \A i \in 1 .. Len(base) : rb[i] = rk[i], NEW i \in 1 .. Len(base) PROVE base[i] = k[d + i]
      <4> DEFINE j == Len(base) - i + 1
      <4>1. j \in 1 .. Len(base) /\ Len(base) - j + 1 = i
        BY <3>1
      <4> HIDE DEF j
      <4> QED
        BY <3>2, <3>3, <4>1
    <3>4. ASSUME \A i \in 1 .. Len(base) : base[i] = k[d + i], NEW i \in 1 .. Len(base) PROVE rb[i] = rk[i]
      BY <3>1, <3>2, <3>4
    <3> QED
      BY <3>3, <3>4
  <2>4. (\E n \in 0 .. Len(k) : EndsIn(k, n, base)) <=>
           Len(base) <= Len(k) /\ \A i \in 1 .. Len(base) : base[i] = k[d + i]
    <3>1. ASSUME NEW n \in 0 .. Len(k)
          PROVE  EndsIn(k, n, base) <=> n = d /\ \A i \in 1 .. Len(base) : base[i] = k[n + i]
      <4>1. SubSeq(k, n + 1, Len(k)) = base <=>
              Len(base) = Len(k) - n /\ \A i \in 1 .. Len(base) : base[i] = k[n + i]
        BY <1>1, EndsElementwise
      <4>2. Len(base) = Len(k) - n <=> n = d
        BY <1>2
      <4>3. n = d => n \in 0 .. Len(k) - Len(base)
        BY <1>2
      <4> QED
        BY <4>1, <4>2, <4>3 DEF EndsIn
    <3>2. Len(base) <= Len(k) => d \in 0 .. Len(k)
      BY <1>2
    <3>3. \A n \in 0 .. Len(k) : n = d => Len(base) <= Len(k)
      BY <1>2
    <3> HIDE DEF d
    <3> QED
      BY <3>1, <3>2, <3>3
  <2> QED
    BY <2>2, <2>3, <2>4
<1> QED
  BY <1>3, <1>4, <1>5

\* The entries are under their names, by different numbers, and are those that live.
EntriesOK ==
    /\ IsFiniteSet(DOMAIN dir) /\ DOMAIN dir \subseteq Lda!Dns
    /\ ops \in Nat
    /\ \A k \in DOMAIN dir : /\ dir[k] = [dn |-> k, attrs |-> dir[k].attrs, uid |-> dir[k].uid]
                             /\ dir[k].uid \in 0 .. ops - 1
    /\ \A k, l \in DOMAIN dir : dir[k].uid = dir[l].uid => k = l
    /\ live = {dir[k].uid : k \in DOMAIN dir}

\* A name of an RDN and a superior is a sequence.
LEMMA DnsAreSeqs ==
    ASSUME LdapConstants, NEW k \in Lda!Dns
    PROVE  IsSeq(k)
<1>1. PICK r \in Lda!Rdns, s \in Superiors : k = <<r>> \o s
  BY DEF Lda!Dns
<1>2. PICK S : s \in Seq(S)
  BY DEF LdapConstants, IsSeq
<1>3. <<r>> \in Seq(S \union {r}) /\ s \in Seq(S \union {r})
  BY <1>2
<1>4. k \in Seq(S \union {r})
  BY <1>1, <1>3
<1> QED
  BY <1>4 DEF IsSeq

\* handle_search takes the entries of the scope that have the attribute.
LEMMA WithinSound ==
    ASSUME LdapConstants, EntriesOK, NEW base \in Superiors,
           NEW scope \in {"Base", "SingleLevel", "WholeSubtree"}, NEW has, NEW k \in DOMAIN dir
    PROVE  k \in Lda!Within(scope, base, has) <=>
              Lda!scope_match(scope, base, dir[k].dn) /\ has \in DOMAIN dir[k].attrs
<1>1. IsSeq(k) /\ IsSeq(base) /\ base # <<>> /\ dir[k].dn = k
  <2>1. dir[k] = [dn |-> k, attrs |-> dir[k].attrs, uid |-> dir[k].uid]
    BY DEF EntriesOK
  <2>2. dir[k].dn = k
    BY <2>1
  <2> QED
    BY <2>2, DnsAreSeqs DEF LdapConstants, EntriesOK
<1>2. Len(k) \in Nat /\ Len(base) \in Nat
  BY <1>1 DEF IsSeq
<1>3. k \in Lda!Within(scope, base, has) <=>
         /\ has \in DOMAIN dir[k].attrs
         /\ \E n \in 0 .. Len(k) - Len(base) :
               SubSeq(k, n + 1, Len(k)) = base /\ n \in CASE scope = "Base" -> {0} [] scope = "SingleLevel" -> {1}
                                                          [] scope = "WholeSubtree" -> 0 .. Len(k)
  BY DEF Lda!Within
<1>4. CASE scope = "Base"
  <2>1. k \in Lda!Within(scope, base, has) <=> has \in DOMAIN dir[k].attrs /\ EndsIn(k, 0, base)
    BY <1>3, <1>4 DEF EndsIn
  <2> QED
    BY <1>1, <1>4, <2>1, ScopeSound
<1>5. CASE scope = "SingleLevel"
  <2>1. k \in Lda!Within(scope, base, has) <=> has \in DOMAIN dir[k].attrs /\ EndsIn(k, 1, base)
    BY <1>3, <1>5 DEF EndsIn
  <2> QED
    BY <1>1, <1>5, <2>1, ScopeSound
<1>6. CASE scope = "WholeSubtree"
  <2>1. k \in Lda!Within(scope, base, has) <=>
           has \in DOMAIN dir[k].attrs /\ \E n \in 0 .. Len(k) : EndsIn(k, n, base)
    BY <1>2, <1>3, <1>6 DEF EndsIn
  <2> QED
    BY <1>1, <1>6, <2>1, ScopeSound
<1> QED
  BY <1>4, <1>5, <1>6

\* The fields of an answer.
IsAnswer(r, limit, matching) == r = [found |-> r.found, exceeded |-> r.exceeded, limit |-> limit, matching |-> matching]

\* The answer r to a search that has visited entries of which those with the numbers M match.
Gathered(r, M, limit, matching) ==
    /\ IsAnswer(r, limit, matching)
    /\ r.exceeded \in BOOLEAN /\ r.found \in Seq(M) /\ IsFiniteSet(M)
    /\ IF r.exceeded THEN Cardinality(M) > Len(r.found) ELSE Cardinality(M) = Len(r.found)

\* An answer with a mark, or with one more entry.
LEMMA AnswerUpdates ==
    ASSUME NEW r, NEW l, NEW m, IsAnswer(r, l, m), NEW u
    PROVE  /\ [r EXCEPT !.exceeded = TRUE] = [found |-> r.found, exceeded |-> TRUE, limit |-> l, matching |-> m]
           /\ [r EXCEPT !.found = Append(@, u)] =
                 [found |-> Append(r.found, u), exceeded |-> r.exceeded, limit |-> l, matching |-> m]
<1>1. PICK f, e : f = r.found /\ e = r.exceeded
  OBVIOUS
<1>2. r = [found |-> f, exceeded |-> e, limit |-> l, matching |-> m]
  BY <1>1 DEF IsAnswer
<1>3. ASSUME NEW b PROVE [r EXCEPT !.exceeded = b] = [found |-> f, exceeded |-> b, limit |-> l, matching |-> m]
  BY <1>2
<1>4. [r EXCEPT !.found = Append(@, u)] = [found |-> Append(f, u), exceeded |-> e, limit |-> l, matching |-> m]
  BY <1>2, SMTT(30)
<1> QED
  BY <1>1, <1>3, <1>4, Zenon

\* One more entry is visited.
LEMMA VisitGathers ==
    ASSUME LdapConstants, EntriesOK, NEW base \in Superiors,
           NEW scope \in {"Base", "SingleLevel", "WholeSubtree"}, NEW has, NEW limit \in Nat, NEW k \in DOMAIN dir,
           NEW r, NEW M, NEW matching, Gathered(r, M, limit, matching), dir[k].uid \notin M
    PROVE  Gathered(Lda!visit(r, k, base, scope, has, limit),
                    IF k \in Lda!Within(scope, base, has) THEN M \union {dir[k].uid} ELSE M, limit, matching)
<1> DEFINE u == dir[k].uid
           v == Lda!visit(r, k, base, scope, has, limit)
           Mu == M \union {u}
<1>1. v = IF r.exceeded \/ ~(k \in Lda!Within(scope, base, has)) THEN r
          ELSE IF limit > 0 /\ Len(r.found) >= limit THEN [r EXCEPT !.exceeded = TRUE]
          ELSE [r EXCEPT !.found = Append(@, u)]
  BY WithinSound DEF Lda!visit
<1>2. /\ IsFiniteSet(Mu) /\ Cardinality(Mu) = Cardinality(M) + 1 /\ Cardinality(M) \in Nat
      /\ r.found \in Seq(M) /\ r.found \in Seq(Mu) /\ u \in Mu /\ Len(r.found) \in Nat
  <2>1. IsFiniteSet(M) /\ r.found \in Seq(M) /\ M \subseteq Mu
    BY DEF Gathered
  <2> QED
    BY <2>1, FS_AddElement, FS_CardinalityType
<1> HIDE DEF u, v, Mu
<1>3. CASE ~(k \in Lda!Within(scope, base, has))
  BY <1>1, <1>3 DEF v
<1>4. CASE k \in Lda!Within(scope, base, has) /\ r.exceeded
  <2>1. Gathered(r, Mu, limit, matching)
    BY <1>2, <1>4 DEF Gathered
  <2> QED
    BY <1>1, <1>4, <2>1 DEF v, Mu, u
<1>5. CASE k \in Lda!Within(scope, base, has) /\ ~r.exceeded
  <2>1. IsAnswer(r, limit, matching)
    BY DEF Gathered
  <2>2. Cardinality(M) = Len(r.found)
    BY <1>5 DEF Gathered
  <2>3. CASE limit > 0 /\ Len(r.found) >= limit
    <3>1. v = [found |-> r.found, exceeded |-> TRUE, limit |-> limit, matching |-> matching]
      <4>1. v = [r EXCEPT !.exceeded = TRUE]
        BY <1>1, <1>5, <2>3
      <4> QED
        <5>1. [r EXCEPT !.exceeded = TRUE] = [found |-> r.found, exceeded |-> TRUE, limit |-> limit, matching |-> matching]
          BY <2>1, AnswerUpdates
        <5> QED
          BY <4>1, <5>1
    <3>2. Gathered(v, Mu, limit, matching)
      BY <1>2, <2>2, <3>1 DEF Gathered, IsAnswer
    <3> QED
      BY <1>5, <3>2 DEF v, Mu, u
  <2>4. CASE ~(limit > 0 /\ Len(r.found) >= limit)
    <3>1. v = [found |-> Append(r.found, u), exceeded |-> FALSE, limit |-> limit, matching |-> matching]
      <4>1. r.exceeded = FALSE
        BY <1>5 DEF Gathered
      <4> QED
        <5>1. v = [r EXCEPT !.found = Append(@, u)]
          BY <1>1, <1>5, <2>4
        <5> QED
          <6>1. [r EXCEPT !.found = Append(@, u)] =
                   [found |-> Append(r.found, u), exceeded |-> r.exceeded, limit |-> limit, matching |-> matching]
            BY <2>1, AnswerUpdates
          <6> QED
            BY <4>1, <5>1, <6>1
    <3>2. Append(r.found, u) \in Seq(Mu) /\ Len(Append(r.found, u)) = Len(r.found) + 1
      BY <1>2
    <3>3. Gathered(v, Mu, limit, matching)
      BY <1>2, <2>2, <3>1, <3>2 DEF Gathered, IsAnswer
    <3> QED
      BY <1>5, <3>3 DEF v, Mu, u
  <2> QED
    BY <2>3, <2>4
<1> QED
  BY <1>3, <1>4, <1>5

\* The answers g of handle_search's loop after each of the first N entries.
Visits(g, N, keys, first, base, scope, has, limit) ==
    g = [n \in 0 .. N |-> IF n = 0 THEN first ELSE Lda!visit(g[n - 1], keys[n], base, scope, has, limit)]

\* The function that handle_search's loop computes exists.
LEMMA VisitsExist ==
    ASSUME NEW N \in Nat, NEW keys, NEW first, NEW base, NEW scope, NEW has, NEW limit
    PROVE  \E g : Visits(g, N, keys, first, base, scope, has, limit)
<1> DEFINE Step(r, k) == Lda!visit(r, k, base, scope, has, limit)
<1> HIDE DEF Step
<1> DEFINE Made(g, n) == g = [m \in 0 .. n |-> IF m = 0 THEN first ELSE Step(g[m - 1], keys[m])]
           T == {n \in 0 .. N : \E g : Made(g, n)}
<1>1. 0 \in T
  <2>1. Made([m \in 0 .. 0 |-> first], 0)
    OBVIOUS
  <2> HIDE DEF Made
  <2> QED
    BY <2>1
<1>2. ASSUME NEW n \in 0 .. N, n \in T, n < N PROVE n + 1 \in T
  <2>1. PICK g : Made(g, n)
    BY <1>2
  <2> DEFINE h == [m \in 0 .. n + 1 |-> IF m <= n THEN g[m] ELSE Step(g[n], keys[n + 1])]
  <2>2. ASSUME NEW m \in 0 .. n + 1
        PROVE  h[m] = IF m = 0 THEN first ELSE Step(h[m - 1], keys[m])
    <3>1. CASE m <= n
      BY <2>1, <3>1
    <3>2. CASE m = n + 1
      BY <2>1, <3>2
    <3> QED
      BY <3>1, <3>2
  <2>3. Made(h, n + 1)
    <3> DEFINE w == [m \in 0 .. n + 1 |-> IF m = 0 THEN first ELSE Step(h[m - 1], keys[m])]
    <3>1. h = w
      BY <2>2
    <3> QED
      BY <3>1
  <2>4. n + 1 \in 0 .. N
    BY <1>2
  <2> HIDE DEF Made, h
  <2> QED
    BY <2>3, <2>4
<1> HIDE DEF T
<1>3. N \in T
  BY <1>1, <1>2, Reaches
<1> QED
  BY <1>3 DEF T, Step, Visits

\* The answer a search begins with.
LEMMA FirstAnswer ==
    ASSUME NEW a, NEW b
    PROVE  [Lda!NoAnswer EXCEPT !.limit = a, !.matching = b] =
              [found |-> <<>>, exceeded |-> FALSE, limit |-> a, matching |-> b]
<1>1. PICK f, e, l, m : f = <<>> /\ e = FALSE /\ l = 0 /\ m = {}
  OBVIOUS
<1> DEFINE s == [Lda!NoAnswer EXCEPT !.limit = a]
<1>2. Lda!NoAnswer = [found |-> f, exceeded |-> e, limit |-> l, matching |-> m]
  BY <1>1, Zenon DEF Lda!NoAnswer
<1>3. s = [found |-> f, exceeded |-> e, limit |-> a, matching |-> m]
  BY <1>2
<1> HIDE DEF s
<1>4. [s EXCEPT !.matching = b] = [found |-> f, exceeded |-> e, limit |-> a, matching |-> b]
  BY <1>3
<1> QED
  BY <1>1, <1>4, Zenon DEF s

\* The answer names entries of the scope, and all of them unless it says that there are more.
AnswerOK ==
    /\ Lda!ToSet(answer.found) \subseteq answer.matching
    /\ answer.exceeded <=> Cardinality(answer.matching) > Len(answer.found)

\* A search is answered so.
LEMMA SearchSound ==
    ASSUME LdapConstants, EntriesOK, NEW base \in Superiors,
           NEW scope \in {"Base", "SingleLevel", "WholeSubtree"}, NEW has, NEW limit \in Nat,
           Lda!Search(base, scope, has, limit)
    PROVE  AnswerOK'
<1> DEFINE keys == Lda!SetToSeq(DOMAIN dir)
           N == Cardinality(DOMAIN dir)
           W == Lda!Within(scope, base, has)
           matching == {dir[k].uid : k \in W}
           first == [Lda!NoAnswer EXCEPT !.limit = limit, !.matching = matching]
           Made(g) == Visits(g, Len(keys), keys, first, base, scope, has, limit)
           visited == CHOOSE g : Made(g)
<1>1. answer' = visited[Len(keys)]
  BY DEF Lda!Search, Visits
<1>2. /\ N \in Nat /\ keys \in [1 .. N -> DOMAIN dir] /\ Len(keys) = N
      /\ \A i, j \in 1 .. N : keys[i] = keys[j] => i = j
      /\ \A x \in DOMAIN dir : \E i \in 1 .. N : keys[i] = x
  BY AllVisited DEF EntriesOK
<1> HIDE DEF keys, N, first, W
<1>3. Made(visited)
  <2>1. \E g : Made(g)
    <3>1. Len(keys) \in Nat
      BY <1>2
    <3> QED
      BY <3>1, VisitsExist
  <2> QED
    BY <2>1
<1> HIDE DEF visited, matching
<1>4. /\ visited[0] = first
      /\ \A n \in 1 .. N : visited[n] = Lda!visit(visited[n - 1], keys[n], base, scope, has, limit)
  BY <1>2, <1>3 DEF Visits
<1> DEFINE M(n) == {dir[keys[i]].uid : i \in {j \in 1 .. n : keys[j] \in W}}
           T == {n \in 0 .. N : Gathered(visited[n], M(n), limit, matching)}
<1>5. 0 \in T
  <2>1. first = [found |-> <<>>, exceeded |-> FALSE, limit |-> limit, matching |-> matching]
    BY FirstAnswer DEF first
  <2>2. M(0) = {} /\ IsFiniteSet({}) /\ Cardinality({}) = 0
    BY FS_EmptySet
  <2>3. Gathered(first, {}, limit, matching)
    BY <2>1, <2>2 DEF Gathered, IsAnswer
  <2> HIDE DEF M
  <2>4. Gathered(visited[0], M(0), limit, matching)
    BY <1>4, <2>2, <2>3
  <2> QED
    BY <1>2, <2>4
<1>6. ASSUME NEW n \in 0 .. N, n \in T, n < N PROVE n + 1 \in T
  <2> DEFINE k == keys[n + 1]
  <2>1. n + 1 \in 1 .. N /\ n + 1 \in 0 .. N /\ (n + 1) - 1 = n /\ k \in DOMAIN dir
    BY <1>2, <1>6
  <2>2. dir[k].uid \notin M(n)
    <3>1. ASSUME NEW i \in 1 .. n PROVE dir[keys[i]].uid # dir[k].uid
      <4>1. i \in 1 .. N /\ i # n + 1
        BY <1>2, <2>1
      <4>2. keys[i] \in DOMAIN dir /\ keys[i] # k
        BY <1>2, <2>1, <4>1
      <4> QED
        BY <2>1, <4>2 DEF EntriesOK
    <3> QED
      BY <3>1
  <2>3. M(n + 1) = IF k \in W THEN M(n) \union {dir[k].uid} ELSE M(n)
    <3>1. \A j : j \in 1 .. n + 1 <=> j \in 1 .. n \/ j = n + 1
      BY <1>2, <2>1
    <3>2. {j \in 1 .. n + 1 : keys[j] \in W} =
             {j \in 1 .. n : keys[j] \in W} \union IF k \in W THEN {n + 1} ELSE {}
      BY <3>1
    <3> QED
      BY <3>2
  <2>4. visited[n + 1] = Lda!visit(visited[n], k, base, scope, has, limit)
    BY <1>4, <2>1
  <2> HIDE DEF k, M
  <2>5. Gathered(visited[n], M(n), limit, matching)
    BY <1>6
  <2>6. Gathered(visited[n + 1], M(n + 1), limit, matching)
    <3>1. Gathered(Lda!visit(visited[n], k, base, scope, has, limit),
                   IF k \in W THEN M(n) \union {dir[k].uid} ELSE M(n), limit, matching)
      BY <2>1, <2>2, <2>5, VisitGathers, Zenon DEF W
    <3> QED
      BY <2>3, <2>4, <3>1
  <2> QED
    BY <2>1, <2>6
<1>7. N \in T
  <2> HIDE DEF T
  <2> QED
    BY <1>2, <1>5, <1>6, Reaches
<1>8. M(N) = matching
  <2>1. W \subseteq DOMAIN dir
    BY DEF W, Lda!Within
  <2>2. \A u : u \in M(N) <=> \E k \in W : u = dir[k].uid
    BY <1>2, <2>1
  <2> QED
    BY <2>2 DEF matching
<1> HIDE DEF M
<1>9. Gathered(answer', matching, limit, matching)
  BY <1>1, <1>2, <1>7, <1>8
<1>10. answer'.found \in Seq(matching) /\ answer'.matching = matching /\ Cardinality(matching) \in Nat
  <2>1. IsAnswer(answer', limit, matching) /\ answer'.found \in Seq(matching) /\ IsFiniteSet(matching)
    BY <1>9 DEF Gathered
  <2>2. answer'.matching = matching
    BY <2>1 DEF IsAnswer
  <2> QED
    BY <2>1, <2>2, FS_CardinalityType
<1>11. Lda!ToSet(answer'.found) \subseteq matching
  BY <1>10 DEF Lda!ToSet
<1>12. answer'.exceeded <=> Cardinality(matching) > Len(answer'.found)
  BY <1>9, <1>10 DEF Gathered
<1> QED
  BY <1>10, <1>11, <1>12 DEF AnswerOK

\* The inductive invariant.
LdapInv == EntriesOK /\ AnswerOK

\* Before a search, and after a change, there is no answer to judge.
LEMMA NothingAnswered ==
    ASSUME answer = Lda!NoAnswer
    PROVE  AnswerOK
<1>1. answer.found = <<>> /\ answer.matching = {} /\ answer.exceeded = FALSE
  BY DEF Lda!NoAnswer
<1>2. Cardinality({}) = 0 /\ Len(<<>>) = 0 /\ DOMAIN <<>> = {}
  BY FS_EmptySet
<1> QED
  BY <1>1, <1>2 DEF AnswerOK, Lda!ToSet

\* An empty directory.
LEMMA LdapStart ==
    ASSUME Lda!LdapInit
    PROVE  LdapInv
<1>1. DOMAIN dir = {} /\ live = {} /\ ops = 0 /\ IsFiniteSet({})
  BY FS_EmptySet DEF Lda!LdapInit
<1>2. EntriesOK
  BY <1>1 DEF EntriesOK
<1> QED
  BY <1>2, NothingAnswered DEF Lda!LdapInit, LdapInv

\* Add.
LEMMA AddKeeps ==
    ASSUME LdapInv, NEW dn \in Lda!Dns, NEW attrs, Lda!Add(dn, attrs)
    PROVE  EntriesOK'
<1> DEFINE e == [dn |-> dn, attrs |-> attrs, uid |-> ops]
<1>1. /\ ops \in Nat /\ ops' = ops + 1 /\ live' = live \union {ops} /\ dn \notin DOMAIN dir
      /\ DOMAIN dir' = DOMAIN dir \union {dn} /\ dir'[dn] = e /\ \A k \in DOMAIN dir : dir'[k] = dir[k]
  BY DEF Lda!Add, Lda!Counted, Lda!Put, LdapInv, EntriesOK
<1>2. IsFiniteSet(DOMAIN dir')
  BY <1>1, FS_AddElement DEF LdapInv, EntriesOK
<1>3. e.dn = dn /\ e.uid = ops /\ e = [dn |-> dn, attrs |-> e.attrs, uid |-> e.uid]
  OBVIOUS
<1> HIDE DEF e
<1>4. ASSUME NEW k \in DOMAIN dir'
      PROVE  dir'[k] = [dn |-> k, attrs |-> dir'[k].attrs, uid |-> dir'[k].uid] /\ dir'[k].uid \in 0 .. ops' - 1
  BY <1>1, <1>3 DEF LdapInv, EntriesOK
<1>5. ASSUME NEW k \in DOMAIN dir', NEW l \in DOMAIN dir', dir'[k].uid = dir'[l].uid PROVE k = l
  <2>1. \A j \in DOMAIN dir : dir[j].uid # ops
    BY <1>1 DEF LdapInv, EntriesOK
  <2> QED
    BY <1>1, <1>3, <1>5, <2>1 DEF LdapInv, EntriesOK
<1>6. live' = {dir'[k].uid : k \in DOMAIN dir'}
  BY <1>1, <1>3 DEF LdapInv, EntriesOK
<1> QED
  BY <1>1, <1>2, <1>4, <1>5, <1>6 DEF EntriesOK, LdapInv

\* Delete.
LEMMA DeleteKeeps ==
    ASSUME LdapInv, NEW dn \in Lda!Dns, Lda!Delete(dn)
    PROVE  EntriesOK'
<1>1. /\ ops \in Nat /\ ops' = ops + 1 /\ live' = live \ {dir[dn].uid} /\ dn \in DOMAIN dir
      /\ DOMAIN dir' = DOMAIN dir \ {dn} /\ \A k \in DOMAIN dir' : dir'[k] = dir[k]
  BY DEF Lda!Delete, Lda!Counted, Lda!Without, LdapInv, EntriesOK
<1>2. IsFiniteSet(DOMAIN dir')
  BY <1>1, FS_RemoveElement DEF LdapInv, EntriesOK
<1>3. live' = {dir'[k].uid : k \in DOMAIN dir'}
  BY <1>1 DEF LdapInv, EntriesOK
<1>4. ASSUME NEW k \in DOMAIN dir'
      PROVE  dir'[k] = [dn |-> k, attrs |-> dir'[k].attrs, uid |-> dir'[k].uid] /\ dir'[k].uid \in 0 .. ops' - 1
  BY <1>1 DEF LdapInv, EntriesOK
<1> QED
  BY <1>1, <1>2, <1>3, <1>4 DEF EntriesOK, LdapInv

\* The fields of an entry.
IsEntry(e, k, u) == e = [dn |-> k, attrs |-> e.attrs, uid |-> u]

\* Modify.
LEMMA ModifyKeeps ==
    ASSUME LdapInv, NEW dn \in Lda!Dns, NEW changes, Lda!Modify(dn, changes)
    PROVE  EntriesOK'
<1> DEFINE b == Lda!modified(dir[dn].attrs, changes)
<1>1. /\ ops \in Nat /\ ops' = ops + 1 /\ live' = live /\ dn \in DOMAIN dir
      /\ DOMAIN dir' = DOMAIN dir /\ dir'[dn] = [dir[dn] EXCEPT !.attrs = b]
      /\ \A k \in DOMAIN dir \ {dn} : dir'[k] = dir[k]
  <2>1. dir' = [dir EXCEPT ![dn].attrs = b] /\ dn \in DOMAIN dir
    BY DEF Lda!Modify
  <2> HIDE DEF b
  <2>2. DOMAIN dir' = DOMAIN dir /\ dir'[dn] = [dir[dn] EXCEPT !.attrs = b]
    BY <2>1
  <2>3. \A k \in DOMAIN dir \ {dn} : dir'[k] = dir[k]
    BY <2>1
  <2> QED
    BY <2>1, <2>2, <2>3 DEF Lda!Modify, Lda!Counted, LdapInv, EntriesOK
<1> HIDE DEF b
<1>2. dir'[dn] = [dn |-> dn, attrs |-> b, uid |-> dir[dn].uid]
  <2>1. PICK e, u : e = dir[dn] /\ u = dir[dn].uid
    OBVIOUS
  <2>2. IsEntry(e, dn, u)
    BY <1>1, <2>1 DEF LdapInv, EntriesOK, IsEntry
  <2>3. [e EXCEPT !.attrs = b] = [dn |-> dn, attrs |-> b, uid |-> u]
    <3>1. PICK a : e = [dn |-> dn, attrs |-> a, uid |-> u]
      BY <2>2 DEF IsEntry
    <3> QED
      BY <3>1
  <2> QED
    BY <1>1, <2>1, <2>3
<1>3. ASSUME NEW k \in DOMAIN dir'
      PROVE  /\ dir'[k] = [dn |-> k, attrs |-> dir'[k].attrs, uid |-> dir'[k].uid]
             /\ dir'[k].uid = dir[k].uid /\ dir'[k].uid \in 0 .. ops' - 1
  BY <1>1, <1>2 DEF LdapInv, EntriesOK
<1>4. live' = {dir'[k].uid : k \in DOMAIN dir'}
  BY <1>1, <1>3 DEF LdapInv, EntriesOK
<1> QED
  BY <1>1, <1>3, <1>4 DEF EntriesOK, LdapInv

\* modify_dn: the entry, under its new name or its old one, is still the one that was added.
LEMMA MoveKeeps ==
    ASSUME LdapConstants, LdapInv, NEW dn \in Lda!Dns, NEW rdn \in Lda!Rdns, NEW old \in BOOLEAN,
           NEW s \in Superiors \union {<<>>}, Lda!modify_dn(dn, rdn, old, s)
    PROVE  EntriesOK'
<1>1. PICK to, b :
         /\ to \in Lda!new_dn(dn, rdn, s) /\ Lda!may_move(dn, to)
         /\ dir' = Lda!Put(Lda!Without(dn), to, [dir[dn] EXCEPT !.dn = to, !.attrs = b])
  BY DEF Lda!modify_dn
<1>2. ops \in Nat /\ ops' = ops + 1 /\ live' = live /\ dn \in DOMAIN dir
  BY DEF Lda!modify_dn, Lda!Counted, LdapInv, EntriesOK
<1>3. to \in Lda!Dns
  <2>1. PICK r \in Lda!Rdns, p \in Superiors : dn = <<r>> \o p
    BY DEF Lda!Dns
  <2>2. Tail(dn) = p
    <3>1. PICK S : p \in Seq(S)
      BY DEF LdapConstants, IsSeq
    <3>2. p \in Seq(S \union {r}) /\ r \in S \union {r}
      BY <3>1
    <3> QED
      BY <2>1, <3>2, HeadTailAppend
  <2>3. to \in {<<rdn>> \o q : q \in Superiors}
    BY <1>1, <2>2 DEF Lda!new_dn, Lda!dn_parent
  <2> QED
    BY <2>3 DEF Lda!Dns
<1>4. /\ DOMAIN dir' = (DOMAIN dir \ {dn}) \union {to} /\ to \notin DOMAIN dir \ {dn}
      /\ \A k \in DOMAIN dir \ {dn} : dir'[k] = dir[k]
      /\ dir'[to] = [dir[dn] EXCEPT !.dn = to, !.attrs = b]
  BY <1>1 DEF Lda!Put, Lda!Without, Lda!may_move
<1>5. dir'[to] = [dn |-> to, attrs |-> b, uid |-> dir[dn].uid]
  <2>1. PICK e, u : e = dir[dn] /\ u = dir[dn].uid
    OBVIOUS
  <2>2. IsEntry(e, dn, u)
    BY <1>2, <2>1 DEF LdapInv, EntriesOK, IsEntry
  <2>3. [e EXCEPT !.dn = to, !.attrs = b] = [dn |-> to, attrs |-> b, uid |-> u]
    <3>1. PICK a : e = [dn |-> dn, attrs |-> a, uid |-> u]
      BY <2>2 DEF IsEntry
    <3> DEFINE m == [e EXCEPT !.dn = to]
    <3>2. m = [dn |-> to, attrs |-> a, uid |-> u]
      BY <3>1
    <3> HIDE DEF m
    <3>3. [m EXCEPT !.attrs = b] = [dn |-> to, attrs |-> b, uid |-> u]
      BY <3>2
    <3> QED
      BY <3>3 DEF m
  <2> QED
    BY <1>4, <2>1, <2>3
<1>6. IsFiniteSet(DOMAIN dir')
  <2>1. IsFiniteSet(DOMAIN dir \ {dn})
    BY FS_RemoveElement DEF LdapInv, EntriesOK
  <2> QED
    BY <1>4, <2>1, FS_AddElement
<1>7. ASSUME NEW k \in DOMAIN dir'
      PROVE  dir'[k] = [dn |-> k, attrs |-> dir'[k].attrs, uid |-> dir'[k].uid] /\ dir'[k].uid \in 0 .. ops' - 1
  <2>1. CASE k = to
    BY <1>2, <1>5, <2>1 DEF LdapInv, EntriesOK
  <2>2. CASE k # to
    BY <1>2, <1>4, <2>2 DEF LdapInv, EntriesOK
  <2> QED
    BY <2>1, <2>2
<1>8. dir'[to].uid = dir[dn].uid
  BY <1>5
<1>9. ASSUME NEW k \in DOMAIN dir', NEW l \in DOMAIN dir', dir'[k].uid = dir'[l].uid PROVE k = l
  BY <1>2, <1>4, <1>8, <1>9 DEF LdapInv, EntriesOK
<1>10. live' = {dir'[k].uid : k \in DOMAIN dir'}
  <2>1. live' = {dir[k].uid : k \in DOMAIN dir}
    BY <1>2 DEF LdapInv, EntriesOK
  <2>2. ASSUME NEW u PROVE (\E k \in DOMAIN dir : u = dir[k].uid) <=> (\E k \in DOMAIN dir' : u = dir'[k].uid)
    BY <1>2, <1>4, <1>8
  <2> QED
    BY <2>1, <2>2
<1>11. DOMAIN dir' \subseteq Lda!Dns /\ ops' \in Nat
  BY <1>2, <1>3, <1>4 DEF LdapInv, EntriesOK
<1> QED
  BY <1>6, <1>7, <1>9, <1>10, <1>11 DEF EntriesOK

\* Every request keeps the directory whole.
LEMMA LdapKeeps ==
    ASSUME LdapConstants, LdapInv, [Lda!LdapNext]_(Lda!ldapVars)
    PROVE  LdapInv'
<1>1. ASSUME Lda!Counted PROVE AnswerOK'
  <2>1. answer' = Lda!NoAnswer
    BY <1>1 DEF Lda!Counted
  <2>2. answer'.found = <<>> /\ answer'.matching = {} /\ answer'.exceeded = FALSE
    BY <2>1 DEF Lda!NoAnswer
  <2>3. Cardinality({}) = 0 /\ Len(<<>>) = 0 /\ DOMAIN <<>> = {}
    BY FS_EmptySet
  <2> QED
    BY <2>2, <2>3 DEF AnswerOK, Lda!ToSet
<1>2. ASSUME NEW dn \in Lda!Dns, NEW attrs, Lda!Add(dn, attrs) PROVE LdapInv'
  BY <1>1, <1>2, AddKeeps DEF Lda!Add, LdapInv
<1>3. ASSUME NEW dn \in Lda!Dns, Lda!Delete(dn) PROVE LdapInv'
  BY <1>1, <1>3, DeleteKeeps DEF Lda!Delete, LdapInv
<1>4. ASSUME NEW dn \in Lda!Dns, NEW changes, Lda!Modify(dn, changes) PROVE LdapInv'
  BY <1>1, <1>4, ModifyKeeps DEF Lda!Modify, LdapInv
<1>5. ASSUME NEW dn \in Lda!Dns, NEW rdn \in Lda!Rdns, NEW old \in BOOLEAN, NEW s \in Superiors \union {<<>>},
             Lda!modify_dn(dn, rdn, old, s)
      PROVE  LdapInv'
  BY <1>1, <1>5, MoveKeeps DEF Lda!modify_dn, LdapInv
<1>6. ASSUME NEW s \in Superiors, NEW scope \in {"Base", "SingleLevel", "WholeSubtree"}, NEW a, NEW limit \in 0 .. 1,
             Lda!Search(s, scope, a, limit)
      PROVE  LdapInv'
  <2>1. AnswerOK'
    BY <1>6, SearchSound DEF LdapInv
  <2>2. UNCHANGED <<dir, live, ops>>
    BY <1>6 DEF Lda!Search
  <2> QED
    BY <2>1, <2>2 DEF LdapInv, EntriesOK
<1>7. ASSUME UNCHANGED Lda!ldapVars PROVE LdapInv'
  BY <1>7 DEF Lda!ldapVars, LdapInv, EntriesOK, AnswerOK
<1> QED
  BY <1>2, <1>3, <1>4, <1>5, <1>6, <1>7 DEF Lda!LdapNext

\* For any names, attributes and number of requests, of however many sessions: every entry that was added
\* and not deleted is in the directory once and under its name, whatever is renamed and moved; a search of
\* any scope names entries of the scope only, and all of them unless it reports that there are more than its
\* limit (memory.rs, add, delete, modify, modify_dn; session.rs, handle_search).
THEOREM DirectoryIsWhole ==
    ASSUME LdapConstants
    PROVE  Lda!LdapSpec => []DirectoryWhole
<1>1. Lda!LdapInit => LdapInv
  BY LdapStart
<1>2. LdapInv /\ [Lda!LdapNext]_(Lda!ldapVars) => LdapInv'
  BY LdapKeeps
<1>3. LdapInv => DirectoryWhole
  <2> SUFFICES ASSUME LdapInv PROVE DirectoryWhole
    OBVIOUS
  <2> DEFINE f == [k \in DOMAIN dir |-> dir[k].uid]
  <2>1. f \in Bijection(DOMAIN dir, live)
    BY DEF LdapInv, EntriesOK, Bijection, Injection, Surjection, IsInjective
  <2>2. ExistsBijection(DOMAIN dir, live) /\ IsFiniteSet(DOMAIN dir)
    BY <2>1 DEF ExistsBijection, LdapInv, EntriesOK
  <2>3. Cardinality(live) = Cardinality(DOMAIN dir)
    BY <2>2, FS_Bijection
  <2>4. \A S : Lda!Cardinality(S) = Cardinality(S)
    BY DEF Cardinality, Lda!Cardinality
  <2>5. \A k \in DOMAIN dir : dir[k].dn = k
    BY DEF LdapInv, EntriesOK
  <2> QED
    BY <2>3, <2>4, <2>5 DEF DirectoryWhole, Lda!DirectoryWhole, LdapInv, EntriesOK, AnswerOK
<1> QED
  BY <1>1, <1>2, <1>3, PTL DEF Lda!LdapSpec
=============================================================================
