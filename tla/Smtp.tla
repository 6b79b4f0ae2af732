-------------------------------- MODULE Smtp --------------------------------
(***************************************************************************)
(* SMTP sessions of tpt-smtp and the clients that drive them, over one     *)
(* shared backend.  A command and its reply are one step: the client waits *)
(* for the reply, the session takes the lock of the backend at most once.  *)
(* send_mail is several commands and may stop between any two of them.     *)
(***************************************************************************)
EXTENDS Naturals, Sequences, FiniteSetsExt, SequencesExt

CONSTANTS
    Links,          \* connections
    Senders,        \* reverse-paths
    Rcpts,          \* forward-paths
    Allowed,        \* the forward-paths the backend accepts
    SmtpMessages,   \* what may be sent
    MaxMessage,     \* max_message, in octets
    MaxSmtp         \* bound: commands of one connection

VARIABLES
    required,   \* Extensions::starttls_required, starttls being on
    smtp,       \* the session of each connection
    sending,    \* the client's send_mail in progress, or Idle
    queue,      \* the backend: the envelopes it took, in order
    accepted    \* history: what the replies so far accepted of the current transaction

smtpVars == <<required, smtp, sending, queue, accepted>>

Nothing == [from |-> "nobody", rcpts |-> <<>>]
Idle == [from |-> "nobody", todo |-> <<>>, all |-> <<>>, msg |-> <<>>, at |-> "idle"]
SmtpStates == {"Greeted", "Initial", "Mail", "Rcpt", "Closed"}

SmtpInit ==
    /\ required \in BOOLEAN
    /\ smtp = [l \in Links |-> [state |-> "Greeted", tls |-> FALSE, from |-> "nobody",
                                rcpts |-> <<>>, left |-> MaxSmtp]]
    /\ sending = [l \in Links |-> Idle]
    /\ queue = <<>>
    /\ accepted = [l \in Links |-> Nothing]

Took(l, s) == smtp' = [smtp EXCEPT ![l] = [s EXCEPT !.left = @ - 1]]
Heard(l, a) == accepted' = [accepted EXCEPT ![l] = a]
\* Before HELO every command but HELO, EHLO and QUIT is refused by handle_line.
Open(l) == smtp[l].state \notin {"Greeted", "Closed"} /\ smtp[l].left > 0

-----------------------------------------------------------------------------
(* Messages on the wire: a message is the sequence of its lines, each      *)
(* ended by CRLF; a line is a sequence of characters of which only the dot *)
(* matters.                                                                *)

Dot == "."
LoneDot == <<Dot>>
Octets(msg) == FoldSeq(LAMBDA l, n : Len(l) + 2 + n, 0, msg)
Dotted(l) == l # <<>> /\ Head(l) = Dot
Stuffed(l) == IF Dotted(l) THEN <<Dot>> \o l ELSE l

write_dot_stuffed(msg) ==
    IF msg = <<>> THEN <<<<>>>> ELSE [i \in DOMAIN msg |-> Stuffed(msg[i])]

\* The client ends the message, which has its CRLF already, with CRLF dot CRLF.
DataWire(msg) == write_dot_stuffed(msg) \o <<<<>>, LoneDot>>

\* The session drops one leading dot of every line.
Undot(l) == IF Dotted(l) THEN Tail(l) ELSE l

\* What is read up to the lone dot, and whether it came.
read_data(wire) ==
    LET ends == {i \in DOMAIN wire : wire[i] = LoneDot}
        n == IF ends = {} THEN Len(wire) + 1 ELSE Min(ends)
    IN  [lines |-> [i \in 1 .. n - 1 |-> Undot(wire[i])], ended |-> ends # {}]

-----------------------------------------------------------------------------
(* The session *)

\* HELO and EHLO start over without forgetting the paths.
cmd_ehlo(s) == [s EXCEPT !.state = "Initial"]

reset_transaction(s) == [s EXCEPT !.from = "nobody", !.rcpts = <<>>, !.state = "Initial"]

MailRefused(s) == s.state # "Initial" \/ (required /\ ~s.tls)

\* Mutant: the forward-paths are left as they were.
cmd_mail_Keep(s, from) ==
    IF MailRefused(s) THEN s ELSE [s EXCEPT !.from = from, !.state = "Mail"]
cmd_mail(s, from) ==
    IF MailRefused(s) THEN s
    ELSE [s EXCEPT !.from = from, !.rcpts = <<>>, !.state = "Mail"]

RcptRefused(s, r) == s.state \notin {"Mail", "Rcpt"} \/ r \notin Allowed
cmd_rcpt(s, r) ==
    IF RcptRefused(s, r) THEN s
    ELSE [s EXCEPT !.rcpts = Append(@, r), !.state = "Rcpt"]

cmd_starttls(s) == IF s.state # "Initial" THEN s ELSE [s EXCEPT !.tls = TRUE]

\* What arrives of the message is wire: all the client wrote or, when the connection breaks, a part.
\* Mutant: the end of the stream ends the message.
data_outcome_Eof(wire) ==
    LET r == read_data(wire)
    IN  IF Octets(r.lines) > MaxMessage THEN "too big" ELSE "deliver"
data_outcome(wire) ==
    LET r == read_data(wire)
    IN  IF ~r.ended THEN "aborted"
        ELSE IF Octets(r.lines) > MaxMessage THEN "too big"
        ELSE "deliver"

\* MemoryBackend::deliver; sent, accepted and given are history for the properties.
deliver(l, wire, msg) ==
    Append(queue, [from |-> smtp[l].from, rcpts |-> smtp[l].rcpts, body |-> read_data(wire).lines,
                   sent |-> msg, accepted |-> accepted[l], given |-> sending[l]])

\* DATA in Rcpt: 354, the message as far as it comes, and whether the backend takes it.
cmd_data(l, wire, msg, taken) ==
    queue' = IF smtp[l].state = "Rcpt" /\ data_outcome(wire) = "deliver" /\ taken
             THEN deliver(l, wire, msg)
             ELSE queue
After_data(s) == IF s.state = "Rcpt" THEN reset_transaction(s) ELSE s

-----------------------------------------------------------------------------
(* A client that gives its commands one by one *)

One(l) == sending[l] = Idle /\ smtp[l].left > 0

Ehlo(l) ==
    /\ One(l) /\ smtp[l].state # "Closed"
    /\ Took(l, cmd_ehlo(smtp[l]))
    /\ Heard(l, Nothing)
    /\ UNCHANGED <<required, sending, queue>>

Mail(l, from) ==
    /\ One(l) /\ Open(l)
    /\ Took(l, cmd_mail(smtp[l], from))
    /\ Heard(l, IF MailRefused(smtp[l]) THEN accepted[l] ELSE [from |-> from, rcpts |-> <<>>])
    /\ UNCHANGED <<required, sending, queue>>

Rcpt(l, r) ==
    /\ One(l) /\ Open(l)
    /\ Took(l, cmd_rcpt(smtp[l], r))
    /\ Heard(l, IF RcptRefused(smtp[l], r) THEN accepted[l]
                ELSE [accepted[l] EXCEPT !.rcpts = Append(@, r)])
    /\ UNCHANGED <<required, sending, queue>>

Rset(l) ==
    /\ One(l) /\ Open(l)
    /\ Took(l, reset_transaction(smtp[l]))
    /\ Heard(l, Nothing)
    /\ UNCHANGED <<required, sending, queue>>

Starttls(l) ==
    /\ One(l) /\ Open(l)
    /\ Took(l, cmd_starttls(smtp[l]))
    /\ UNCHANGED <<required, sending, queue, accepted>>

Data(l, msg, taken) ==
    /\ One(l) /\ Open(l)
    /\ cmd_data(l, DataWire(msg), msg, taken)
    /\ Took(l, After_data(smtp[l]))
    /\ Heard(l, IF smtp[l].state = "Rcpt" THEN Nothing ELSE accepted[l])
    /\ UNCHANGED <<required, sending>>

-----------------------------------------------------------------------------
(* Client::send_mail *)

\* MAIL FROM, of which only a failure of the connection stops it.
SendMail(l, from, rs, msg) ==
    /\ One(l) /\ Open(l)
    /\ rs # <<>>
    /\ Took(l, cmd_mail(smtp[l], from))
    /\ Heard(l, IF MailRefused(smtp[l]) THEN accepted[l] ELSE [from |-> from, rcpts |-> <<>>])
    /\ sending' = [sending EXCEPT ![l] = [from |-> from, todo |-> rs, all |-> rs, msg |-> msg,
                                          at |-> "rcpt"]]
    /\ UNCHANGED <<required, queue>>

\* The next RCPT TO; a refusal ends the call and leaves the transaction open.
SendRcpt(l) ==
    /\ sending[l].at = "rcpt" /\ sending[l].todo # <<>> /\ smtp[l].left > 0
    /\ LET r == Head(sending[l].todo)
       IN  /\ Took(l, cmd_rcpt(smtp[l], r))
           /\ IF RcptRefused(smtp[l], r)
              THEN sending' = [sending EXCEPT ![l] = Idle] /\ UNCHANGED accepted
              ELSE /\ sending' = [sending EXCEPT ![l].todo = Tail(@)]
                   /\ Heard(l, [accepted[l] EXCEPT !.rcpts = Append(@, r)])
    /\ UNCHANGED <<required, queue>>

\* DATA and the message.
SendData(l, taken) ==
    /\ sending[l].at = "rcpt" /\ sending[l].todo = <<>> /\ smtp[l].left > 0
    /\ cmd_data(l, DataWire(sending[l].msg), sending[l].msg, taken)
    /\ Took(l, After_data(smtp[l]))
    /\ Heard(l, IF smtp[l].state = "Rcpt" THEN Nothing ELSE accepted[l])
    /\ sending' = [sending EXCEPT ![l] = Idle]
    /\ UNCHANGED required

\* QUIT, or the connection breaks between two commands.
Leave(l) ==
    /\ smtp[l].state # "Closed"
    /\ smtp' = [smtp EXCEPT ![l].state = "Closed"]
    /\ sending' = [sending EXCEPT ![l] = Idle]
    /\ UNCHANGED <<required, queue, accepted>>

\* The connection breaks after n lines of the message.
Cut(l, n) ==
    /\ sending[l].at = "rcpt" /\ sending[l].todo = <<>> /\ smtp[l].state = "Rcpt"
    /\ LET wire == DataWire(sending[l].msg)
       IN  /\ n < Len(wire)
           /\ cmd_data(l, SubSeq(wire, 1, n), sending[l].msg, TRUE)
    /\ smtp' = [smtp EXCEPT ![l].state = "Closed"]
    /\ sending' = [sending EXCEPT ![l] = Idle]
    /\ UNCHANGED <<required, accepted>>

SmtpNext == \E l \in Links :
    \/ Ehlo(l) \/ Rset(l) \/ Starttls(l) \/ SendRcpt(l) \/ Leave(l)
    \/ \E from \in Senders : Mail(l, from)
    \/ \E r \in Rcpts : Rcpt(l, r)
    \/ \E taken \in BOOLEAN : SendData(l, taken) \/ \E msg \in SmtpMessages : Data(l, msg, taken)
    \/ \E from \in Senders, rs \in {<<r>> : r \in Rcpts} \union {<<r, q>> : r, q \in Rcpts}, msg \in SmtpMessages :
          SendMail(l, from, rs, msg)
    \/ \E n \in 0 .. 4 : Cut(l, n)

SmtpSpec == SmtpInit /\ [][SmtpNext]_smtpVars

-----------------------------------------------------------------------------

SmtpTypeOK ==
    \A l \in Links :
        /\ smtp[l].state \in SmtpStates
        /\ smtp[l].rcpts \in Seq(Allowed)
        /\ smtp[l].state = "Mail" => smtp[l].from # "nobody" /\ smtp[l].rcpts = <<>>
        /\ smtp[l].state = "Rcpt" => smtp[l].from # "nobody" /\ smtp[l].rcpts # <<>>

\* Every delivered envelope is the one the session agreed to: the reverse-path of the last MAIL it
\* answered with 250 and the forward-paths it accepted since, in order.  A transaction given up by
\* RSET, EHLO or a refusal leaves no path behind for the next one.
EnvelopeAsAccepted ==
    \A i \in DOMAIN queue :
        queue[i].from = queue[i].accepted.from /\ queue[i].rcpts = queue[i].accepted.rcpts

\* What is delivered is the whole message that was sent, whatever dots are in it and wherever the
\* connection breaks, with the empty line that data writes before the lone dot, and never more than
\* max_message octets.
DeliveredWhole ==
    \A i \in DOMAIN queue :
        LET e == queue[i]
        IN  /\ e.body = (IF e.sent = <<>> THEN <<<<>>>> ELSE e.sent) \o <<<<>>>>
            /\ ~(Octets(e.body) > MaxMessage)

\* A message given to send_mail goes out under the reverse-path and to the forward-paths it was given
\* with ("`from` is the reverse-path (or `None` for `<>`), `recipients` are the forward-paths",
\* client.rs).
SentAsGiven ==
    \A i \in DOMAIN queue :
        LET g == queue[i].given
        IN  g # Idle => queue[i].from = g.from /\ queue[i].rcpts = g.all
=============================================================================
