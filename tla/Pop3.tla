-------------------------------- MODULE Pop3 --------------------------------
(***************************************************************************)
(* POP3 sessions of tpt-pop3 over one shared MemoryBackend: every          *)
(* connection has a thread of its own and works on the copy of the mailbox *)
(* it took when its user was authenticated.                                *)
(*                                                                         *)
(* A command and its answer are one step: the client sends nothing before  *)
(* it has the answer, and a command takes the lock of the backend at most  *)
(* once.  add_user numbers the messages of a user 0 .. n-1 and retain      *)
(* keeps their order, so that a mailbox is its contents by UID.            *)
(***************************************************************************)
EXTENDS Naturals, Sequences, FiniteSetsExt, SequencesExt

CONSTANTS
    Users,          \* the accounts
    Conns,          \* connections
    PopMessages,    \* what the messages of a mailbox may be
    MaxCommands     \* bound: commands of one connection

VARIABLES
    mailbox,    \* the backend: per user, the content of each message by its UID
    pop,        \* the session of each connection
    asked,      \* history: the UIDs whose DELE was acknowledged and not reset
    wiped,      \* history: [user, uid] of what a QUIT was to remove
    body        \* what the last RETR or TOP was about and what came of it

popVars == <<mailbox, pop, asked, wiped, body>>

None == "none"
NoBody == [sent |-> <<>>, got |-> <<>>, rest |-> <<>>, told |-> FALSE]
PopStates == {"Authorization", "Transaction", "Closed", "Stuck"}

PopInit ==
    /\ mailbox \in [Users -> {[i \in 0 .. Len(ms) - 1 |-> ms[i + 1]] : ms \in PopMessages}]
    /\ pop = [c \in Conns |-> [state |-> "Authorization", pending |-> None, user |-> None,
                               messages |-> <<>>, left |-> MaxCommands]]
    /\ asked = [c \in Conns |-> {}]
    /\ wiped = {}
    /\ body = NoBody

\* A command of connection c, in a state.
Command(c, state) ==
    /\ pop[c].state = state
    /\ pop[c].left > 0
Became(c, s) == pop' = [pop EXCEPT ![c] = [s EXCEPT !.left = @ - 1]]
Same == UNCHANGED <<mailbox, asked, wiped, body>>

-----------------------------------------------------------------------------
(* Messages on the wire: a message is the sequence of its lines, each      *)
(* ended by CRLF; a line is a sequence of characters of which only the dot *)
(* matters.                                                                *)

Dot == "."
LoneDot == <<Dot>>
Line == UNION {[1 .. n -> {Dot, "x"}] : n \in 0 .. 2}
Stuffed(l) == IF l # <<>> /\ Head(l) = Dot THEN <<Dot>> \o l ELSE l

\* Mutant: the body goes out as it is.
write_stuffed_Plain(msg) == IF msg = <<>> THEN <<<<>>>> ELSE msg

\* An empty message is written as one empty line.
write_stuffed(msg) == IF msg = <<>> THEN <<<<>>>> ELSE [i \in DOMAIN msg |-> Stuffed(msg[i])]

\* The client drops a dot only where there are two.
Undouble(l) == IF Len(l) >= 2 /\ l[1] = Dot /\ l[2] = Dot THEN Tail(l) ELSE l

\* What is read up to the lone dot, and what is left of the wire.
read_multiline(wire) ==
    LET ends == {i \in DOMAIN wire : wire[i] = LoneDot}
        n == IF ends = {} THEN Len(wire) + 1 ELSE Min(ends)
    IN  [lines |-> [i \in 1 .. n - 1 |-> Undouble(wire[i])],
         rest  |-> SubSeq(wire, n + 1, Len(wire))]

\* TOP: the lines up to and with the first empty one that follows another line, and n more.
find_separator(msg) == {j \in 2 .. Len(msg) : msg[j] = <<>>}
top_bytes(msg, n) ==
    IF find_separator(msg) = {} THEN msg
    ELSE SubSeq(msg, 1, Min({Len(msg), Min(find_separator(msg)) + n}))

-----------------------------------------------------------------------------
(* AUTHORIZATION *)

User(c, u) ==
    /\ Command(c, "Authorization")
    /\ Became(c, [pop[c] EXCEPT !.pending = u])
    /\ Same

\* The UIDs of a mailbox as the backend lists them, in a set of one.
InOrder(uids) == {q \in [1 .. Cardinality(uids) -> uids] : \A i, j \in DOMAIN q : i < j => q[i] < q[j]}

\* The snapshot of the mailbox, listed as in q, with nothing marked.
enter_transaction(s, u, q) ==
    [s EXCEPT !.state = "Transaction", !.user = u,
              !.messages = [i \in DOMAIN q |->
                               [uid |-> q[i], content |-> mailbox[u][q[i]], deleted |-> FALSE]]]

\* PASS takes the name away, whatever comes of it; good says that the password is that of the name.
Pass(c, good) ==
    /\ Command(c, "Authorization")
    /\ LET u == pop[c].pending
           s == [pop[c] EXCEPT !.pending = None]
       IN  IF u # None /\ good
           THEN \E q \in InOrder(DOMAIN mailbox[u]) : Became(c, enter_transaction(s, u, q))
           ELSE Became(c, s)
    /\ Same

\* A digest of the greeting's timestamp and the password; a wrong one changes nothing.
Apop(c, u) ==
    /\ Command(c, "Authorization")
    /\ \E q \in InOrder(DOMAIN mailbox[u]) : Became(c, enter_transaction(pop[c], u, q))
    /\ Same

-----------------------------------------------------------------------------
(* TRANSACTION *)

visible(s) == SelectSeq(s.messages, LAMBDA m : ~m.deleted)

\* RETR, DELE and the one-message forms count every message of the snapshot.
resolve(s, num) == num \in DOMAIN s.messages /\ ~s.messages[num].deleted

\* LIST and UIDL count only the messages before it that are not marked.
number_of(s, i) == 1 + Cardinality({j \in 1 .. i - 1 : ~s.messages[j].deleted})
Listing(s) == {<<number_of(s, i), s.messages[i].uid>> : i \in {j \in DOMAIN s.messages : ~s.messages[j].deleted}}

Dele(c, num) ==
    /\ Command(c, "Transaction")
    /\ resolve(pop[c], num)
    /\ Became(c, [pop[c] EXCEPT !.messages[num].deleted = TRUE])
    /\ asked' = [asked EXCEPT ![c] = @ \union {pop[c].messages[num].uid}]
    /\ UNCHANGED <<mailbox, wiped, body>>

Unmarked(s) ==
    [s EXCEPT !.messages = [i \in DOMAIN s.messages |-> [s.messages[i] EXCEPT !.deleted = FALSE]]]

Rset(c) ==
    /\ Command(c, "Transaction")
    /\ Became(c, Unmarked(pop[c]))
    /\ asked' = [asked EXCEPT ![c] = {}]
    /\ UNCHANGED <<mailbox, wiped, body>>

\* The body is written with its dots doubled and a lone dot after it.
Answer(c, sent) ==
    LET r == read_multiline(write_stuffed(sent) \o <<LoneDot>>)
    IN  /\ body' = [sent |-> sent, got |-> r.lines, rest |-> r.rest, told |-> TRUE]
        /\ Became(c, pop[c])
        /\ UNCHANGED <<mailbox, asked, wiped>>

Retr(c, num) ==
    /\ Command(c, "Transaction")
    /\ resolve(pop[c], num)
    /\ Answer(c, pop[c].messages[num].content)

Top(c, num, n) ==
    /\ Command(c, "Transaction")
    /\ resolve(pop[c], num)
    /\ Answer(c, top_bytes(pop[c].messages[num].content, n))

\* STAT, LIST and UIDL without a number, and every command that is refused.
Ask(c) ==
    /\ pop[c].state \in {"Authorization", "Transaction"} /\ pop[c].left > 0
    /\ Became(c, pop[c])
    /\ Same

\* The client reads the one-line answer of LIST n or UIDL n as the head of a list and waits for
\* lines that do not come.
ListOne(c, num) ==
    /\ Command(c, "Transaction")
    /\ resolve(pop[c], num)
    /\ Became(c, [pop[c] EXCEPT !.state = "Stuck"])
    /\ Same

\* Mutant: the snapshot without the marked messages is written back over the mailbox.
expunge_WriteBack(u, uids) ==
    LET mine == {pop[c].messages : c \in {d \in Conns : pop[d].user = u}}
        kept == SelectSeq(CHOOSE ms \in mine : TRUE, LAMBDA m : m.uid \notin uids)
    IN  [mailbox EXCEPT ![u] = [i \in {m.uid : m \in Range(kept)} |->
                                   (CHOOSE m \in Range(kept) : m.uid = i).content]]
expunge(u, uids) == [mailbox EXCEPT ![u] = [i \in DOMAIN mailbox[u] \ uids |-> mailbox[u][i]]]

\* QUIT commits what is marked; in AUTHORIZATION there is nothing to commit.
Quit(c) ==
    /\ pop[c].state \in {"Authorization", "Transaction"} /\ pop[c].left > 0
    /\ LET s == pop[c]
           marked == {s.messages[i].uid : i \in {j \in DOMAIN s.messages : s.messages[j].deleted}}
       IN  /\ mailbox' = IF s.user = None THEN mailbox ELSE expunge(s.user, marked)
           /\ wiped' = wiped \union {[user |-> s.user, uid |-> i] : i \in asked[c]}
    /\ Became(c, [pop[c] EXCEPT !.state = "Closed"])
    /\ UNCHANGED <<asked, body>>

\* The connection ends without QUIT: nothing is committed.
Drop(c) ==
    /\ pop[c].state # "Closed"
    /\ pop' = [pop EXCEPT ![c].state = "Closed"]
    /\ Same

PopNext == \E c \in Conns :
    \/ \E u \in Users : User(c, u) \/ Apop(c, u)
    \/ \E good \in BOOLEAN : Pass(c, good)
    \/ Ask(c) \/ Rset(c) \/ Quit(c) \/ Drop(c)
    \/ \E num \in DOMAIN pop[c].messages :
          \/ Dele(c, num) \/ ListOne(c, num)
          \/ Retr(c, num) \/ \E n \in 0 .. 1 : Top(c, num, n)

PopSpec == PopInit /\ [][PopNext]_popVars

-----------------------------------------------------------------------------

PopTypeOK ==
    /\ \A u \in Users : \A i \in DOMAIN mailbox[u] : i \in Nat /\ mailbox[u][i] \in Seq(Line)
    /\ \A c \in Conns :
          /\ pop[c].state \in PopStates
          /\ pop[c].user \in Users \union {None}
          /\ pop[c].state \in {"Transaction", "Stuck"} => pop[c].user # None

\* Mail is removed exactly when it was asked for: what is missing from a mailbox is what an
\* acknowledged DELE, not taken back by RSET, named in a session that ended with QUIT.  A session
\* that breaks off removes nothing, and neither does the stale snapshot of another session bring
\* anything back or take anything else away.
RemovedAsAsked ==
    \A u \in Users, c \in Conns : pop[c].user = u =>
        \A i \in DOMAIN pop[c].messages :
            LET uid == pop[c].messages[i].uid
            IN  uid \in DOMAIN mailbox[u] <=> [user |-> u, uid |-> uid] \notin wiped

\* What RETR or TOP delivers is the message, whatever dots it has in it, and the client is at the end
\* of the answer.
BodyWhole ==
    body.told =>
        /\ body.got = IF body.sent = <<>> THEN <<<<>>>> ELSE body.sent
        /\ body.rest = <<>>

\* The number LIST and UIDL give a message is the number by which RETR and DELE find it.
ListedIsMeant ==
    \A c \in Conns : pop[c].state = "Transaction" =>
        \A e \in Listing(pop[c]) :
            resolve(pop[c], e[1]) /\ pop[c].messages[e[1]].uid = e[2]
=============================================================================
