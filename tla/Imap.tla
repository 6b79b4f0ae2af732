-------------------------------- MODULE Imap --------------------------------
(***************************************************************************)
(* IMAP sessions of tpt-imap-server, one thread each, over one shared      *)
(* InMemoryStore: the mailboxes of one user.                               *)
(*                                                                         *)
(* A call of the store is one step (it holds the store's lock); a command  *)
(* that calls it more than once (SELECT, FETCH, STORE, COPY, EXPUNGE,      *)
(* CLOSE) is as many steps, between which other sessions act.              *)
(***************************************************************************)
EXTENDS Naturals, Sequences, FiniteSetsExt, SequencesExt

CONSTANTS
    Names,          \* mailbox names
    Inbox,          \* the one that is there from the start, with two messages
    Sess,           \* sessions
    MaxUidNext,     \* bound: UIDs of a mailbox
    MaxStored,      \* bound: messages ever stored
    StoreArgs,      \* [op, flags] of the STORE commands
    AppendFlags,    \* flags of the APPEND commands
    MaxImap         \* bound: commands of all sessions

VARIABLES
    box,        \* the store: the mailbox of each name, or Absent
    imap,       \* each session: state, selection, command in progress
    client,     \* history: the UIDs each client takes its sequence numbers to stand for
    left,       \* commands that may still be given
    stored      \* history: number of messages ever stored, the identity of the next

imapVars == <<box, imap, client, left, stored>>

Flags == {"Seen", "Deleted"}
Absent == [there |-> FALSE, born |-> 0, uidnext |-> 1, msgs |-> <<>>]
NoSelection == [name |-> "none", readonly |-> FALSE, uids |-> <<>>, born |-> 0, was |-> {}]
NoWork == [cmd |-> "none", uids |-> <<>>, op |-> "Add", flags |-> {}, copies |-> <<>>, to |-> "none"]

Uids(msgs) == [i \in DOMAIN msgs |-> msgs[i].uid]
Has(msgs, uid) == \E i \in DOMAIN msgs : msgs[i].uid = uid
At(msgs, uid) == CHOOSE i \in DOMAIN msgs : msgs[i].uid = uid

ImapInit ==
    /\ \E two \in BOOLEAN :
          box = [m \in Names |->
                    IF m = Inbox
                    THEN [there |-> TRUE, born |-> 1, uidnext |-> 3,
                          msgs |-> [i \in 1 .. 2 |-> [uid |-> i, id |-> i, flags |-> {}]]]
                    ELSE IF two THEN [Absent EXCEPT !.there = TRUE, !.born = 2] ELSE Absent]
    /\ imap = [s \in Sess |-> [state |-> "Authenticated", sel |-> NoSelection, work |-> NoWork]]
    /\ left = MaxImap
    /\ client = [s \in Sess |-> <<>>]
    /\ stored = 3

-----------------------------------------------------------------------------
(* InMemoryStore; a mailbox is a record, its messages in the order of arrival *)

\* Mutant: the next UID is taken from the messages that are left.
append_Reuse(b, m) ==
    LET uid == IF b.msgs = <<>> THEN 1 ELSE Last(b.msgs).uid + 1
    IN  [b EXCEPT !.msgs = Append(@, [m EXCEPT !.uid = uid]), !.uidnext = uid + 1]
append(b, m) == [b EXCEPT !.msgs = Append(@, [m EXCEPT !.uid = b.uidnext]), !.uidnext = @ + 1]

\* Mutant: a copy keeps the UID of its original.
copied_SameUid(b, ms) == [b EXCEPT !.msgs = @ \o ms, !.uidnext = @ + Len(ms)]
copied(b, ms) == FoldLeft(append, b, ms)

set_flags(b, uid, op, fs) ==
    LET i == At(b.msgs, uid)
    IN  [b EXCEPT !.msgs[i].flags = CASE op = "Replace" -> fs
                                      [] op = "Add"     -> @ \union fs
                                      [] op = "Remove"  -> @ \ fs]

\* Mutant: the flag is not looked at a second time.
Doomed_Stale(m, uids) == m.uid \in ToSet(uids)
Doomed(m, uids) == m.uid \in ToSet(uids) /\ "Deleted" \in m.flags
expunge_removed(b, uids) == Uids(SelectSeq(b.msgs, LAMBDA m : Doomed(m, uids)))
expunge_uids(b, uids) == [b EXCEPT !.msgs = SelectSeq(@, LAMBDA m : ~Doomed(m, uids))]

\* create and subscribe make a new mailbox; UIDs start at 1 and UIDVALIDITY is 1 again.
fresh == [Absent EXCEPT !.there = TRUE, !.born = stored]

-----------------------------------------------------------------------------
(* Sessions *)

Began(s) == imap[s].state # "Logout" /\ imap[s].work = NoWork /\ left > 0
\* The session after a command is begun, and after a later step of it.
Begin(s, r) == imap' = [imap EXCEPT ![s] = r] /\ left' = left - 1
Now(s, r) == imap' = [imap EXCEPT ![s] = r] /\ UNCHANGED left
Working(s, cmd) == imap[s].work.cmd = cmd
Mine(s) == box[imap[s].sel.name]
Done(s) == [imap[s] EXCEPT !.work = NoWork]

\* CREATE and SUBSCRIBE of a name that is not there; one that is refused (or only
\* marked as subscribed) changes nothing that is modelled.
Create(s, n) ==
    /\ Began(s) /\ ~box[n].there /\ stored <= MaxStored
    /\ box' = [box EXCEPT ![n] = fresh]
    /\ stored' = stored + 1
    /\ Begin(s, imap[s]) /\ UNCHANGED client

Delete(s, n) ==
    /\ Began(s) /\ box[n].there
    /\ box' = [box EXCEPT ![n] = Absent]
    /\ Begin(s, imap[s]) /\ UNCHANGED <<client, stored>>

\* The mailbox is taken out under its old name before the new name is found to be in use.
Rename(s, n, to) ==
    /\ Began(s) /\ box[n].there
    /\ box' = IF n # to /\ box[to].there THEN [box EXCEPT ![n] = Absent]
              ELSE [box EXCEPT ![n] = Absent, ![to] = box[n]]
    /\ Begin(s, imap[s]) /\ UNCHANGED <<client, stored>>

Store_append(s, n, fs) ==
    /\ Began(s) /\ box[n].there /\ stored <= MaxStored /\ box[n].uidnext <= MaxUidNext
    /\ box' = [box EXCEPT ![n] = append(@, [uid |-> 0, id |-> stored, flags |-> fs])]
    /\ stored' = stored + 1
    /\ Begin(s, imap[s]) /\ UNCHANGED client

\* SELECT and EXAMINE: the status first, then the messages (Select2); a missing mailbox
\* leaves an earlier selection as it was.
Select(s, n, readonly) ==
    /\ Began(s) /\ box[n].there
    /\ Begin(s, [imap[s] EXCEPT !.work = [NoWork EXCEPT !.cmd = "select", !.to = n,
                                            !.op = IF readonly THEN "Examine" ELSE "Select"]])
    /\ UNCHANGED <<box, client, stored>>
Select2(s) ==
    /\ Working(s, "select")
    /\ LET w == imap[s].work
           b == box[w.to]
       IN  IF ~b.there
           THEN Now(s, Done(s)) /\ UNCHANGED client
           ELSE /\ Now(s, [Done(s) EXCEPT !.state = "Selected",
                               !.sel = [name |-> w.to, readonly |-> w.op = "Examine",
                                        uids |-> Uids(b.msgs), born |-> b.born,
                                        was |-> {[uid |-> b.msgs[i].uid, id |-> b.msgs[i].id] : i \in DOMAIN b.msgs}]])
                /\ client' = [client EXCEPT ![s] = Uids(b.msgs)]
    /\ UNCHANGED <<box, stored>>

Selected(s) == Began(s) /\ imap[s].state = "Selected"
\* The UIDs a sequence set or a UID set picks of the session's view, in order.
Picked(s, set) == SelectSeq(imap[s].sel.uids, LAMBDA u : u \in set)

\* FETCH without PEEK (op "Fetch") and STORE change flags message by message.
Flag(s, cmd, set, op, fs) ==
    /\ Selected(s) /\ ~imap[s].sel.readonly /\ set # {}
    /\ Begin(s, [imap[s] EXCEPT !.work = [NoWork EXCEPT !.cmd = cmd, !.uids = Picked(s, set), !.op = op,
                                                       !.flags = fs]])
    /\ UNCHANGED <<box, client, stored>>
\* The next message of it.  STORE stops at one that is gone, FETCH passes over it.
FlagNext(s) ==
    /\ imap[s].work.cmd \in {"store", "fetch"}
    /\ LET w == imap[s].work
           here == Mine(s).there /\ Has(Mine(s).msgs, Head(w.uids))
       IN  /\ box' = IF here THEN [box EXCEPT ![imap[s].sel.name] = set_flags(@, Head(w.uids), w.op, w.flags)]
                     ELSE box
           /\ Now(s, IF Len(w.uids) = 1 \/ (w.cmd = "store" /\ ~here) THEN Done(s)
                     ELSE [imap[s] EXCEPT !.work.uids = Tail(@)])
    /\ UNCHANGED <<client, stored>>

\* COPY reads the messages under the lock and stores them under the lock taken again.
Copy(s, set, to) ==
    /\ Selected(s) /\ Mine(s).there
    /\ LET ms == SelectSeq(Mine(s).msgs, LAMBDA m : m.uid \in ToSet(Picked(s, set)))
       IN  Begin(s, [imap[s] EXCEPT !.work = [NoWork EXCEPT !.cmd = "copy", !.copies = ms, !.to = to]])
    /\ UNCHANGED <<box, client, stored>>
Copy2(s) ==
    /\ Working(s, "copy")
    /\ LET w == imap[s].work
           n == Len(w.copies)
       IN  /\ box[w.to].uidnext + n <= MaxUidNext + 1 /\ stored + n <= MaxStored + 1
           /\ IF box[w.to].there
              THEN /\ box' = [box EXCEPT ![w.to] =
                                copied(@, [i \in 1 .. n |-> [w.copies[i] EXCEPT !.id = stored + i - 1]])]
                   /\ stored' = stored + n
              ELSE UNCHANGED <<box, stored>>
    /\ Now(s, Done(s)) /\ UNCHANGED client

-----------------------------------------------------------------------------
(* EXPUNGE, UID EXPUNGE and CLOSE *)

\* EXPUNGE answers: the position of each removed message at the moment it is taken out of the view.
\* Mutant: the positions are those of the view before.
expunge_numbers_Before(uids, removed) ==
    [i \in DOMAIN removed |-> CHOOSE p \in DOMAIN uids : uids[p] = removed[i]]
expunge_numbers(uids, removed) ==
    [i \in DOMAIN removed |->
        LET rest == SelectSeq(uids, LAMBDA u : u \notin {removed[j] : j \in 1 .. i - 1})
        IN  CHOOSE p \in DOMAIN rest : rest[p] = removed[i]]
\* The client takes the numbers out one after the other.
Heard(view, numbers) == FoldLeft(LAMBDA v, p : IF p \in DOMAIN v THEN RemoveAt(v, p) ELSE v, view, numbers)

\* EXPUNGE and CLOSE first list what is marked, UID EXPUNGE takes the UIDs it is given.
\* CLOSE does not ask whether the mailbox was opened with EXAMINE.
Expunge(s, cmd) ==
    /\ Selected(s) /\ Mine(s).there
    /\ cmd = "expunge" => ~imap[s].sel.readonly
    /\ Begin(s, [imap[s] EXCEPT !.work = [NoWork EXCEPT !.cmd = cmd,
                  !.uids = Uids(SelectSeq(Mine(s).msgs, LAMBDA m : "Deleted" \in m.flags))]])
    /\ UNCHANGED <<box, client, stored>>
UidExpunge(s, set) ==
    /\ Selected(s) /\ ~imap[s].sel.readonly
    /\ Begin(s, [imap[s] EXCEPT !.work = [NoWork EXCEPT !.cmd = "expunge", !.uids = Picked(s, set)]])
    /\ UNCHANGED <<box, client, stored>>

\* expunge_uids, and what the session tells its client: of a removed message it does not know, nothing.
Expunge2(s) ==
    /\ Working(s, "expunge")
    /\ IF ~Mine(s).there THEN Now(s, Done(s)) /\ UNCHANGED <<box, client>>
       ELSE LET sel == imap[s].sel
                removed == expunge_removed(Mine(s), imap[s].work.uids)
                known == SelectSeq(removed, LAMBDA u : u \in ToSet(sel.uids))
            IN  /\ box' = [box EXCEPT ![sel.name] = expunge_uids(@, imap[s].work.uids)]
                /\ Now(s, [Done(s) EXCEPT
                      !.sel.uids = SelectSeq(@, LAMBDA u : u \notin ToSet(known))])
                /\ client' = [client EXCEPT ![s] = Heard(@, expunge_numbers(sel.uids, known))]
    /\ UNCHANGED stored
Close2(s) ==
    /\ Working(s, "close")
    /\ box' = IF Mine(s).there THEN [box EXCEPT ![imap[s].sel.name] = expunge_uids(@, imap[s].work.uids)]
              ELSE box
    /\ Now(s, [Done(s) EXCEPT !.state = "Authenticated", !.sel = NoSelection])
    /\ client' = [client EXCEPT ![s] = <<>>]
    /\ UNCHANGED stored
\* CLOSE of a mailbox that is gone.
CloseGone(s) ==
    /\ Selected(s) /\ ~Mine(s).there
    /\ Begin(s, [imap[s] EXCEPT !.state = "Authenticated", !.sel = NoSelection])
    /\ client' = [client EXCEPT ![s] = <<>>]
    /\ UNCHANGED <<box, stored>>

Logout(s) ==
    /\ Began(s)
    /\ Begin(s, [imap[s] EXCEPT !.state = "Logout", !.sel = NoSelection])
    /\ client' = [client EXCEPT ![s] = <<>>]
    /\ UNCHANGED <<box, stored>>

ImapNext == \E s \in Sess :
    \/ Select2(s) \/ FlagNext(s) \/ Copy2(s) \/ Expunge2(s) \/ Close2(s) \/ CloseGone(s) \/ Logout(s)
    \/ Expunge(s, "expunge") \/ Expunge(s, "close")
    \/ \E n \in Names :
          \/ Create(s, n) \/ Delete(s, n)
          \/ \E readonly \in BOOLEAN : Select(s, n, readonly)
          \/ \E to \in Names : Rename(s, n, to)
          \/ \E fs \in AppendFlags : Store_append(s, n, fs)
    \/ \E set \in SUBSET ToSet(imap[s].sel.uids) :
          \/ UidExpunge(s, set)
          \/ \E to \in Names : Copy(s, set, to)
          \/ Flag(s, "fetch", set, "Add", {"Seen"})
          \/ \E a \in StoreArgs : Flag(s, "store", set, a.op, a.flags)

-----------------------------------------------------------------------------

Ascending(uids) == \A i \in 1 .. Len(uids) - 1 : uids[i] < uids[i + 1]

\* The store and the sessions have their types.
ImapTypeOK ==
    /\ \A n \in Names : box[n].there \in BOOLEAN /\ ToSet(Uids(box[n].msgs)) \subseteq 1 .. box[n].uidnext - 1
    /\ \A s \in Sess :
          /\ imap[s].state \in {"Authenticated", "Selected", "Logout"}
          /\ imap[s].state = "Selected" <=> imap[s].sel # NoSelection

\* UIDs ascend with the position of a message, in every mailbox and in every session's view of one, so that
\* a sequence number is a position ("Return a snapshot of every message in a mailbox, ordered by UID",
\* store.rs).
UidsAscend ==
    /\ \A n \in Names : Ascending(Uids(box[n].msgs))
    /\ \A s \in Sess : Ascending(imap[s].sel.uids)

\* A UID the session took when it selected a mailbox stands for the same message as long as that mailbox
\* lives, whatever other sessions expunge and append meanwhile: no command of a session with an old view
\* reaches another message than its client means.
SameMessage ==
    \A s \in Sess, n \in Names :
        imap[s].sel # NoSelection /\ box[n].there /\ box[n].born = imap[s].sel.born =>
            \A m \in imap[s].sel.was, j \in DOMAIN box[n].msgs :
                box[n].msgs[j].uid = m.uid => box[n].msgs[j].id = m.id

\* A message leaves a mailbox that stays only while it carries \Deleted ("Permanently remove the identified
\* messages (which must carry `\Deleted`)", store.rs): a flag another session takes off between the listing
\* and the removal saves the message.
OnlyDeletedLeaves ==
    [][\A n \in Names : box[n].there /\ box'[n].there /\ box[n].born = box'[n].born =>
          \A i \in DOMAIN box[n].msgs :
              "Deleted" \in box[n].msgs[i].flags \/ Has(box'[n].msgs, box[n].msgs[i].uid)]_imapVars

\* A client that takes out of its list the numbers of the EXPUNGE answers, one by one, has the list the
\* session resolves its next sequence numbers with.
ClientInStep == \A s \in Sess : client[s] = imap[s].sel.uids
=============================================================================
