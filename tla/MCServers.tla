------------------------------ MODULE MCServers ------------------------------
(***************************************************************************)
(* The servers whose sessions share a store, side by side: POP3 sessions   *)
(* on one mailbox, an SMTP client and session, IMAP sessions on one store, *)
(* JMAP clients of one account, LDAP sessions on one directory, NETCONF    *)
(* sessions on one datastore and the framing of their messages.  A         *)
(* behaviour of a run is about one of them (part).  ServerProofs proves    *)
(* its theorems of the properties stated here, whatever the constants are; *)
(* their values for TLC are at the end.                                    *)
(***************************************************************************)
EXTENDS Naturals, Sequences, TLC

CONSTANTS Users, Conns, PopMessages, MaxCommands,
          Links, Senders, Rcpts, Allowed, SmtpMessages, MaxMessage, MaxSmtp,
          Names, Inbox, Sess, StoreArgs, AppendFlags, MaxUidNext, MaxStored, MaxImap,
          Clients, Keepers, Follows, Vals, Limit, MaxNext, MaxRevision,
          Superiors, LdapValues, Others, MaxOps,
          CHUNK_SIZE, Texts, MaxSent, Nodes, Contents, MaxRpcs,
          Parts       \* the models a run is about

VARIABLES part, mailbox, pop, asked, wiped, body, required, smtp, sending, queue, accepted,
          box, imap, viewer, left, stored, acct, copy, page, overwritten,
          dir, live, answer, ops, sent, wire, buf, got, stores, locked, frozen, rpcs

Pop == INSTANCE Pop3
Smt == INSTANCE Smtp
Ima == INSTANCE Imap WITH client <- viewer
Jma == INSTANCE Jmap
Lda == INSTANCE Ldap
Net == INSTANCE Netconf

pop3State == <<mailbox, pop, asked, wiped, body>>
smtpState == <<required, smtp, sending, queue, accepted>>
imapState == <<box, imap, viewer, left, stored>>
jmapState == <<acct, copy, page, overwritten>>
ldapState == <<dir, live, answer, ops>>
framing == <<sent, wire, buf, got>>
datastore == <<stores, locked, frozen, rpcs>>
mail == <<pop3State, smtpState, imapState, jmapState>>
management == <<ldapState, framing, datastore>>
all == <<part, mail, management>>

MCInit ==
    /\ Pop!PopInit /\ Smt!SmtpInit /\ Ima!ImapInit /\ Jma!JmapInit /\ Lda!LdapInit /\ Net!NetconfInit
    /\ part \in Parts /\ (part # "smtp" => ~required) /\ (part # "imap" => \A m \in Names : box[m].there)

MCNext ==
    /\ UNCHANGED part
    /\ \/ part = "pop3" /\ Pop!PopNext /\ UNCHANGED <<smtpState, imapState, jmapState, management>>
       \/ part = "smtp" /\ Smt!SmtpNext /\ UNCHANGED <<pop3State, imapState, jmapState, management>>
       \/ part = "imap" /\ Ima!ImapNext /\ UNCHANGED <<pop3State, smtpState, jmapState, management>>
       \/ part = "jmap" /\ Jma!JmapNext /\ UNCHANGED <<pop3State, smtpState, imapState, management>>
       \/ part = "ldap" /\ Lda!LdapNext /\ UNCHANGED <<mail, framing, datastore>>
       \/ part = "framing" /\ Net!FrameNext /\ UNCHANGED <<mail, ldapState>>
       \/ part = "datastore" /\ Net!StoreNext /\ UNCHANGED <<mail, ldapState>>

MCSpec == MCInit /\ [][MCNext]_all

\* POP3: mail is removed exactly as acknowledged DELE commands and QUIT asked.
RemovedAsAsked == Pop!RemovedAsAsked
\* POP3 and SMTP: RETR, TOP and DATA deliver the message whatever dots it has, and only whole ones.
TextWhole == Pop!BodyWhole /\ Smt!DeliveredWhole
\* SMTP: an envelope holds the paths accepted in its transaction and no others.
EnvelopeAsAccepted == Smt!EnvelopeAsAccepted
\* IMAP: a UID of a session's view keeps its message, UIDs ascend with the position, and client and
\* session agree on the sequence numbers.
ViewInStep == Ima!SameMessage /\ Ima!UidsAscend /\ Ima!ClientInStep
\* IMAP: only a message marked \Deleted leaves a mailbox.
OnlyDeletedLeaves == Ima!OnlyDeletedLeaves
\* JMAP: a copy or the pages of a query that carry the account's state string are what it holds, and a
\* conditional /set changes nothing its caller has not seen.
ReadIsCurrent == Jma!ReadIsCurrent /\ Jma!NothingOverwritten
\* NETCONF: the messages decoded are those sent, however the stream is cut, and nothing changes a
\* datastore that is locked.
RpcsSound == Net!FramesWhole /\ Net!LocksHold
\* LDAP: no entry is lost or doubled by renaming, and a search says when it is cut off.
DirectoryWhole == Lda!DirectoryWhole
\* LDAP: a change of one attribute leaves the others alone.
OthersKept == Lda!OthersKept

-----------------------------------------------------------------------------
(* Values for TLC. *)

\* Mailboxes of three messages: with a lone dot, with a header and nothing at all.
ThreeMails == {<<<<<<".">>, <<"x">>>>, <<<<"x">>, <<>>, <<".", ".">>>>, <<>>>>}
Submissions == {<<>>, <<<<"x">>, <<".">>>>, <<<<".", "x">>, <<"x", "x">>, <<"x", "x">>>>}
DeletedOrSeen == {[op |-> "Add", flags |-> {"Deleted"}], [op |-> "Remove", flags |-> {"Deleted"}],
                  [op |-> "Replace", flags |-> {"Seen"}]}
\* One client keeps a copy of the submissions, another lists the emails, one id to a page.
FollowsTypes == [c \in Clients |-> IF c = "c1" THEN "EmailSubmission" ELSE "Email"]
\* The suffix of the directory and an entry under it, which may or may not be there.
TwoLevels == {<<<<"dc", "x">>>>, <<<<"cn", "a">>, <<"dc", "x">>>>}
\* Elements with little in them, among it the sequences that end messages and begin chunks.
Inner == UNION {[1 .. n -> {"x", "]", ">", "nl", "#"}] : n \in 0 .. 2}
           \union {<<"]", "]", ">">>, <<"]", "]", ">", "]", "]", ">">>, <<"x", "nl", "nl", "]", "]", ">">>}
Elements == {<<"<">> \o b \o <<">">> : b \in Inner}

\* IMAP sessions are interchangeable.
Symmetry == Permutations(Sess)
=============================================================================
