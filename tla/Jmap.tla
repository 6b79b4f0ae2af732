-------------------------------- MODULE Jmap --------------------------------
(***************************************************************************)
(* tpt-jmap: one account of MemoryMailStore behind a Dispatcher, and       *)
(* clients that keep a copy of the objects of one type.  The Dispatcher    *)
(* answers one request at a time (its store is a RefCell), so a request is *)
(* one step; what a client does takes several.                             *)
(*                                                                         *)
(* An object is a record of what the methods tell apart: val stands for    *)
(* the properties a patch sets and a query sorts by, ref is the emailId of *)
(* a submission and undo its undoStatus.  Arguments carry no id of their   *)
(* own; threads, which no method changes, are left out.                    *)
(***************************************************************************)
EXTENDS Integers, Sequences, FiniteSets

CONSTANTS Clients,    \* the clients of the account
          Keepers,    \* those that keep a copy; the others page through queries
          Follows,    \* the type of object each client is about
          Vals,       \* the values of a property
          Limit,      \* the page size of a query
          MaxNext,    \* bound on the ids allocated
          MaxRevision \* bound on the revisions

VARIABLES acct,       \* AccountData
          copy,       \* per client: its copy, the state string it is of and what it is about to fetch
          page,       \* per client: the query it is paging through
          overwritten \* clients whose conditional /set met objects they had not seen
jmapVars == <<acct, copy, page, overwritten>>

Types == {"Mailbox", "Email", "EmailSubmission"}
Prefix(t) == CASE t = "Mailbox" -> "M" [] t = "Email" -> "E" [] t = "EmailSubmission" -> "S"
None == -1
NoObjects == [i \in {} |-> [val |-> 0]]
NoChange == [created |-> {}, updated |-> {}, destroyed |-> {}]
NoSync == [ids |-> {}, gone |-> {}, new |-> None]
NoPage == [state |-> None, ids |-> <<>>, done |-> FALSE]

JmapInit ==
    /\ acct = [revision |-> 0, next |-> 0, log |-> <<>>, objs |-> [t \in Types |-> NoObjects]]
    /\ copy = [c \in Clients |-> [objs |-> NoObjects, state |-> 0, sync |-> NoSync]]
    /\ page = [c \in Clients |-> NoPage]
    /\ overwritten = {}

-----------------------------------------------------------------------------
\* A map after the entries of another are put into it.
Over(f, g) == [i \in DOMAIN f \union DOMAIN g |-> IF i \in DOMAIN f THEN f[i] ELSE g[i]]

\* alloc: one counter for the ids of every type; an Email takes a second number for its blob.
alloc(a, t) == [a EXCEPT !.next = @ + (IF t = "Email" THEN 2 ELSE 1)]
NewId(a, t) == <<Prefix(t), a.next + 1>>

\* The object of a create argument, in a set that is empty where the store puts it under notCreated: no
\* name, no mailbox, no emailId or one that names no email.
Creatable(a, t, arg) ==
    IF t = "EmailSubmission"
    THEN {[val |-> arg.val, ref |-> arg.ref, undo |-> "pending"] : i \in {arg.ref} \cap DOMAIN a.objs["Email"]}
    ELSE {[val |-> v] : v \in {arg.val} \ {0}}

\* The create, update and destroy arguments of a /set in turn: r holds the account and the ChangeSet.
apply_create(r, t, arg) ==
    LET i == NewId(r.acct, t)
        new == [j \in {i : o \in Creatable(r.acct, t, arg)} |-> CHOOSE o \in Creatable(r.acct, t, arg) : TRUE]
    IN  [acct   |-> [alloc(r.acct, t) EXCEPT !.objs[t] = Over(new, @)],
         change |-> [r.change EXCEPT !.created = @ \union DOMAIN new]]

\* A submission can be cancelled only while it is pending; every other patch of undoStatus is taken.
Updatable(o, patch) == ~("undo" \in DOMAIN patch /\ patch.undo = "canceled" /\ o.undo # "pending")

\* Mutant: an update is stored and left out of the ChangeSet.
apply_update_Unlogged(r, t, patches) ==
    LET objs == r.acct.objs[t]
        done == {i \in DOMAIN patches \cap DOMAIN objs : Updatable(objs[i], patches[i])}
    IN  [r EXCEPT !.acct.objs[t] = [i \in DOMAIN objs |-> IF i \in done THEN Over(patches[i], objs[i]) ELSE objs[i]]]

apply_update(r, t, patches) ==
    LET objs == r.acct.objs[t]
        done == {i \in DOMAIN patches \cap DOMAIN objs : Updatable(objs[i], patches[i])}
    IN  [acct   |-> [r.acct EXCEPT !.objs[t] =
                        [i \in DOMAIN objs |-> IF i \in done THEN Over(patches[i], objs[i]) ELSE objs[i]]],
         change |-> [r.change EXCEPT !.updated = done]]

apply_destroy(r, t, ids) ==
    LET objs == r.acct.objs[t]
    IN  [acct   |-> [r.acct EXCEPT !.objs[t] = [i \in DOMAIN objs \ ids |-> objs[i]]],
         change |-> [r.change EXCEPT !.destroyed = ids \cap DOMAIN objs]]

record_change(a, cs) ==
    IF cs = NoChange THEN a ELSE [a EXCEPT !.revision = @ + 1, !.log = Append(@, cs)]

\* ifInState is compared with the revision before anything is done.
\* Mutant: the comparison is left out.
state_matches_Never(a, if_in_state) == TRUE
state_matches(a, if_in_state) == if_in_state = None \/ if_in_state = a.revision

set(a, t, args) ==
    LET created[n \in 0 .. Len(args.create)] ==
            IF n = 0 THEN [acct |-> a, change |-> NoChange] ELSE apply_create(created[n - 1], t, args.create[n])
        r == apply_destroy(apply_update(created[Len(args.create)], t, args.update), t, args.destroy)
    IN  [acct |-> record_change(r.acct, r.change), change |-> r.change]

\* The change log after a revision, its entries taken together.
collect_changes(a, since) ==
    LET cs == {a.log[i] : i \in since + 1 .. Len(a.log)}
    IN  [created   |-> UNION {c.created : c \in cs},
         updated   |-> UNION {c.updated : c \in cs},
         destroyed |-> UNION {c.destroyed : c \in cs}]

\* /get of some ids: the objects found; the others are notFound.
get(a, t, ids) == [i \in ids \cap DOMAIN a.objs[t] |-> a.objs[t][i]]

\* A client's copy with what it fetched: the destroyed ids and those not found go, the others are taken.
Merged(objs, gone, ids, found) ==
    Over(found, [i \in DOMAIN objs \ (gone \union ids) |-> objs[i]])

-----------------------------------------------------------------------------
\* A client calls /set, with or without ifInState, for objects of its type or another.  When the answer
\* reaches it and begins at its own state it applies the same changes to its copy.
Answered(c, t, s) ==
    LET touched == s.change.created \union s.change.updated
    IN  [copy[c] EXCEPT !.objs = Merged(@, s.change.destroyed, touched, get(s.acct, t, touched)),
                        !.state = s.acct.revision]

Set(c, t, args, heard) ==
    /\ copy[c].sync = NoSync
    /\ acct.next + 2 * Len(args.create) <= MaxNext
    /\ acct.revision < MaxRevision
    /\ state_matches(acct, args.if_in_state)
    /\ LET s == set(acct, t, args)
       IN  /\ acct' = s.acct
           /\ copy' = IF heard /\ c \in Keepers /\ t = Follows[c] /\ copy[c].state = acct.revision
                      THEN [copy EXCEPT ![c] = Answered(c, t, s)] ELSE copy
           /\ overwritten' =
                 IF args.if_in_state # None /\ c \in Keepers /\ t = Follows[c]
                    /\ \E i \in s.change.updated \union s.change.destroyed :
                          ~(i \in DOMAIN copy[c].objs /\ copy[c].objs[i] = acct.objs[t][i])
                 THEN overwritten \union {c} ELSE overwritten
    /\ UNCHANGED page

\* One request of /changes and, by result references, /get of what it names.
SyncAtOnce(c) ==
    /\ copy[c].sync = NoSync
    /\ LET ch == collect_changes(acct, copy[c].state)
           ids == ch.created \union ch.updated
       IN  copy' = [copy EXCEPT ![c] = [objs |-> Merged(@.objs, ch.destroyed, ids, get(acct, Follows[c], ids)),
                                        state |-> acct.revision, sync |-> NoSync]]
    /\ UNCHANGED <<acct, page, overwritten>>

\* The same in two requests, between which others may change the account.
Changes(c) ==
    /\ copy[c].sync = NoSync
    /\ copy[c].state # acct.revision
    /\ LET ch == collect_changes(acct, copy[c].state)
       IN  copy' = [copy EXCEPT ![c].sync = [ids |-> ch.created \union ch.updated, gone |-> ch.destroyed,
                                             new |-> acct.revision]]
    /\ UNCHANGED <<acct, page, overwritten>>

Get(c) ==
    /\ copy[c].sync # NoSync
    /\ LET s == copy[c].sync
       IN  copy' = [copy EXCEPT ![c] = [objs |-> Merged(@.objs, s.gone, s.ids, get(acct, Follows[c], s.ids)),
                                        state |-> s.new, sync |-> NoSync]]
    /\ UNCHANGED <<acct, page, overwritten>>

-----------------------------------------------------------------------------
Ids(t) == DOMAIN acct.objs[t]

\* /query: the ids in the order of the sort property, objects with equal ones in the order of the map.
Before(t, i, j) ==
    LET o == acct.objs[t]
    IN  o[i].val < o[j].val \/ (o[i].val = o[j].val /\ i[2] < j[2])
sorted(t) ==
    [n \in 1 .. Cardinality(Ids(t)) |-> CHOOSE i \in Ids(t) : Cardinality({j \in Ids(t) : Before(t, j, i)}) = n - 1]

least(m, n) == IF m < n THEN m ELSE n
\* Mutant: the limit is taken before the position is skipped.
apply_query_TakeFirst(items, position) == SubSeq(items, position + 1, least(Limit, Len(items)))
apply_query(items, position) == SubSeq(items, position + 1, least(position + Limit, Len(items)))

\* A client asks for one page after another until one is not full, and begins again when queryState has
\* changed.
Query(c) ==
    /\ ~page[c].done
    /\ LET p == page[c]
           got == apply_query(sorted(Follows[c]), Len(p.ids))
       IN  page' = [page EXCEPT ![c] =
                       IF p.state \in {None, acct.revision}
                       THEN [state |-> acct.revision, ids |-> p.ids \o got, done |-> Len(got) < Limit]
                       ELSE NoPage]
    /\ UNCHANGED <<acct, copy, overwritten>>

-----------------------------------------------------------------------------
NoEmail == <<"E", 0>>
CreateArgs(t) ==
    IF t = "EmailSubmission" THEN {<<[val |-> v, ref |-> i]>> : v \in Vals, i \in Ids("Email") \union {NoEmail}}
    ELSE {<<[val |-> v]>> : v \in Vals \union {0}}
Patches(t) ==
    [val : Vals] \union (IF t = "EmailSubmission" THEN [undo : {"pending", "canceled"}] ELSE {})
UpdateArgs(t) == UNION {[{i} -> Patches(t)] : i \in Ids(t)}
Args(c, t) ==
    LET cond == {None} \union {copy[c].state : k \in {c} \cap Keepers}
    IN  [if_in_state : cond, create : CreateArgs(t), update : {<<>>}, destroy : {{}}]
        \union [if_in_state : cond, create : {<<>>}, update : UpdateArgs(t), destroy : {{}} \union {{i} : i \in Ids(t)}]
        \union [if_in_state : cond, create : {<<>>}, update : {<<>>}, destroy : {{i} : i \in Ids(t)}]

JmapNext == \E c \in Clients :
    \/ c \in Keepers /\ (SyncAtOnce(c) \/ Changes(c) \/ Get(c))
    \/ c \notin Keepers /\ Query(c)
    \/ \E t \in Types : \E args \in Args(c, t), heard \in BOOLEAN : Set(c, t, args, heard)

JmapSpec == JmapInit /\ [][JmapNext]_jmapVars

JmapTypeOK ==
    /\ acct.revision = Len(acct.log) /\ acct.next \in 0 .. MaxNext
    /\ \A t \in Types : \A i \in Ids(t) : i[1] = Prefix(t) /\ i[2] \in 1 .. acct.next
    /\ \A c \in Clients : copy[c].state \in 0 .. acct.revision
    /\ overwritten \subseteq Clients

\* "Opaque, monotonically-changing state string for the account" (store/mod.rs): a client whose state
\* string is the account's has exactly the account's objects of its type, whether it followed the changes
\* in one request or two, by the answers to its own /set calls or without hearing them; and the pages of a
\* query that all carry that string are together the objects of the type, each once and in the order of
\* the sort.
ReadIsCurrent ==
    /\ \A c \in Keepers :
          copy[c].state = acct.revision /\ copy[c].sync = NoSync => copy[c].objs = acct.objs[Follows[c]]
    /\ \A c \in Clients :
          page[c].done /\ page[c].state = acct.revision => page[c].ids = sorted(Follows[c])

\* A /set with ifInState never changes or destroys an object in a version its caller has not seen.
NothingOverwritten == overwritten = {}
=============================================================================
