-------------------------------- MODULE Ldap --------------------------------
(***************************************************************************)
(* tpt-ldap-server: sessions over one MemoryBackend.  A session keeps no   *)
(* state between requests and the backend takes its lock once per call, so *)
(* a request is one step, whichever session it comes on.                   *)
(*                                                                         *)
(* A DN is the sequence of its RDNs, the leaf first, in lower case; an RDN *)
(* is a pair of attribute and value.  A value is the sequence of one       *)
(* string; what parse_rdn makes of a whole DN is longer, since it takes    *)
(* everything after the first "=".                                         *)
(***************************************************************************)
EXTENDS Integers, FiniteSets, SequencesExt

CONSTANTS Superiors,   \* the DNs under which entries are added
          LdapValues, \* strings of the naming attribute
          Others,     \* the other attributes
          MaxOps      \* bound on the requests that change the directory

VARIABLES dir,        \* MemoryBackend.entries; uid is a history variable, the number of its Add
          live,       \* history: the entries added and not deleted, by their numbers
          answer,     \* what the request just handled found, if it was a search
          ops
ldapVars == <<dir, live, answer, ops>>

Naming == "cn"
Rdns == {<<Naming, v>> : v \in LdapValues}
Rdn(r) == [name |-> r[1], value |-> <<r[2]>>]
NoAnswer == [found |-> <<>>, exceeded |-> FALSE, limit |-> 0, matching |-> {}]

LdapInit == dir = [k \in {} |-> 0] /\ live = {} /\ answer = NoAnswer /\ ops = 0

-----------------------------------------------------------------------------
dn_parent(dn) == Tail(dn)

\* The name and value of the text of a DN, or of an RDN.
parse_rdn(dn) == [name |-> dn[1][1], value |-> <<dn[1][2]>> \o Tail(dn)]

\* A map with an entry put into it.
Put(f, k, v) == [d \in DOMAIN f \union {k} |-> IF d = k THEN v ELSE f[d]]

upsert_value(attrs, a, v) == Put(attrs, a, {v} \union UNION {attrs[b] : b \in {a} \cap DOMAIN attrs})

remove_value(attrs, a, v) ==
    LET less == [b \in DOMAIN attrs |-> IF b = a THEN attrs[b] \ {v} ELSE attrs[b]]
    IN  [b \in {c \in DOMAIN less : c # a \/ less[c] # {}} |-> less[b]]

\* retain keeps the attributes whose name IS the one to go.
retain(attrs, a) == [b \in {a} \cap DOMAIN attrs |-> attrs[b]]

\* One Modification; r.ok is FALSE once one has been refused, and what came before it stays.
apply(r, c) ==
    LET attrs == r.attrs
        has == c.name \in DOMAIN attrs
        put(vs) == [r EXCEPT !.attrs = Put(attrs, c.name, vs)]
        fail == [r EXCEPT !.ok = FALSE]
        rest == attrs[c.name] \ c.values
    IN  IF ~r.ok THEN r
        ELSE CASE c.op = "Add" ->
                    IF ~has THEN put(c.values)
                    ELSE IF c.values \cap attrs[c.name] # {} THEN fail ELSE put(c.values \union attrs[c.name])
               [] c.op = "Delete" ->
                    IF ~has THEN fail
                    ELSE IF c.values = {} THEN [r EXCEPT !.attrs = retain(attrs, c.name)]
                    ELSE IF rest = attrs[c.name] THEN fail
                    ELSE IF rest = {} THEN [r EXCEPT !.attrs = retain(put(rest).attrs, c.name)]
                    ELSE put(rest)
               [] c.op = "Replace" ->
                    IF c.values = {} THEN [r EXCEPT !.attrs = retain(attrs, c.name)] ELSE put(c.values)

-----------------------------------------------------------------------------
Counted == ops < MaxOps /\ ops' = ops + 1 /\ answer' = NoAnswer
Without(k) == [d \in DOMAIN dir \ {k} |-> dir[d]]

Add(dn, attrs) ==
    /\ Counted
    /\ dn \notin DOMAIN dir
    /\ dir' = Put(dir, dn, [dn |-> dn, attrs |-> attrs, uid |-> ops])
    /\ live' = live \union {ops}

Delete(dn) ==
    /\ Counted
    /\ dn \in DOMAIN dir
    /\ dir' = Without(dn)
    /\ live' = live \ {dir[dn].uid}

modified(attrs, changes) ==
    LET done[n \in 0 .. Len(changes)] ==
            IF n = 0 THEN [attrs |-> attrs, ok |-> TRUE] ELSE apply(done[n - 1], changes[n])
    IN  done[Len(changes)].attrs

Modify(dn, changes) ==
    /\ Counted
    /\ dn \in DOMAIN dir
    /\ dir' = [dir EXCEPT ![dn].attrs = modified(@, changes)]
    /\ UNCHANGED live

\* The DN an entry gets; {} where the superior cannot be derived from a DN of one RDN.
new_dn(dn, rdn, superior) ==
    {<<rdn>> \o s : s \in IF superior = <<>> THEN {p \in {dn_parent(dn)} : p # <<>>} ELSE {superior}}

\* Mutant: an entry that has the new name is replaced.
may_move_Anywhere(dn, to) == TRUE
may_move(dn, to) == to = dn \/ to \notin DOMAIN dir

modify_dn(dn, rdn, delete_old_rdn, superior) ==
    /\ Counted
    /\ dn \in DOMAIN dir
    /\ \E to \in new_dn(dn, rdn, superior) :
          /\ may_move(dn, to)
          /\ LET old == parse_rdn(dn)
                 new == Rdn(rdn)
                 with == upsert_value(dir[dn].attrs, new.name, new.value)
                 attrs == IF delete_old_rdn /\ old # new THEN remove_value(with, old.name, old.value) ELSE with
             IN  dir' = Put(Without(dn), to, [dir[dn] EXCEPT !.dn = to, !.attrs = attrs])
    /\ UNCHANGED live

-----------------------------------------------------------------------------
scope_match(scope, base, dn) ==
    CASE scope = "Base" -> dn = base
      [] scope = "SingleLevel" -> Len(dn) > 1 /\ dn_parent(dn) = base
      [] scope = "WholeSubtree" -> IsSuffix(base, dn)

\* Reference: the entries of a scope that have an attribute.
Within(scope, base, has) ==
    {k \in DOMAIN dir :
        /\ has \in DOMAIN dir[k].attrs
        /\ \E n \in 0 .. Len(k) - Len(base) :
              SubSeq(k, n + 1, Len(k)) = base /\ n \in CASE scope = "Base" -> {0} [] scope = "SingleLevel" -> {1}
                                                        [] scope = "WholeSubtree" -> 0 .. Len(k)}

\* The loop of handle_search over the entries in the order of their keys (any fixed order will do).
visit(r, k, base, scope, has, limit) ==
    IF r.exceeded \/ ~scope_match(scope, base, dir[k].dn) \/ has \notin DOMAIN dir[k].attrs THEN r
    ELSE IF limit > 0 /\ Len(r.found) >= limit THEN [r EXCEPT !.exceeded = TRUE]
    ELSE [r EXCEPT !.found = Append(@, dir[k].uid)]

Search(base, scope, has, limit) ==
    /\ LET keys == SetToSeq(DOMAIN dir)
           matching == {dir[k].uid : k \in Within(scope, base, has)}
           visited[n \in 0 .. Len(keys)] ==
               IF n = 0 THEN [NoAnswer EXCEPT !.limit = limit, !.matching = matching]
               ELSE visit(visited[n - 1], keys[n], base, scope, has, limit)
       IN  answer' = visited[Len(keys)]
    /\ UNCHANGED <<dir, live, ops>>

-----------------------------------------------------------------------------
Dns == UNION {{<<r>> \o s : s \in Superiors} : r \in Rdns}
Attrs == {[a \in {Naming} |-> {<<v>>}] : v \in LdapValues}
ValueSets == {{}} \union {{<<v>>} : v \in LdapValues}
Modifications == [op : {"Add", "Delete", "Replace"}, name : Others \union {Naming}, values : ValueSets]
                    \ [op : {"Add"}, name : Others \union {Naming}, values : {{}}]
Lists == {<<c>> : c \in Modifications}
           \union {<<[op |-> "Add", name |-> a, values |-> {<<v>>}], c>> :
                      a \in Others, v \in LdapValues, c \in {m \in Modifications : m.op = "Add"}}

LdapNext ==
    \/ \E dn \in Dns : \E attrs \in {a \in Attrs : <<dn[1][2]>> \in a[Naming]} : Add(dn, attrs)
    \/ \E dn \in Dns : Delete(dn)
    \/ \E dn \in Dns, changes \in Lists : Modify(dn, changes)
    \/ \E dn \in Dns, rdn \in Rdns, old \in BOOLEAN, s \in Superiors \union {<<>>} : modify_dn(dn, rdn, old, s)
    \/ \E s \in Superiors, scope \in {"Base", "SingleLevel", "WholeSubtree"}, a \in Others \union {Naming},
          limit \in 0 .. 1 : Search(s, scope, a, limit)

LdapSpec == LdapInit /\ [][LdapNext]_ldapVars

LdapTypeOK ==
    /\ \A k \in DOMAIN dir : k \in Dns /\ dir[k].uid \in 0 .. ops
    /\ live \subseteq 0 .. ops /\ ops \in 0 .. MaxOps

\* Whatever is renamed or moved, by whichever session, every entry that was added and not deleted is in
\* the directory once, under the name it has; and a search names entries of its scope only, and all of
\* them unless it reports that its limit is exceeded.
DirectoryWhole ==
    /\ live = {dir[k].uid : k \in DOMAIN dir} /\ Cardinality(live) = Cardinality(DOMAIN dir)
    /\ \A k \in DOMAIN dir : dir[k].dn = k
    /\ ToSet(answer.found) \subseteq answer.matching
    /\ answer.exceeded <=> Cardinality(answer.matching) > Len(answer.found)

\* "Delete the values from the attribute (or all values if `values` is empty)." (backend.rs): a change of
\* one attribute leaves the entry's other attributes as they are.
OthersKept ==
    [][\A dn \in DOMAIN dir, c \in Modifications :
          Modify(dn, <<c>>) => \A a \in DOMAIN dir[dn].attrs \ {c.name} :
                                  a \in DOMAIN dir'[dn].attrs /\ dir'[dn].attrs[a] = dir[dn].attrs[a]]_ldapVars
=============================================================================
