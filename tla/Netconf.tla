------------------------------- MODULE Netconf -------------------------------
(***************************************************************************)
(* tpt-netconf: the messages of one direction of a session, framed by the  *)
(* sender and taken from the channel piece by piece by a FrameDecoder, and *)
(* an InMemoryDatastore on which the rpcs of several sessions are          *)
(* dispatched one at a time.                                               *)
(*                                                                         *)
(* Octets are one-character strings, "nl" the newline; a chunk's length is *)
(* one digit.                                                              *)
(***************************************************************************)
EXTENDS Integers, FiniteSets, SequencesExt

CONSTANTS Texts,      \* the messages that may be sent
          CHUNK_SIZE, \* octets per chunk, scaled
          MaxSent,    \* bound on the messages
          Nodes,      \* names of configuration nodes
          Contents,   \* their contents
          MaxRpcs     \* bound on the rpcs

VARIABLES sent, wire, buf, got,         \* messages sent, octets under way, FrameDecoder.buf, messages decoded
          stores, locked, frozen, rpcs  \* InMemoryDatastore; history: a store's content when it was locked
framing == <<sent, wire, buf, got>>
datastore == <<stores, locked, frozen, rpcs>>

Stores == {"running", "startup", "candidate"}
Empty == <<>>   \* a datastore without nodes

NetconfInit ==
    /\ sent = <<>> /\ wire = <<>> /\ buf = <<>> /\ got = <<>>
    /\ stores = [d \in {"running"} |-> Empty] /\ locked = {} /\ frozen = [d \in {} |-> Empty] /\ rpcs = 0

-----------------------------------------------------------------------------
Digits == <<"1", "2", "3", "4", "5", "6", "7", "8", "9">>
BASE_EOM == <<"]", "]", ">", "]", "]", ">">>
CHUNK_END == <<"#", "#">>

At(s, sub, i) == i + Len(sub) - 1 <= Len(s) /\ SubSeq(s, i, i + Len(sub) - 1) = sub
Places(s, sub) == {i \in 1 .. Len(s) : At(s, sub, i)}
Holds(s, sub) == Places(s, sub) # {}

Lines(s) ==
    FoldLeft(LAMBDA ls, o : IF o = "nl" THEN Append(ls, <<>>) ELSE [ls EXCEPT ![Len(ls)] = Append(@, o)],
             <<<<>>>>, s)

\* A chunk: its length, and the octets, which end with a newline.
Chunk(b) ==
    LET octets == IF Last(b) = "nl" THEN b ELSE Append(b, "nl")
    IN  <<"#", Digits[Len(octets)], "nl">> \o octets

encode_chunked(m) ==
    LET line(r, l) ==
            LET b == IF r.buf = <<>> THEN l ELSE r.buf \o <<"nl">> \o l
            IN  IF Len(b) >= CHUNK_SIZE THEN [out |-> r.out \o Chunk(b), buf |-> <<>>] ELSE [r EXCEPT !.buf = b]
        r == FoldLeft(line, [out |-> <<>>, buf |-> <<>>], Lines(m))
    IN  r.out \o (IF r.buf = <<>> THEN <<>> ELSE Chunk(r.buf)) \o <<"#", "#", "nl">>

\* Mutant: only the whole end-of-message sequence calls for chunks.
encode_message_Eom(m) == IF Holds(m, BASE_EOM) THEN encode_chunked(m) ELSE m \o BASE_EOM
encode_message(m) == IF Holds(m, <<"]", "]", ">">>) THEN encode_chunked(m) ELSE m \o BASE_EOM

\* The chunks of b from position p on, as {[msg, used]}, or {} while the last is not there.  A header
\* that is neither ## nor # and a length is an error, of which the model has none.
try_chunked(b, start) ==
    LET from[p \in 1 .. Len(b) + 1] ==
            LET ends == {i \in p .. Len(b) : b[i] = "nl"}
                nl == Min(ends)
                len == CHOOSE n \in 1 .. 9 : Digits[n] = b[p + 1]
            IN  IF ends = {} THEN {}
                ELSE IF SubSeq(b, p, nl - 1) = CHUNK_END THEN {[msg |-> <<>>, used |-> nl]}
                ELSE IF Len(b) < nl + len THEN {}
                ELSE {[msg |-> SubSeq(b, nl + 1, nl + len) \o r.msg, used |-> r.used] : r \in from[nl + len + 1]}
    IN  from[start]

\* The first message of the buffer and how much of the buffer it takes up (no message ends with the
\* whitespace that trim would take off).
try_extract(b) ==
    LET black == {i \in DOMAIN b : b[i] # "nl"}
        start == Min(black)
    IN  IF black = {} THEN {}
        ELSE IF b[start] = "#" THEN try_chunked(b, start)
        ELSE {[msg |-> SubSeq(b, start, i - 1), used |-> i + Len(BASE_EOM) - 1] :
                 i \in {j \in Places(b, BASE_EOM) : \A k \in Places(b, BASE_EOM) : j <= k}}

push(b) ==
    LET step(r, i) ==
            LET ms == try_extract(r.buf)
                m == CHOOSE x \in ms : TRUE
            IN  IF ms = {} THEN r
                ELSE [buf |-> SubSeq(r.buf, m.used + 1, Len(r.buf)), out |-> Append(r.out, m.msg)]
    IN  FoldLeft(step, [buf |-> b, out |-> <<>>], [i \in 1 .. MaxSent |-> i])

Send(m) ==
    /\ Len(sent) < MaxSent
    /\ sent' = Append(sent, m)
    /\ wire' = wire \o encode_message(m)
    /\ UNCHANGED <<buf, got, datastore>>

\* The channel hands over some of the octets.
Data(n) ==
    /\ LET r == push(buf \o SubSeq(wire, 1, n))
       IN  buf' = r.buf /\ got' = got \o r.out
    /\ wire' = SubSeq(wire, n + 1, Len(wire))
    /\ UNCHANGED <<sent, datastore>>

-----------------------------------------------------------------------------
Counted == rpcs < MaxRpcs /\ rpcs' = rpcs + 1 /\ UNCHANGED framing

\* The nodes of an edit in turn; a Create of one that exists ends it, and what came before stays.
edited(store, op, config) ==
    LET node(r, x) ==
            LET pos == SelectInSeq(r.store, LAMBDA c : c.name = x.name)
            IN  CASE r.failed -> r
                  [] ~r.failed /\ op = "Merge" ->
                        [r EXCEPT !.store = IF pos = 0 THEN Append(@, x) ELSE ReplaceAt(@, pos, x)]
                  [] ~r.failed /\ op = "Create" ->
                        IF pos # 0 THEN [r EXCEPT !.failed = TRUE] ELSE [r EXCEPT !.store = Append(@, x)]
                  [] ~r.failed /\ op = "Delete" ->
                        [r EXCEPT !.store = IF pos = 0 THEN @ ELSE RemoveAt(@, pos)]
    IN  CASE op = "Replace" -> config
          [] op = "None" -> store
          [] OTHER -> FoldLeft(node, [store |-> store, failed |-> FALSE], config).store

edit_config(target, op, config) ==
    /\ Counted
    /\ target \notin locked /\ target \in DOMAIN stores
    /\ stores' = [stores EXCEPT ![target] = edited(@, op, config)]
    /\ UNCHANGED <<locked, frozen>>

\* Mutant: the lock is not looked at.
copy_config_Locked(target, source) ==
    /\ Counted
    /\ source \in DOMAIN stores
    /\ stores' = (target :> stores[source]) @@ stores
    /\ UNCHANGED <<locked, frozen>>

copy_config(target, source) ==
    /\ Counted
    /\ source \in DOMAIN stores /\ target \notin locked
    /\ stores' = (target :> stores[source]) @@ stores
    /\ UNCHANGED <<locked, frozen>>

delete_config(target) ==
    /\ Counted
    /\ target # "running" /\ target \notin locked
    /\ stores' = (target :> Empty) @@ stores
    /\ UNCHANGED <<locked, frozen>>

\* A lock can be taken on a datastore that does not exist yet; it has no owner.
lock(target) ==
    /\ Counted
    /\ target \notin locked
    /\ locked' = locked \union {target}
    /\ frozen' = (target :> [d \in {target} \cap DOMAIN stores |-> stores[d]]) @@ frozen
    /\ UNCHANGED stores

unlock(target) ==
    /\ Counted
    /\ locked' = locked \ {target}
    /\ UNCHANGED <<stores, frozen>>

\* <close-session> of any session drops every lock; a session that ends by EOF drops none.
close_session ==
    /\ Counted
    /\ locked' = {}
    /\ UNCHANGED <<stores, frozen>>

-----------------------------------------------------------------------------
FrameNext ==
    \/ \E m \in Texts : Send(m)
    \/ \E n \in {1, 2, 3, Len(wire)} : n \in 1 .. Len(wire) /\ Data(n)

Configs == {<<[name |-> n, content |-> c]>> : n \in Nodes, c \in Contents}
             \union {<<[name |-> n, content |-> c], [name |-> k, content |-> c]>> :
                        n \in Nodes, k \in Nodes, c \in Contents}

StoreNext ==
    \/ \E t \in Stores, op \in {"Merge", "Replace", "Create", "Delete", "None"}, c \in Configs : edit_config(t, op, c)
    \/ \E t, s \in Stores : copy_config(t, s)
    \/ \E t \in Stores : delete_config(t) \/ lock(t) \/ unlock(t)
    \/ close_session

\* The datastores and the stream have their types.
NetconfTypeOK ==
    /\ "running" \in DOMAIN stores /\ DOMAIN stores \subseteq Stores /\ locked \subseteq Stores
    /\ \A d \in DOMAIN stores : stores[d] \in Seq([name : Nodes, content : Contents])
    /\ Len(got) <= Len(sent) /\ Len(sent) <= MaxSent

\* From the <lock> of a datastore until the lock is gone no <edit-config>, <copy-config> or <delete-config>
\* of any session has changed its content.
LocksHold == \A d \in locked : frozen[d] = [e \in {d} \cap DOMAIN stores |-> stores[e]]

\* "incrementally decodes a byte stream into complete XML messages regardless of which form the peer uses"
\* (framing.rs): however the octets are cut into pieces, the messages decoded are those sent, newlines
\* apart (chunks add and lose some), and none stays in the buffer when all its octets are there.
FramesWhole ==
    LET Text(m) == SelectSeq(m, LAMBDA o : o # "nl")
    IN  /\ \A i \in DOMAIN got : Text(got[i]) = Text(sent[i])
        /\ wire = <<>> => Len(got) = Len(sent)
=============================================================================
