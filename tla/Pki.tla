--------------------------------- MODULE Pki ---------------------------------
(***************************************************************************)
(* tpt-x509: building and validating certification paths, with name        *)
(* constraints and revocation lists; tpt-ocsp: asking a responder for the  *)
(* status of a certificate.  A certificate is the record of its fields and *)
(* extensions; an option is a sequence of at most one element.  Hashes and *)
(* signatures are ideal: a hash is what it was made of, and a signature    *)
(* verifies under the key that made it alone.  A refusal is the empty      *)
(* option: which error it is makes no difference to what is accepted.      *)
(***************************************************************************)
EXTENDS Integers, FiniteSetsExt, SequencesExt

OrEmpty(o) == IF o = <<>> THEN <<>> ELSE o[1]
Is(o, x) == o = <<x>>

-----------------------------------------------------------------------------
(* Keys and signatures. *)

RsaSchemes == {"SHA1_RSA", "SHA224_RSA", "SHA256_RSA", "SHA384_RSA", "SHA512_RSA"}
Key(alg, n) == [alg |-> alg, n |-> n]
Signature(key, scheme) == [by |-> key, scheme |-> scheme]
verify_rsa(sig, key) == key.alg = "RSA" /\ sig.scheme \in RsaSchemes /\ sig.by = key
\* The scheme is not looked at: the curve implies the hash.
verify_ecdsa(sig, key) == key.alg \in {"P256", "P384"} /\ sig.by = key
verify_ed25519(sig, key) == key.alg = "Ed25519" /\ sig.by = key
verify_signature_raw(sig, key) == verify_rsa(sig, key) \/ verify_ecdsa(sig, key) \/ verify_ed25519(sig, key)

-----------------------------------------------------------------------------
(* Certificates.  bc: whether it is a CA and how long a path it allows; ku: whether it has keyCertSign; eku: purposes; *)
(* san: names; nc: permitted and excluded subtrees.                                                                    *)

Certificate(subject, issuer, key, signer, serial) ==
    [subject |-> subject, issuer |-> issuer, key |-> key, sig |-> Signature(signer, "SHA256_RSA"), serial |-> serial,
     not_before |-> 1, not_after |-> 3, bc |-> <<>>, ku |-> <<>>, eku |-> <<>>, san |-> <<>>, nc |-> <<>>, policies |-> <<>>]
is_ca(cert) == cert.bc # <<>> /\ cert.bc[1].ca
path_len_of(cert) == IF cert.bc = <<>> THEN <<>> ELSE cert.bc[1].path_len
is_self_issued(cert) == cert.subject = cert.issuer
verify_signature(cert, key) == verify_signature_raw(cert.sig, key)
is_self_signed(cert) == is_self_issued(cert) /\ verify_signature(cert, cert.key)
validity_covers(cert, time) == time >= cert.not_before /\ time <= cert.not_after

\* An anchor is a name and a key; one made from a root certificate also has the root's limits.
from_cert(cert) ==
    [name |-> cert.subject, key |-> cert.key, cert |-> <<cert>>,
     permitted |-> IF cert.nc = <<>> THEN <<>> ELSE cert.nc[1].permitted,
     excluded |-> IF cert.nc = <<>> THEN <<>> ELSE cert.nc[1].excluded,
     path_len |-> path_len_of(cert)]

-----------------------------------------------------------------------------
(* Names, in certificates and as bases of subtrees: DNS names as labels (a base may begin with a dot, an empty label), *)
(* addresses as octets, directory names, and others, which no constraint is about.                                     *)

Dns(labels) == [kind |-> "dns", of |-> labels]
Ip(octets) == [kind |-> "ip", of |-> octets]
Dir(name) == [kind |-> "dir", of |-> name]
Other == [kind |-> "other", of |-> <<>>]
\* An address is of four octets; the base of a subtree, an address with its mask, reads as the unspecified address.
octets_to_ip(b) == IF Len(b) \in {4, 16} THEN b ELSE <<0, 0, 0, 0>>
GeneralNameLike(n) == IF n.kind = "ip" THEN Ip(octets_to_ip(n.of)) ELSE n
Lower(labels) == [i \in DOMAIN labels |-> IF labels[i] = "Example" THEN "example" ELSE labels[i]]
dns_within(name, base) ==
    LET n == Lower(name) b == Lower(base)
        suffix == IF b # <<>> /\ b[1] = "" THEN Tail(b) ELSE b
    IN  n = b \/ (suffix # <<>> /\ Len(n) > Len(suffix) /\ IsSuffix(suffix, n))
same_kind(a, b) == a.kind = b.kind /\ a.kind # "other"
\* The encoding of a directory name begins with its length: it is found in another's only where the two are equal.
matches(name, base) ==
    /\ same_kind(name, base)
    /\ IF name.kind = "dns" THEN dns_within(name.of, base.of) ELSE name.of = base.of
candidate_names(cert) ==
    IF cert.san = <<>> THEN {Dir(cert.subject)} ELSE {GeneralNameLike(n) : n \in Range(cert.san[1])}
Subtrees(list) == {GeneralNameLike(n) : n \in list}
\* Mutant: a name of a kind that no permitted subtree has is refused too.
check_constraints_Closed(cert, permitted, excluded) ==
    \A name \in candidate_names(cert) :
        (\A c \in excluded : ~matches(name, c)) /\ (permitted # {} => \E c \in permitted : matches(name, c))
check_constraints(cert, permitted, excluded) ==
    \A name \in candidate_names(cert) :
        /\ \A c \in excluded : ~matches(name, c)
        /\ (\E c \in permitted : same_kind(c, name)) => \E c \in permitted : matches(name, c)

-----------------------------------------------------------------------------
(* Revocation lists: [issuer, sig, revoked], the serial numbers revoked. *)

\* The key that a list must be signed with: that of the first certificate of the path with the issuer's name, else
\* the anchor's.
crl_key(crl, path, anchor) ==
    LET cas == SelectSeq(path, LAMBDA c : c.subject = crl.issuer)
    IN  IF cas # <<>> THEN <<cas[1].key>> ELSE IF anchor.name = crl.issuer THEN <<anchor.key>> ELSE <<>>
\* The lists are taken in order: one of an issuer that is not known ends the check, the lists behind it included.
considered(crls, path, anchor) ==
    {i \in DOMAIN crls : \A j \in 1 .. i : crl_key(crls[j], path, anchor) # <<>>}
check_revocation(cert, crls, path, anchor) ==
    \A i \in considered(crls, path, anchor) :
        /\ verify_signature_raw(crls[i].sig, crl_key(crls[i], path, anchor)[1])
        /\ cert.serial \notin crls[i].revoked

-----------------------------------------------------------------------------
(* Paths.  A configuration: [trust_anchors, intermediates, time, required_eku, initial_policies, check_revocation,     *)
(* crls].                                                                                                              *)

ANY_POLICY == "anyPolicy"
MAX_DEPTH == 16
is_issuer_of(issuer, subject) ==
    issuer.subject = subject.issuer /\ is_ca(issuer) /\ verify_signature(subject, issuer.key)
\* The first anchor that issued the certificate.
matches_anchor(cfg, cert) ==
    LET found == {i \in DOMAIN cfg.trust_anchors : /\ cfg.trust_anchors[i].name = cert.issuer
                                                   /\ verify_signature(cert, cfg.trust_anchors[i].key)}
    IN  IF found = {} THEN <<>> ELSE <<Min(found)>>
\* The paths that continue a chain, which begins with the end entity: by way of each intermediate, then to an anchor.
RECURSIVE recurse(_, _)
recurse(cfg, chain) ==
    LET last == chain[Len(chain)]
        cands == SelectSeq(cfg.intermediates,
                           LAMBDA c : is_issuer_of(c, last) /\ \A i \in DOMAIN chain : chain[i].subject # c.subject)
        ends == matches_anchor(cfg, last)
    IN  IF Len(chain) - 1 > MAX_DEPTH THEN <<>>
        ELSE FlattenSeq([i \in DOMAIN cands |-> recurse(cfg, Append(chain, cands[i]))])
               \o [i \in DOMAIN ends |-> [anchor |-> cfg.trust_anchors[ends[i]],
                                          path |-> cfg.trust_anchors[ends[i]].cert \o Reverse(chain)]]
build_chains(cfg, ee) == recurse(cfg, <<ee>>)

intersect(prev, set) == IF prev = <<>> THEN <<set>> ELSE <<prev[1] \intersect set>>
shorter(a, b) == IF a = <<>> THEN b ELSE IF b = <<>> THEN a ELSE <<Min({a[1], b[1]})>>
\* What is left of the path length: every certificate that is not self-issued uses one up, the end entity too.
remaining(w, cert) == IF is_self_issued(cert) \/ w.max_path_len = <<>> THEN w.max_path_len ELSE <<w.max_path_len[1] - 1>>
\* Whether the k-th certificate passes, and what it leaves to those below it.
passes(cfg, path, anchor, w, k) ==
    LET cert == path[k]
        is_ee == k = Len(path)
    IN  /\ verify_signature(cert, IF k = 1 THEN anchor.key ELSE path[k - 1].key)
        /\ validity_covers(cert, cfg.time)
        /\ remaining(w, cert) # <<-1>>
        /\ is_ca(cert) = ~is_ee
        /\ ~is_ee => ~Is(cert.ku, FALSE)
        /\ check_constraints(cert, UNION Range(w.permitted), w.excluded)
        /\ cfg.check_revocation => check_revocation(cert, cfg.crls, path, anchor)
\* Mutant: a length that a CA states replaces the one that is left.
length_below_Stated(w, cert) == IF path_len_of(cert) # <<>> THEN path_len_of(cert) ELSE remaining(w, cert)
length_below(w, cert) == shorter(remaining(w, cert), path_len_of(cert))
handed_on(w, cert) ==
    [w EXCEPT !.max_path_len = length_below(w, cert),
              !.permitted = IF cert.nc = <<>> \/ cert.nc[1].permitted = <<>> THEN @
                            ELSE intersect(@, Subtrees(cert.nc[1].permitted[1])),
              !.excluded = IF cert.nc = <<>> \/ cert.nc[1].excluded = <<>> THEN @ ELSE @ \union Subtrees(cert.nc[1].excluded[1]),
              !.eku = IF cert.eku = <<>> THEN @ ELSE intersect(@, cert.eku[1])]
\* The purposes: those every CA that states some allows must hold the required one or anyPolicy, and the end entity's own
\* must hold it and lie within them.
check_eku(cfg, allowed, leaf) ==
    cfg.required_eku # <<>> =>
      /\ allowed # <<>> => cfg.required_eku[1] \in allowed[1] \/ ANY_POLICY \in allowed[1]
      /\ leaf.eku # <<>> => cfg.required_eku[1] \in leaf.eku[1]
      /\ allowed # <<>> /\ leaf.eku # <<>> => leaf.eku[1] \ {ANY_POLICY} \subseteq allowed[1]
\* A certificate without policies has none that is allowed.
check_policy(cfg, path) ==
    LET stated == [i \in DOMAIN path |-> IF path[i].policies = <<>> THEN {} ELSE path[i].policies[1]]
        allowed == FoldLeft(LAMBDA a, p : IF ANY_POLICY \in p THEN a ELSE intersect(a, p), <<>>, stated)
    IN  ANY_POLICY \in cfg.initial_policies \/ allowed = <<>> \/ allowed[1] \intersect cfg.initial_policies # {}
validate_chain(cfg, path, anchor) ==
    LET start == [max_path_len |-> anchor.path_len, eku |-> <<>>,
                  permitted |-> IF anchor.permitted = <<>> THEN <<>> ELSE <<Subtrees(anchor.permitted[1])>>,
                  excluded |-> IF anchor.excluded = <<>> THEN {} ELSE Subtrees(anchor.excluded[1])]
        last == FoldLeft(LAMBDA w, k : IF w = <<>> \/ ~passes(cfg, path, anchor, w[1], k) THEN <<>>
                                       ELSE IF k = Len(path) THEN w ELSE <<handed_on(w[1], path[k])>>,
                         <<start>>, [k \in DOMAIN path |-> k])
    IN  last # <<>> /\ check_eku(cfg, last[1].eku, path[Len(path)]) /\ check_policy(cfg, path)
\* The first of the candidate paths that is valid, from the anchor down.
validate(cfg, ee) ==
    LET good == SelectSeq(build_chains(cfg, ee), LAMBDA c : validate_chain(cfg, c.path, c.anchor))
    IN  IF cfg.trust_anchors = <<>> \/ good = <<>> THEN <<>> ELSE <<good[1].path>>

-----------------------------------------------------------------------------
(* Armour: the lines of a text, BEGIN and END among them, other lines of six-bit digits, pads, blanks and junk. *)

Begin == <<-10>>
End == <<-11>>
Pad == -1
Blank == -2
Junk == -3
\* The digits become octets as eight bits are there; bits left at the end are dropped, a character of no value refuses.
base64_decode(chars) ==
    LET digits == SelectSeq(chars, LAMBDA c : c \notin {Pad, Blank})
        step(a, v) == LET buf == a.buf * 64 + v IN
            IF a.bits + 6 < 8 THEN [a EXCEPT !.buf = buf, !.bits = @ + 6]
            ELSE [out |-> Append(a.out, buf \div 2^(a.bits - 2)), buf |-> buf % 2^(a.bits - 2), bits |-> a.bits - 2]
    IN  IF Junk \in Range(chars) THEN <<>>
        ELSE <<FoldLeft(step, [out |-> <<>>, buf |-> 0, bits |-> 0], digits).out>>
\* Mutant: what stands before the armour is read too.
pem_to_der_All(lines) ==
    LET body == SelectSeq(lines, LAMBDA l : l \notin {Begin, End})
    IN  IF Begin \notin Range(lines) THEN <<>> ELSE base64_decode(FlattenSeq(body))
pem_to_der(lines) ==
    LET ends == {i \in DOMAIN lines : lines[i] = End}
        last == IF ends = {} THEN Len(lines) ELSE Min(ends) - 1
        begins == {i \in 1 .. last : lines[i] = Begin}
        body == SelectSeq(SubSeq(lines, Min(begins) + 1, last), LAMBDA l : l # Begin)
    IN  IF begins = {} THEN <<>> ELSE base64_decode(FlattenSeq(body))

-----------------------------------------------------------------------------
(* Asking a responder for the status of a certificate.  Serial numbers are octets. *)

HashAlgorithms == {"SHA1", "SHA256", "SHA384", "SHA512"}
\* The name hashed is the one the issuer's certificate names as its own issuer.
from_issuer_and_serial(hash, issuer, serial) ==
    [hash_algorithm |-> hash, issuer_name_hash |-> issuer.issuer, issuer_key_hash |-> issuer.key, serial_number |-> serial]
\* On the wire a serial number is a number: zeros in front of it are gone.
Uint(octets) ==
    LET solid == {i \in DOMAIN octets : octets[i] # 0}
    IN  IF solid = {} THEN <<0>> ELSE SubSeq(octets, Min(solid), Len(octets))
to_wire(id) == [id EXCEPT !.serial_number = Uint(@)]
from_wire(w) == IF w.hash_algorithm \in HashAlgorithms THEN <<w>> ELSE <<>>
extract_nonce(extensions) ==
    LET found == SelectSeq(extensions, LAMBDA e : e.id = "nonce") IN IF found = <<>> THEN <<>> ELSE <<found[1].value>>
build_nonce_ext(nonce) == [id |-> "nonce", value |-> nonce]
build_request(id, nonce) == [request_list |-> <<to_wire(id)>>, extensions |-> [i \in DOMAIN nonce |-> build_nonce_ext(nonce[i])]]
decode_request(req) ==
    IF req.request_list = <<>> \/ from_wire(req.request_list[1]) = <<>> THEN <<>>
    ELSE <<[cert_id |-> from_wire(req.request_list[1])[1], nonce |-> extract_nonce(req.extensions)]>>

\* Codes of reasons; 7 is none, and none is above 10.
CrlReasons == (0 .. 10) \ {7}
CrlReason_from_code(reason) == SelectSeq(reason, LAMBDA code : code \in CrlReasons)
\* ECDSA keys sign with one hash each; their signatures are written as two numbers of a fixed size.
sign_response(key, hash) ==
    CASE key.alg = "P256" -> IF hash = "SHA256" THEN <<[by |-> key, scheme |-> "ECDSA_SHA256", form |-> "fixed"]>> ELSE <<>>
      [] key.alg = "P384" -> IF hash = "SHA384" THEN <<[by |-> key, scheme |-> "ECDSA_SHA384", form |-> "fixed"]>> ELSE <<>>
      [] key.alg = "RSA" -> IF hash = "SHA1" THEN <<>> ELSE <<[by |-> key, scheme |-> hash \o "_RSA", form |-> "rsa"]>>
      [] OTHER -> <<[by |-> key, scheme |-> "ED25519", form |-> "ed"]>>
\* A responder: [cert, key, hash, kind].  The status: [is, time, reason].
respond_decoded(responder, status, req, now) ==
    LET rd == [responder_id |-> IF responder.kind = "ByName" THEN [kind |-> "ByName", of |-> responder.cert.subject]
                                ELSE [kind |-> "ByKey", of |-> responder.cert.key],
               responses |-> <<[cert_id |-> to_wire(req.cert_id), this_update |-> now, next_update |-> <<now + 3600>>,
                                status |-> IF status.is = "Revoked" THEN [status EXCEPT !.reason = CrlReason_from_code(@)]
                                           ELSE [is |-> status.is]]>>,
               extensions |-> [i \in DOMAIN req.nonce |-> build_nonce_ext(req.nonce[i])]]
        sig == sign_response(responder.key, responder.hash)
    IN  [i \in DOMAIN sig |-> [response_status |-> 0, response_type |-> "OCSP_BASIC", tbs |-> rd, signed |-> rd, sig |-> sig[i]]]
respond(responder, provider, request, now) ==
    LET req == decode_request(request)
    IN  IF req = <<>> THEN <<>> ELSE respond_decoded(responder, provider[req[1].cert_id], req[1], now)

responder_matches(rid, cert) == IF rid.kind = "ByName" THEN rid.of = cert.subject ELSE rid.of = cert.key
\* The reader wants the signature of an ECDSA key in another form than the responder writes.
OcspSchemes == {"ECDSA_SHA256", "ECDSA_SHA384", "ECDSA_SHA512", "SHA256_RSA", "SHA384_RSA", "SHA512_RSA", "ED25519"}
ocsp_verify_signature(key, resp) ==
    /\ resp.sig.scheme \in OcspSchemes /\ resp.sig.by = key /\ resp.signed = resp.tbs
    /\ \/ key.alg = "RSA" /\ resp.sig.form = "rsa"
       \/ key.alg \in {"P256", "P384"} /\ resp.sig.form = "der"
       \/ key.alg = "Ed25519" /\ resp.sig.form = "ed"
verify_responder(anchors, resp) ==
    \E i \in DOMAIN anchors : responder_matches(resp.tbs.responder_id, anchors[i]) /\ ocsp_verify_signature(anchors[i].key, resp)
\* Mutant: the answer's nonce is compared only where there is one.
nonce_accepted_Lax(expected, got) == expected = <<>> \/ got = <<>> \/ expected = got
nonce_accepted(expected, got) == expected = <<>> \/ expected = got
\* The first of the answers for the certificate; an answer before it that cannot be read refuses.
verify_response(anchors, resp, expected, expected_nonce) ==
    LET ids == [i \in DOMAIN resp.tbs.responses |-> from_wire(resp.tbs.responses[i].cert_id)]
        found == {i \in DOMAIN ids : ids[i] = <<expected>> /\ \A j \in 1 .. i : ids[j] # <<>>}
        single == resp.tbs.responses[Min(found)]
        nonce == extract_nonce(resp.tbs.extensions)
    IN  IF \/ resp.response_status # 0 \/ resp.response_type # "OCSP_BASIC" \/ ~verify_responder(anchors, resp)
           \/ found = {} \/ ~nonce_accepted(expected_nonce, nonce)
        THEN <<>>
        ELSE <<[status |-> single.status, this_update |-> single.this_update, next_update |-> single.next_update, nonce |-> nonce]>>

-----------------------------------------------------------------------------
(* What a valid path is, said of the whole path at once. *)

StatedAbove(path, anchor, j, of(_)) ==
    SelectSeq(<<of(anchor)>> \o [i \in 1 .. j - 1 |-> IF path[i].nc = <<>> THEN <<>> ELSE of(path[i].nc[1])], LAMBDA o : o # <<>>)
Uses(path, i) == Cardinality({m \in i + 1 .. Len(path) : ~is_self_issued(path[m])})
NamesAllowed(path, anchor, j) ==
    LET permitted == StatedAbove(path, anchor, j, LAMBDA n : n.permitted)
        excluded == StatedAbove(path, anchor, j, LAMBDA n : n.excluded)
        kept == IF permitted = <<>> THEN {}
                ELSE {b \in Subtrees(permitted[1][1]) : \A i \in DOMAIN permitted : b \in Subtrees(permitted[i][1])}
    IN  \A name \in candidate_names(path[j]) :
          /\ ~\E i \in DOMAIN excluded : \E b \in Subtrees(excluded[i][1]) : matches(name, b)
          /\ \/ ~\E b \in kept : same_kind(b, name)
             \/ \E b \in kept : matches(name, b)
PurposeAllowed(cfg, path) ==
    LET n == Len(path)
        stated == {path[i].eku[1] : i \in {j \in 1 .. n - 1 : path[j].eku # <<>>}}
    IN  \A purpose \in Range(cfg.required_eku) :
          /\ (\A e \in stated : purpose \in e) \/ (\A e \in stated : ANY_POLICY \in e)
          /\ \A e \in Range(path[n].eku) : purpose \in e /\ \A p \in e \ {ANY_POLICY} : \A f \in stated : p \in f
PolicyAllowed(cfg, path) ==
    LET Has(i, p) == path[i].policies # <<>> /\ p \in path[i].policies[1]
    IN  \/ ANY_POLICY \in cfg.initial_policies \/ \A i \in DOMAIN path : Has(i, ANY_POLICY)
        \/ \E p \in cfg.initial_policies : \A i \in DOMAIN path : Has(i, p) \/ Has(i, ANY_POLICY)
PathGood(cfg, anchor, path) ==
    LET n == Len(path)
        Signer(k) == IF k = 1 THEN [name |-> anchor.name, key |-> anchor.key] ELSE [name |-> path[k - 1].subject, key |-> path[k - 1].key]
    IN  /\ \A k \in 1 .. n : /\ path[k].issuer = Signer(k).name /\ verify_signature(path[k], Signer(k).key)
                             /\ cfg.time \in path[k].not_before .. path[k].not_after
                             /\ NamesAllowed(path, anchor, k)
                             /\ cfg.check_revocation => check_revocation(path[k], cfg.crls, path, anchor)
        /\ \A k \in 1 .. n - 1 : is_ca(path[k]) /\ ~Is(path[k].ku, FALSE) /\ \A l \in Range(path_len_of(path[k])) : Uses(path, k) <= l
        /\ \A l \in Range(anchor.path_len) : Uses(path, 0) <= l
        /\ ~is_ca(path[n]) /\ PurposeAllowed(cfg, path) /\ PolicyAllowed(cfg, path)
\* The good paths among all that can be made of the intermediates, no subject twice.
GoodPaths(cfg, ee) ==
    LET pool == cfg.intermediates
        orders == {q \in SeqOf({i \in DOMAIN pool : pool[i].subject # ee.subject}, Len(pool)) :
                     \A i, j \in DOMAIN q : i # j => pool[q[i]].subject # pool[q[j]].subject}
        path(a, q) == a.cert \o [i \in DOMAIN q |-> pool[q[i]]] \o <<ee>>
    IN  UNION {{path(a, q) : q \in {o \in orders : PathGood(cfg, a, path(a, o))}} : a \in Range(cfg.trust_anchors)}

-----------------------------------------------------------------------------
(* Samples: a root, another root, two intermediates, one of them certified by both roots and by the other, which makes *)
(* a circle, and end entities below each; every limit at its edge.                                                     *)

K(n) == Key("RSA", n)
CaOf(len) == <<[ca |-> TRUE, path_len |-> len]>>
Ca(subject, issuer, key, signer, serial) == [Certificate(subject, issuer, key, signer, serial) EXCEPT !.bc = CaOf(<<>>)]
Host == Dns(<<"www", "Example">>)
Nc(permitted, excluded) == <<[permitted |-> permitted, excluded |-> excluded]>>
Bases == {Dns(<<"example">>), Dns(<<"", "example">>), Dns(<<"www", "example">>), Dns(<<"other">>), Ip(<<0, 0, 0, 0, 0, 0, 0, 0>>),
          Dir(<<"ee">>), Other}
Root == Ca(<<"R">>, <<"R">>, K(1), K(1), 1)
Roots == {Root, [Root EXCEPT !.not_after = 1], [Root EXCEPT !.bc = CaOf(<<1>>)], [Root EXCEPT !.bc = CaOf(<<2>>)], [Root EXCEPT !.sig.by = K(9)],
          [Root EXCEPT !.nc = Nc(<<{Dns(<<"", "example">>), Dns(<<"other">>)}>>, <<>>)], [Root EXCEPT !.bc = <<>>],
          [Root EXCEPT !.eku = <<{"server", "mail"}>>]}
A == Ca(<<"A">>, <<"R">>, K(2), K(1), 2)
CaVariants(c) ==
    {c, [c EXCEPT !.bc = CaOf(<<0>>)], [c EXCEPT !.bc = CaOf(<<1>>)], [c EXCEPT !.ku = <<FALSE>>], [c EXCEPT !.ku = <<TRUE>>],
     [c EXCEPT !.not_before = 3], [c EXCEPT !.eku = <<{"server"}>>], [c EXCEPT !.eku = <<{ANY_POLICY}>>], [c EXCEPT !.sig.scheme = "PSS"],
     [c EXCEPT !.policies = <<{"p", "q"}>>], [c EXCEPT !.policies = <<{ANY_POLICY}>>]}
      \union {[c EXCEPT !.nc = Nc(<<{b}>>, <<>>)] : b \in Bases} \union {[c EXCEPT !.nc = Nc(<<>>, <<{b}>>)] : b \in Bases}
Cross == Ca(<<"A">>, <<"S">>, K(2), K(3), 3)
B == Ca(<<"B">>, <<"A">>, K(4), K(2), 4)
Circle == Ca(<<"A">>, <<"B">>, K(2), K(4), 5)
Rollover == Ca(<<"B">>, <<"B">>, K(6), K(4), 7)
OtherRoot == Ca(<<"S">>, <<"S">>, K(3), K(3), 6)
Leaf == [Certificate(<<"ee">>, <<"A">>, K(5), K(2), 10) EXCEPT !.san = <<<<Host>>>>]
Leaves == {Leaf, [Leaf EXCEPT !.san = <<>>], [Leaf EXCEPT !.san = <<<<Other, Ip(<<10, 0, 0, 1>>)>>>>], [Leaf EXCEPT !.eku = <<{"server"}>>],
           [Leaf EXCEPT !.eku = <<{"server", "mail"}>>], [Leaf EXCEPT !.policies = <<{"p"}>>], [Leaf EXCEPT !.bc = CaOf(<<>>)],
           [Leaf EXCEPT !.not_after = 1], [Leaf EXCEPT !.sig.by = K(9)], [Leaf EXCEPT !.issuer = <<"R">>, !.sig.by = K(1)]}
BelowB == {[Leaf EXCEPT !.issuer = <<"B">>, !.sig.by = K(4)], [Leaf EXCEPT !.issuer = <<"B">>, !.sig.by = K(6)]}
Config(anchors, intermediates) ==
    [trust_anchors |-> anchors, intermediates |-> intermediates, time |-> 2, required_eku |-> <<>>, initial_policies |-> {ANY_POLICY},
     check_revocation |-> FALSE, crls |-> <<>>]
Crl(issuer, signer, revoked) == [issuer |-> issuer, sig |-> Signature(signer, "SHA256_RSA"), revoked |-> revoked]
CrlLists == {<<>>, <<Crl(<<"A">>, K(2), {10})>>, <<Crl(<<"R">>, K(1), {2})>>, <<Crl(<<"R">>, K(1), {}), Crl(<<"A">>, K(9), {})>>,
             <<Crl(<<"X">>, K(9), {}), Crl(<<"A">>, K(2), {10})>>, <<Crl(<<"A">>, K(2), {4}), Crl(<<"X">>, K(9), {10})>>}
Demands(c) == {[c EXCEPT !.required_eku = <<"server">>], [c EXCEPT !.initial_policies = {"p"}]}
PathSamples ==
    {[cfg |-> c, ee |-> l] : c \in Demands(Config(<<from_cert(Root)>>, <<A>>)), l \in Leaves}
      \union UNION {{[cfg |-> c, ee |-> l] : c \in {Config(<<from_cert(r)>>, <<a>>)} \union Demands(Config(<<from_cert(r)>>, <<a>>)),
                                             l \in Leaves} : r \in {Root, [Root EXCEPT !.eku = <<{"server", "mail"}>>]}, a \in CaVariants(A)}
      \union {[cfg |-> Config(<<from_cert(r)>>, <<a>>), ee |-> l] : r \in Roots, a \in CaVariants(A), l \in {Leaf, [Leaf EXCEPT !.san = <<>>]}}
      \union {[cfg |-> Config(<<from_cert(r)>>, <<Circle, b, a>>), ee |-> l] : r \in Roots, a \in {A, [A EXCEPT !.bc = CaOf(<<1>>)]},
                                                                               b \in CaVariants(B), l \in BelowB}
      \union {[cfg |-> Config(<<from_cert(OtherRoot), from_cert(r)>>, <<B, a, Cross>>), ee |-> l] : r \in Roots, a \in CaVariants(A), l \in BelowB \union {Leaf}}
      \union {[cfg |-> [Config(<<[from_cert(Root) EXCEPT !.cert = <<>>]>>, <<A, B, Rollover>>) EXCEPT !.check_revocation = TRUE, !.crls = x],
               ee |-> l] : x \in CrlLists, l \in BelowB \union {Leaf}}

\* A validator answers with a path that is valid as a whole, from a trust anchor down to the certificate, whenever one
\* can be made of its intermediates, whatever their order, the roots that certify them and the circles among them
\* (validate.rs, constraints.rs, crl.rs).
PathsValid(s) ==
    LET found == validate(s.cfg, s.ee)
        good == GoodPaths(s.cfg, s.ee)
    IN  IF found = <<>> THEN good = {} ELSE found[1] \in good

Octets == {<<>>, <<0>>, <<255>>, <<0, 1>>, <<251, 239>>, <<1, 2, 3>>, <<255, 255, 255, 0>>, <<48, 3, 2, 1, 7>>}
\* The digits of a text of octets, three octets to four digits, filled with pads.
Digits(o) ==
    LET at(i) == IF i <= Len(o) THEN o[i] ELSE 0
        group(g) == LET n == at(3 * g - 2) * 65536 + at(3 * g - 1) * 256 + at(3 * g) IN
                    [k \in 1 .. 4 |-> IF 3 * g - 2 + (k - 2) > Len(o) /\ k > 2 THEN Pad ELSE (n \div 64^(4 - k)) % 64]
    IN  FlattenSeq([g \in 1 .. (Len(o) + 2) \div 3 |-> group(g)])
\* A certificate or list in armour is read whatever the width of its lines and what stands around it (cert.rs, crl.rs).
ArmourReads(o) ==
    \A width \in {1, 4, 6} :
        LET d == Digits(o)
            lines == [i \in 1 .. (Len(d) + width - 1) \div width |-> SubSeq(d, (i - 1) * width + 1, Min({i * width, Len(d)}))]
        IN  /\ pem_to_der(<<<<3, 4>>, Begin>> \o lines \o <<End, <<7>>>>) = <<o>>
            /\ pem_to_der(lines) = <<>> /\ pem_to_der(<<Begin>> \o lines \o <<<<Junk>>, End>>) = <<>>

OcspIds == {from_issuer_and_serial(h, c, n) : h \in {"SHA1", "SHA256"}, c \in {Root, A}, n \in {<<5>>, <<5, 0>>, <<0, 200>>}}
Statuses == {[is |-> "Good", time |-> 0, reason |-> <<>>], [is |-> "Unknown", time |-> 0, reason |-> <<>>]}
              \union {[is |-> "Revoked", time |-> 7, reason |-> r] : r \in {<<>>, <<0>>, <<7>>, <<10>>, <<11>>}}
Responders == {[cert |-> [Root EXCEPT !.key = k], key |-> k, hash |-> h, kind |-> i] :
                 k \in {Key(a, 1) : a \in {"RSA", "P256", "Ed25519"}}, h \in {"SHA1", "SHA256"}, i \in {"ByName", "ByKey"}}
OcspSamples == {[responder |-> r, status |-> t, nonce |-> n] : r \in Responders, t \in Statuses, n \in {<<>>, <<"n">>, <<"m">>}}
\* The client takes from a responder it trusts the status of the certificate it asked about, as the provider of the
\* status gave it, and with a nonce of its own only the answer to this very request; it takes every such answer, but
\* for those an ECDSA key signed and those about a serial number with zeros in front (client.rs, responder.rs).
StatusAsProvided(s) ==
    \A asked, other \in OcspIds, mine \in {<<>>, <<"n">>} :
        LET provider == [id \in {to_wire(i) : i \in OcspIds} |-> IF id = to_wire(other) THEN s.status ELSE [is |-> "Good", time |-> 0, reason |-> <<>>]]
            answers == respond(s.responder, provider, build_request(other, s.nonce), 100)
        IN  \A resp \in Range(answers), anchor \in {s.responder.cert, [s.responder.cert EXCEPT !.key = K(8)]} :
              LET got == verify_response(<<OtherRoot, anchor>>, resp, asked, mine)
                  due == /\ asked = to_wire(other) /\ anchor = s.responder.cert /\ s.responder.key.alg # "P256" /\ mine \in {<<>>, s.nonce}
              IN  /\ (got # <<>>) = due
                  /\ \A v \in Range(got) : /\ v.status.is = s.status.is /\ v.nonce = s.nonce
                                           /\ v.status.is = "Revoked" => /\ v.status.time = s.status.time
                                                                         /\ v.status.reason \in {<<>>, s.status.reason}
                                                                         /\ s.status.reason \in {<<0>>, <<10>>} => v.status.reason = s.status.reason
=============================================================================
