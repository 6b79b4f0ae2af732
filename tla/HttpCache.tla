------------------------------ MODULE HttpCache ------------------------------
(***************************************************************************)
(* tpt-http-cache: the policy of a stored response, and a program that     *)
(* stores one response of an origin, answers requests from it, sends       *)
(* revalidations, applies their replies when they come and keeps the       *)
(* policy over a restart.  A directive with no value is Flag, a value or   *)
(* date that cannot be read is Junk, a header that is missing is None.     *)
(***************************************************************************)
EXTENDS Integers, FiniteSets, SequencesExt

CONSTANTS Fetches,         \* first requests with the headers the origin answers with and the kind of cache
          CacheRequests,   \* later requests
          Heuristic,       \* the fraction of the age of a document is one over this
          MinTtl,          \* immutable_min_ttl
          CacheMaxTime, MaxVersions, MaxAsked

VARIABLES time, kept,      \* the stored policies: none or one, with the body they belong to
          version,         \* of the origin's document
          replies,         \* what the origin has answered to revalidations, not yet applied
          asked,           \* revalidations sent so far
          served           \* what the request of the last step was answered with, from the store
cacheVars == <<time, kept, version, replies, asked, served>>

None == -1
Flag == -2
Junk == -3
UNDERSTOOD_STATUSES == {200, 203, 204, 300, 301, 302, 303, 307, 308, 404, 405, 410, 414, 501}
CACHEABLE_BY_DEFAULT == {200, 203, 204, 206, 300, 301, 308, 404, 405, 410, 414, 501}
ERROR_STATUSES == {500, 502, 503, 504}

\* Only the first of a directive's occurrences counts.
parse_cache_control(parts) ==
    [k \in {p[1] : p \in Range(parts)} |->
        parts[CHOOSE i \in DOMAIN parts : parts[i][1] = k /\ \A j \in 1 .. i - 1 : parts[j][1] # k][2]]
cc_has(cc, name) == name \in DOMAIN cc
cc_delta(cc, name) == IF cc_has(cc, name) /\ cc[name] >= 0 THEN cc[name] ELSE 0
Without(cc, names) == [k \in DOMAIN cc \ names |-> cc[k]]

larger(a, b) == IF a > b THEN a ELSE b

-----------------------------------------------------------------------------
(* HTTP dates: days since 1970, dates <<year, month, day>>. *)

days_from_civil(y0, m, d) ==
    LET y == IF m <= 2 THEN y0 - 1 ELSE y0
        era == y \div 400
        yoe == y - era * 400
        mp == IF m > 2 THEN m - 3 ELSE m + 9
        doy == (153 * mp + 2) \div 5 + d - 1
    IN  era * 146097 + yoe * 365 + yoe \div 4 - yoe \div 100 + doy - 719468
weekday_index(y, m, d) == (days_from_civil(y, m, d) + 4) % 7
\* A two-digit year is one of the last century.
parse_year(y) == IF y \in 0 .. 99 THEN 1900 + y ELSE y
date_to_days(y, m, d) == IF m \in 1 .. 12 /\ d \in 1 .. 31 /\ days_from_civil(y, m, d) >= 0 THEN {days_from_civil(y, m, d)} ELSE {}
parse_http_date(t) == date_to_days(parse_year(t.y), t.m, t.d)
\* Mutant: January and February belong to the year the count began in.
format_http_date_NoTurn(days) ==
    LET z == days + 719468
        era == z \div 146097
        doe == z - era * 146097
        yoe == (doe - doe \div 1460 + doe \div 36524) \div 365
        doy == doe - (365 * yoe + yoe \div 4 - yoe \div 100)
        mp == (5 * doy + 2) \div 153
        m == IF mp < 10 THEN mp + 3 ELSE mp - 9
        d == doy - (153 * mp + 2) \div 5 + 1
    IN  [wd |-> weekday_index(yoe + era * 400, m, d), d |-> d, m |-> m, y |-> yoe + era * 400]
format_http_date(days) ==
    LET t == format_http_date_NoTurn(days)
        y == IF t.m <= 2 THEN t.y + 1 ELSE t.y
    IN  [t EXCEPT !.y = y, !.wd = weekday_index(y, t.m, t.d)]
HttpDays == {0, 1, 58, 59, 365, 789, 10956, 10957, 11015, 11017, 11382, 47481, 47482, 47540, 47541}
\* Not among them is the last day of 400 years, 29 February 2000: it is written as the first of March.
\* A date that was written is read as the same day, with the weekday of that day.
HttpDateReads(n) == parse_http_date(format_http_date(n)) = {n} /\ format_http_date(n).wd = (n + 4) % 7

-----------------------------------------------------------------------------
(* CachePolicy.  h are the stored headers; frozen is None with the real    *)
(* clock.                                                                  *)

CargoCult == {"pre-check", "post-check", "no-cache", "no-store", "must-revalidate"}
new_with_options(req, status, headers, opts) ==
    LET given == parse_cache_control(headers.cc)
        cult == opts.ignore_cargo_cult /\ cc_has(given, "pre-check") /\ cc_has(given, "post-check")
        cc == IF cult THEN Without(given, CargoCult) ELSE given
        h == IF cult THEN [headers EXCEPT !.expires = None, !.pragma = FALSE,
                                          !.cc = SelectSeq(@, LAMBDA p : p[1] \notin CargoCult)] ELSE headers
    IN  [response_time |-> IF opts.now = None THEN time ELSE opts.now, frozen |-> opts.now, options |-> opts,
         status |-> status, h |-> h,
         cc |-> IF DOMAIN cc \intersect {"no-cache", "no-store"} = {} /\ h.cc = <<>> /\ h.pragma
                THEN [d \in DOMAIN cc \union {"no-cache"} |-> IF d = "no-cache" THEN Flag ELSE cc[d]] ELSE cc,
         method |-> req.method, url |-> req.url, host |-> req.host, no_authorization |-> ~req.authorization,
         fields |-> IF h.vary = {} THEN <<>> ELSE <<req.fields>>, request_cc |-> parse_cache_control(req.cc)]

Now(p) == IF p.frozen = None THEN time ELSE p.frozen
response_date(p) == IF p.h.date < 0 THEN p.response_time ELSE p.h.date
age_value(p) == IF p.h.age < 0 THEN 0 ELSE p.h.age
\* Mutant: the time in the store is not counted.
age_NoResident(p) == larger(age_value(p), larger(0, Now(p) - response_date(p)))
age(p) == larger(age_value(p), larger(0, Now(p) - response_date(p))) + larger(0, Now(p) - p.response_time)

has_explicit_expiration(p) ==
    (p.options.shared /\ cc_has(p.cc, "s-maxage")) \/ cc_has(p.cc, "max-age") \/ p.h.expires # None

is_storable(p) ==
    LET shared == p.options.shared
    IN  /\ ~cc_has(p.request_cc, "no-store") /\ ~cc_has(p.cc, "no-store")
        /\ p.method \in {"GET", "HEAD"} \/ (p.method = "POST" /\ has_explicit_expiration(p))
        /\ p.status \in UNDERSTOOD_STATUSES
        /\ ~shared \/ ~cc_has(p.cc, "private")
        /\ ~shared \/ p.no_authorization \/ DOMAIN p.cc \intersect {"must-revalidate", "public", "s-maxage"} # {}
        /\ has_explicit_expiration(p) \/ cc_has(p.cc, "public") \/ p.status \in CACHEABLE_BY_DEFAULT

max_age(p) ==
    LET shared == p.options.shared
        least == IF cc_has(p.cc, "immutable") THEN MinTtl ELSE 0
    IN  CASE \/ ~is_storable(p) \/ cc_has(p.cc, "no-cache") \/ "*" \in p.h.vary
             \/ shared /\ p.h.set_cookie /\ DOMAIN p.cc \intersect {"public", "immutable"} = {}
             \/ shared /\ cc_has(p.cc, "proxy-revalidate") -> 0
          [] OTHER ->
             IF shared /\ cc_has(p.cc, "s-maxage") THEN cc_delta(p.cc, "s-maxage")
             ELSE IF cc_has(p.cc, "max-age") THEN cc_delta(p.cc, "max-age")
             ELSE IF p.h.expires # None
                  THEN IF p.h.expires >= response_date(p) THEN larger(p.h.expires - response_date(p), least) ELSE 0
             ELSE IF p.h.last_modified >= 0 /\ response_date(p) > p.h.last_modified
                  THEN larger((response_date(p) - p.h.last_modified) \div Heuristic, least)
             ELSE least
time_to_live(p) ==
    LET remaining == max_age(p) - age(p)
    IN  larger(0, remaining + larger(cc_delta(p.cc, "stale-if-error"), cc_delta(p.cc, "stale-while-revalidate")))
stale(p) == max_age(p) <= age(p)
use_stale_if_error(p) == max_age(p) + cc_delta(p.cc, "stale-if-error") > age(p)
use_stale_while_revalidate(p) ==
    cc_delta(p.cc, "stale-while-revalidate") > 0 /\ max_age(p) + cc_delta(p.cc, "stale-while-revalidate") > age(p)

\* Mutant: the fields that Vary names are taken from the stored response.
vary_matches_Any(p, req) == "*" \notin p.h.vary
vary_matches(p, req) ==
    "*" \notin p.h.vary /\ (p.fields = <<>> \/ \A f \in p.h.vary : req.fields[f] = p.fields[1][f])
request_matches(p, req, allow_head) ==
    /\ p.url \in {None, req.url} /\ p.host \in {None, req.host}
    /\ p.method = req.method \/ (allow_head /\ req.method = "HEAD")
    /\ vary_matches(p, req)

\* Hit, miss, or a hit with a revalidation in the background.
evaluate_request(p, req) ==
    LET cc == parse_cache_control(req.cc)
        allows_stale == cc_has(cc, "max-stale") /\ (cc["max-stale"] = Flag \/ larger(0, cc["max-stale"]) > age(p) - max_age(p))
    IN  IF \/ cc_has(p.cc, "must-revalidate") \/ ~request_matches(p, req, FALSE)
           \/ cc_has(cc, "no-cache") \/ req.pragma
           \/ cc_has(cc, "max-age") /\ age(p) > cc_delta(cc, "max-age")
           \/ cc_has(cc, "min-fresh") /\ max_age(p) - age(p) < cc_delta(cc, "min-fresh") THEN "miss"
        ELSE IF ~stale(p) \/ allows_stale THEN "hit"
        ELSE IF use_stale_while_revalidate(p) THEN "hit_with_revalidation" ELSE "miss"

\* The validators a revalidation carries: a tag is a pair of its kind and its name.
revalidation_headers(p, req) ==
    LET tags == req.if_none_match \union (IF p.h.etag = <<>> THEN {} ELSE {p.h.etag})
        forbids_weak == req.accept_ranges \/ p.method # "GET"
    IN  IF ~request_matches(p, req, TRUE) \/ ~is_storable(p) THEN [if_none_match |-> {}, if_modified_since |-> None]
        ELSE [if_none_match |-> IF forbids_weak THEN {t \in tags : t[1] = "strong"} ELSE tags,
              if_modified_since |-> IF forbids_weak THEN None
                                    ELSE IF req.if_modified_since # None THEN req.if_modified_since ELSE p.h.last_modified]

\* Mutant: the tag of a 304 is not compared.
Matches_Any(p, reply) == reply.status = 304
\* A 304 belongs to the stored response when it carries its strong tag or, with no tag, its date.
Matches(p, reply) ==
    /\ reply.status = 304
    /\ CASE reply.h.etag # <<>> -> reply.h.etag[1] = "strong" /\ p.h.etag # <<>> /\ p.h.etag[2] = reply.h.etag[2]
         [] reply.h.etag = <<>> /\ p.h.last_modified # None -> p.h.last_modified = reply.h.last_modified
         [] OTHER -> p.h.etag = <<>> /\ reply.h.last_modified = None
\* Every stored header takes the value the reply has for it; other headers of the reply are dropped.
Merged(h, new) ==
    [cc |-> IF h.cc # <<>> /\ new.cc # <<>> THEN new.cc ELSE h.cc,
     date |-> IF h.date # None /\ new.date # None THEN new.date ELSE h.date,
     age |-> IF h.age # None /\ new.age # None THEN new.age ELSE h.age,
     expires |-> IF h.expires # None /\ new.expires # None THEN new.expires ELSE h.expires,
     last_modified |-> IF h.last_modified # None /\ new.last_modified # None THEN new.last_modified ELSE h.last_modified,
     etag |-> IF h.etag # <<>> /\ new.etag # <<>> THEN new.etag ELSE h.etag,
     vary |-> IF h.vary # {} /\ new.vary # {} THEN new.vary ELSE h.vary,
     set_cookie |-> h.set_cookie, pragma |-> h.pragma]
revalidated_policy(p, req, reply) ==
    IF use_stale_if_error(p) /\ reply.status \in ERROR_STATUSES THEN [policy |-> p, modified |-> FALSE, matches |-> TRUE]
    ELSE [policy |-> new_with_options(req, p.status, Merged(p.h, reply.h), [p.options EXCEPT !.now = Now(p)]),
          modified |-> reply.status # 304, matches |-> Matches(p, reply)]

to_object(p) == [f \in DOMAIN p \ {"frozen"} |-> p[f]]
from_object(o) == [f \in DOMAIN o \union {"frozen"} |-> IF f = "frozen" THEN None ELSE o[f]]

-----------------------------------------------------------------------------
(* A program around one stored response.  The origin's tag is its version. *)

Options(shared) == [shared |-> shared, ignore_cargo_cult |-> TRUE, now |-> None]
Tagged(h) == [h EXCEPT !.etag = <<"strong", version>>]
Entry(p, body, since) == [policy |-> p, body |-> body, since |-> since]

fetch(req, h, shared) ==
    LET p == new_with_options(req, 200, Tagged(h), Options(shared))
    IN  /\ kept = <<>> /\ is_storable(p)
        /\ kept' = <<Entry(p, version, time)>>
        /\ served' = <<>> /\ UNCHANGED <<time, version, replies, asked>>

request(req) ==
    /\ kept # <<>>
    /\ LET e == kept[1]
           d == evaluate_request(e.policy, req)
           validators == revalidation_headers(e.policy, req)
           answer == [status |-> IF <<"strong", version>> \in validators.if_none_match THEN 304 ELSE 200,
                      h |-> [e.policy.h EXCEPT !.etag = <<"strong", version>>, !.date = IF @ = None THEN None ELSE time], body |-> version, req |-> req]
       IN  /\ served' = IF d = "miss" THEN <<>> ELSE <<[entry |-> e, req |-> req, at |-> time, decision |-> d]>>
           /\ \/ d = "hit" /\ UNCHANGED <<replies, asked>>
              \/ d # "hit" /\ asked < MaxAsked /\ asked' = asked + 1 /\ \E status \in {answer.status, 503} :
                    replies' = replies \union {[answer EXCEPT !.status = status]}
    /\ UNCHANGED <<time, kept, version>>

\* A reply that neither belongs to the stored response nor brings another is of no use.
apply(reply) ==
    LET e == kept[1]
        r == revalidated_policy(e.policy, reply.req, reply)
    IN  /\ kept # <<>> /\ (reply.status # 503 \/ use_stale_if_error(e.policy))
        /\ kept' = IF ~r.modified /\ ~r.matches THEN kept
                   ELSE IF ~is_storable(r.policy) THEN <<>>
                   ELSE <<Entry(r.policy, IF r.modified THEN reply.body ELSE e.body, IF reply.status = 503 THEN e.since ELSE time)>>
        /\ replies' = replies \ {reply} /\ served' = <<>> /\ UNCHANGED <<time, version, asked>>

restart ==
    /\ kept # <<>> /\ kept' = <<[kept[1] EXCEPT !.policy = from_object(to_object(@))]>>
    /\ served' = <<>> /\ UNCHANGED <<time, version, replies, asked>>
change == version < MaxVersions /\ version' = version + 1 /\ served' = <<>> /\ UNCHANGED <<time, kept, replies, asked>>
pass == time < CacheMaxTime /\ time' = time + 1 /\ served' = <<>> /\ UNCHANGED <<kept, version, replies, asked>>

CacheInit == time = 3 /\ kept = <<>> /\ version = 1 /\ replies = {} /\ asked = 0 /\ served = <<>>
CacheNext ==
    \/ \E f \in Fetches : fetch(f[1], f[2], f[3])
    \/ \E req \in CacheRequests : request(req)
    \/ \E reply \in replies : apply(reply)
    \/ restart \/ change \/ pass

-----------------------------------------------------------------------------
\* What the origin's word allows: the time since the response left the origin is within its lifetime, or in what the
\* request or the response adds to it.
Allowance(s) ==
    LET cc == parse_cache_control(s.req.cc)
        p == s.entry.policy
    IN  (IF s.decision = "hit_with_revalidation" THEN cc_delta(p.cc, "stale-while-revalidate") ELSE 0)
        + (IF ~cc_has(cc, "max-stale") THEN 0 ELSE IF cc["max-stale"] = Flag THEN CacheMaxTime + 9 ELSE cc_delta(cc, "max-stale"))
Fresh(s) == age_value(s.entry.policy) + s.at - s.entry.since < max_age(s.entry.policy) + Allowance(s)
Selected(s) ==
    /\ s.entry.policy.h.vary # {} => \A f \in s.entry.policy.h.vary : s.req.fields[f] = s.entry.policy.fields[1][f]
    /\ s.entry.policy.options.shared => s.entry.policy.no_authorization \/ DOMAIN s.entry.policy.cc \intersect {"public", "s-maxage"} # {}

\* What is answered from the store was meant for such a request, and is within its lifetime; its tag is the tag of the
\* body.  A policy whose clock a revalidation has stopped is left out of the lifetime.
CacheHonest ==
    /\ \A s \in Range(served) : Selected(s) /\ (s.entry.policy.frozen = None => Fresh(s))
    /\ \A e \in Range(kept) : e.policy.h.etag = <<"strong", e.body>>

\* The same for every policy: its age advances with the clock, also after a revalidation.
NeverPastLifetime == \A s \in Range(served) : Fresh(s)
=============================================================================
