----------------------------- MODULE MCMessages -----------------------------
(***************************************************************************)
(* TLC instance of the protocols that are made of single messages: the     *)
(* clients, servers and services of Kerberos and RADIUS, a stored HTTP     *)
(* response, a DoH client, one-time passwords, an RTP receiver, and        *)
(* samples of the messages of the crates, written and read: among them     *)
(* SIP, mail and NETCONF messages, and certificates with their status.     *)
(* A behaviour is about one of them; a behaviour of the part "samples" is  *)
(* about one sample.                                                       *)
(***************************************************************************)
EXTENDS Kerberos, RtpSession, Sequences

CONSTANTS Parts, RadUsers, Secrets, ServerSecret, IdModulus, Block, MaxRequests, MaxChanges,
          Heuristic, MinTtl, CacheMaxTime, MaxVersions, MaxAsked,
          Threads, DohQueries, DohMaxTime, Window, HotpMax, HotpDigits

VARIABLES part, sample,
          secret, next_id, requests, datagrams, users, accounted, verified,
          time, kept, version, replies, asked, served,
          clock, entries, calls, given, token, stored, taken

Drifts == [c \in Clients |-> IF c = "alice" THEN 0 ELSE 1]
MCTransits == {0, 20}
MCSenderReports == {<<1, 2>>}
RadPasswords == {<<"a">>, <<"a", "b", "c">>}


\* Responses and requests of the HTTP cache: lifetimes by each of the headers that give one, validators, Vary, an Age,
\* dates ahead of the clock and unreadable ones.  -1 is a missing header, -2 a directive without a value, -3 junk.
Blank == [cc |-> <<>>, date |-> -1, age |-> -1, expires |-> -1, last_modified |-> -1, etag |-> <<>>, vary |-> {},
          set_cookie |-> FALSE, pragma |-> FALSE]
MaxAge(n) == <<"max-age", n>>
CacheResponses ==
    {[Blank EXCEPT !.cc = <<MaxAge(2)>>, !.date = 3],
     [Blank EXCEPT !.cc = <<MaxAge(2), <<"stale-while-revalidate", 2>>, <<"stale-if-error", 2>>>>],
     [Blank EXCEPT !.cc = <<MaxAge(2), <<"s-maxage", 1>>>>, !.vary = {"lang"}, !.date = 4],
     [Blank EXCEPT !.cc = <<MaxAge(3)>>, !.age = 1, !.date = 3],
     [Blank EXCEPT !.expires = 5, !.date = 3],
     [Blank EXCEPT !.last_modified = 1, !.date = 3, !.cc = <<<<"public", -2>>>>],
     [Blank EXCEPT !.cc = <<<<"immutable", -2>>>>, !.set_cookie = TRUE],
     [Blank EXCEPT !.cc = <<MaxAge(2), <<"must-revalidate", -2>>>>],
     [Blank EXCEPT !.cc = <<<<"pre-check", 0>>, <<"post-check", 0>>, <<"no-cache", -2>>, MaxAge(1)>>, !.pragma = TRUE],
     [Blank EXCEPT !.vary = {"*"}, !.cc = <<MaxAge(-3), MaxAge(2)>>],
     [Blank EXCEPT !.expires = -3, !.pragma = TRUE]}
Get == [method |-> "GET", url |-> 1, host |-> 1, authorization |-> FALSE, cc |-> <<>>, pragma |-> FALSE,
        fields |-> [f \in {"lang"} |-> "en"], if_none_match |-> {}, if_modified_since |-> -1, accept_ranges |-> FALSE]
Authorized == [Get EXCEPT !.authorization = TRUE, !.accept_ranges = TRUE]
CacheRequests ==
    {Get, Authorized, [Get EXCEPT !.fields = [f \in {"lang"} |-> "de"]], [Get EXCEPT !.cc = <<<<"max-stale", 1>>>>],
     [Get EXCEPT !.method = "HEAD"]}
Fetches ==
    {<<Get, h, h.vary = {}>> : h \in CacheResponses}
      \union {<<Authorized, h, TRUE>> : h \in {x \in CacheResponses : x.date = 4 \/ x.last_modified = 1}}

\* Answers of a resolver: with max-age, alone or among other directives, dated, with Expires, not to be kept, an error.
DohAnswer(status, cc, date, expires) == [status |-> status, cc |-> cc, date |-> date, expires |-> expires, body |-> <<>>]
DohAnswers ==
    {DohAnswer(200, <<MaxAge(1)>>, -1, -1), DohAnswer(200, <<<<"private", -1>>, MaxAge(2), <<"no-store", -1>>>>, -1, -1),
     DohAnswer(200, <<<<"no-store", -1>>, MaxAge(2)>>, -1, -1), DohAnswer(200, <<MaxAge(1)>>, 0, -1),
     DohAnswer(200, <<>>, -1, 0), DohAnswer(500, <<MaxAge(2)>>, -1, -1)}

KrbTypes == INSTANCE KrbTypes
Rad == INSTANCE Radius
Cache == INSTANCE HttpCache
Ldap == INSTANCE LdapWire
Snmp == INSTANCE Snmp
Rtp == INSTANCE RtpWire
Sieve == INSTANCE Sieve
Cbor == INSTANCE Cbor
Bgp == INSTANCE BgpWire
Ospf == INSTANCE OspfWire
Doh == INSTANCE Doh
Otp == INSTANCE Hotp
Dhcp6 == INSTANCE Dhcp6Wire
Sip == INSTANCE SipMessage
Pki == INSTANCE Pki
Mail == INSTANCE MailMessage
Netconf == INSTANCE NetconfMessage
radState == <<secret, next_id, requests, datagrams, users, accounted, verified>>
cacheState == <<time, kept, version, replies, asked, served>>
dohState == <<clock, entries, calls, given>>
otpState == <<token, stored, taken>>
all == <<part, sample, krbVars, radState, cacheState, rtpVars, dohState, otpState>>

None == <<"none", 0>>
Of(kind, S) == {<<kind, x>> : x \in S}
Samples == Of("kerberos", KrbTypes!KrbSamples) \union Of("eap", Rad!EapLengths)
             \union Of("date", Cache!HttpDays)
             \union Of("ldap", Ldap!LdapSamples) \union Of("substring", Ldap!SubstringLists)
             \union Of("snmp", Snmp!SnmpSamples)
             \union Of("walk", Snmp!WalkSamples)
             \union Of("rtp", Rtp!RtpSamples)
             \union Of("report", ReportSamples)
             \union Of("script", Sieve!ScriptSamples)
             \union Of("address", Sieve!AddressSamples)
             \union Of("glob", Sieve!GlobSamples)
             \union Of("item", Cbor!ItemSamples)
             \union Of("float", Cbor!Floats)
             \union Of("bgp", Bgp!BgpSamples)
             \union Of("ospf", Ospf!OspfSamples)
             \union Of("octets", Doh!OctetStrings)
             \union Of("dns", Doh!DnsSamples)
             \union Of("month", Doh!Dates)
             \union Of("digest", Otp!DigestSamples)
             \union Of("dhcpv6", Dhcp6!Dhcp6Samples)
             \union Of("sip", Sip!SipSamples)
             \union Of("path", Pki!PathSamples)
             \union Of("armour", Pki!Octets)
             \union Of("status", Pki!OcspSamples)
             \union Of("mail", Mail!MailSamples)
             \union Of("netconf", Netconf!NetconfSamples)

MCInit ==
    /\ KrbInit /\ Rad!RadInit /\ Cache!CacheInit /\ RtpInit /\ Doh!DohInit /\ Otp!HotpInit /\ part \in Parts /\ sample = None
    /\ part # "radius" => secret = ServerSecret
MCNext ==
    /\ UNCHANGED part
    /\ \/ part = "kerberos" /\ KrbNext /\ UNCHANGED <<sample, radState, cacheState, rtpVars, dohState, otpState>>
       \/ part = "radius" /\ Rad!RadNext /\ UNCHANGED <<sample, krbVars, cacheState, rtpVars, dohState, otpState>>
       \/ part = "cache" /\ Cache!CacheNext /\ UNCHANGED <<sample, krbVars, radState, rtpVars, dohState, otpState>>
       \/ part = "rtp" /\ RtpNext /\ UNCHANGED <<sample, krbVars, radState, cacheState, dohState, otpState>>
       \/ part = "doh" /\ Doh!DohNext /\ UNCHANGED <<sample, krbVars, radState, cacheState, rtpVars, otpState>>
       \/ part = "otp" /\ Otp!HotpNext /\ UNCHANGED <<sample, krbVars, radState, cacheState, rtpVars, dohState>>
       \/ part = "samples" /\ sample = None /\ sample' \in Samples /\ UNCHANGED <<krbVars, radState, cacheState, rtpVars, dohState, otpState>>
MCSpec == MCInit /\ [][MCNext]_all

\* What an end takes for proved was proved: a RADIUS client takes an answer only for the server's answer to that very
\* request, a one-time password is accepted once.
Authentic == Rad!RadAuthentic /\ Otp!CodesOnce
\* What one end writes the other reads, at every edge of a length, a number or a date.
ReadAsWritten ==
    CASE sample[1] = "kerberos" -> KrbTypes!KerberosReads(sample[2])
      [] sample[1] = "eap" -> Rad!EapReads(sample[2])
      [] sample[1] = "date" -> Cache!HttpDateReads(sample[2])
      [] sample[1] = "ldap" -> Ldap!LdapReads(sample[2])
      [] sample[1] = "snmp" -> Snmp!SnmpReads(sample[2])
      [] sample[1] = "rtp" -> Rtp!RtpReads(sample[2])
      [] sample[1] = "script" -> Sieve!ScriptReads(sample[2])
      [] sample[1] = "address" -> Sieve!AddressesFound(sample[2])
      [] sample[1] = "item" -> Cbor!ItemReads(sample[2])
      [] sample[1] = "bgp" -> Bgp!BgpReads(sample[2])
      [] sample[1] = "ospf" -> Ospf!OspfReads(sample[2])
      [] sample[1] = "octets" -> Doh!Base64Reads(sample[2])
      [] sample[1] = "dns" -> Doh!DnsReads(sample[2])
      [] sample[1] = "dhcpv6" -> Dhcp6!Dhcp6Reads(sample[2])
      [] sample[1] = "sip" -> Sip!SipReads(sample[2])
      [] sample[1] = "mail" -> Mail!MailReads(sample[2])
      [] sample[1] = "netconf" -> Netconf!NetconfReads(sample[2])
      [] sample[1] = "armour" -> Pki!ArmourReads(sample[2])
      [] sample[1] = "status" -> Pki!StatusAsProvided(sample[2])
      [] OTHER -> part = "samples" => KrbTypes!KerberosNumbers /\ Ldap!LdapElements
\* An algorithm gives what its definition says.
AsDefined ==
    CASE sample[1] = "substring" -> Ldap!SubstringsMatch(sample[2])
      [] sample[1] = "walk" -> Snmp!WalkLists(sample[2])
      [] sample[1] = "report" -> ReportsScheduled(sample[2])
      [] sample[1] = "glob" -> Sieve!GlobFits(sample[2])
      [] sample[1] = "script" -> Sieve!ScriptRuns(sample[2])
      [] sample[1] = "float" -> Cbor!FloatShort(sample[2])
      [] sample[1] = "ospf" -> Ospf!ChecksumHolds(sample[2])
      [] sample[1] = "month" -> Doh!DaysFollow(sample[2])
      [] sample[1] = "digest" -> Otp!CodeIsTruncation(sample[2])
      [] sample[1] = "sip" -> Sip!DialogsMirror(sample[2])
      [] sample[1] = "mail" -> Mail!MailDates(sample[2])
      [] sample[1] = "path" -> Pki!PathsValid(sample[2])
      [] OTHER -> TRUE
\* HTTP: what is answered from the store is meant for such a request and within its lifetime; its tag is that of its body.
\* DoH: what a call returns answers its own query, and what is kept may be kept.
CacheHonest == Cache!CacheHonest /\ Doh!DohHonest
\* HTTP: the same of policies that were revalidated: "age advances over time".
NeverPastLifetime == Cache!NeverPastLifetime
=============================================================================
