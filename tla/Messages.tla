------------------------------ MODULE Messages ------------------------------
(***************************************************************************)
(* An upstream is read from the command line, a request is rewritten for   *)
(* it and a response for the client (src/upstream_proxy.cpp, run() and     *)
(* on_read()); a session fits a response to its own client and decides     *)
(* whether the cache may have it (src/http_session.cpp).  A header is a    *)
(* name and a value; a value is a sequence of symbols: commas, blanks and  *)
(* whole words, or the characters of an endpoint.  A list of headers is a  *)
(* function of their places, of which only the order matters: what is      *)
(* erased leaves a gap.                                                    *)
(***************************************************************************)
EXTENDS CommandLine

CONSTANT Inputs    \* an argument, headers, and whether there is a body

Fields == Seq([name : Symbols, value : Seq(Symbols)])

ASSUME InputsAssumption ==
  Inputs \subseteq [argument : Seq(Symbols), headers : Fields, body : BOOLEAN]

VARIABLES
  phase,     \* argument, rejected; request, forwarded, thrown; response, returned, written
  argument,  \* the upstream on the command line
  endpoint,  \* what parse_upstream() made of it
  input,     \* the headers the message came with
  body,      \* it has a body, or its method calls for a length anyway (POST, PUT, OPTIONS)
  unread,    \* Connection headers the loop over the headers has not done with
  start,     \* where the loop over the value of the first of them is
  tokens,    \* connection_tokens
  headers,   \* the headers of the message now
  version,   \* its HTTP version now
  client     \* the client a response was last fitted to: version and keep-alive

scan == <<unread, start, tokens>>
messageVars == <<phase, argument, endpoint, input, body, scan, headers, version, client>>

Clients == [version : {10, 11}, keep_alive : BOOLEAN]

Comma == ","
Blank == " "

Header(name, value) == [name |-> name, value |-> value]
Of(hs, name) == {i \in DOMAIN hs : hs[i].name = name}

-----------------------------------------------------------------------------

\* External (Beast): erase() removes every header of the name, and set() replaces
\* them by one at the end.
Erase(hs, name) == RestrictValues(hs, LAMBDA h : h.name # name)
Set(hs, name, value) ==
  LET end == Max(DOMAIN hs \cup {0}) + 1 IN
  [i \in DOMAIN Erase(hs, name) \cup {end} |->
     IF i = end THEN Header(name, value) ELSE hs[i]]

\* External (Beast): keep_alive(bool) takes "close" and "keep-alive" out of the
\* Connection header and adds the one that the version does not imply.
KeepAlive(hs, v, keep) ==
  IF v = 11 /\ ~keep THEN Set(hs, "connection", <<"close">>)
  ELSE IF v = 10 /\ keep THEN Set(hs, "connection", <<"keep-alive">>)
  ELSE Erase(hs, "connection")

\* External (Beast): prepare_payload() of a request and of a response, when it
\* does not throw.
PrepareRequest(hs, b) ==
  IF b THEN Set(hs, "content-length", <<"n">>) ELSE Erase(hs, "content-length")
PrepareResponse(hs) == Set(hs, "content-length", <<"n">>)

-----------------------------------------------------------------------------

\* An argument and a request, or a response of any upstream.
MessageInit ==
  /\ \E i \in Inputs :
       /\ input = i.headers
       /\ \/ /\ phase = "argument" /\ argument = i.argument /\ body = i.body
             /\ client = [version |-> 11, keep_alive |-> TRUE]
          \/ /\ phase = "response" /\ argument = <<>> /\ body = TRUE
             /\ client \in Clients
  /\ endpoint = Rejected
  /\ unread = Of(input, "connection") /\ start = 1 /\ tokens = {}
  /\ headers = input
  /\ version = 11

\* main(): the upstream is parsed, or an exception ends the program.
Parse ==
  /\ phase = "argument"
  /\ endpoint' = ParseUpstream(argument)
  /\ phase' = IF endpoint' = Rejected THEN "rejected" ELSE "request"
  /\ UNCHANGED <<argument, input, body, scan, headers, version, client>>

\* Mutant: the blanks after a token are not taken off.
TokenOfUntrimmed(value, from, end) ==
  LET token == SubSeq(value, from, end - 1)
      solid == {i \in DOMAIN token : token[i] # Blank}
  IN  IF solid = {} THEN {} ELSE {SubSeq(token, Min(solid), Len(token))}

\* The token between `from' and `end', without the blanks around it, if there is one.
TokenOf(value, from, end) ==
  LET token == SubSeq(value, from, end - 1)
      solid == {i \in DOMAIN token : token[i] # Blank}
  IN  IF solid = {} THEN {} ELSE {SubSeq(token, Min(solid), Max(solid))}

\* remove_hop_by_hop_headers(): a turn of the loop over the value of the next
\* Connection header.
ScanToken ==
  /\ phase \in {"request", "response"}
  /\ unread # {}
  /\ LET h == Min(unread)
         value == headers[h].value
         commas == {i \in Places(value, Comma) : start <= i}
         end == IF commas = {} THEN Len(value) + 1 ELSE Min(commas)
         done == start > Len(value) \/ commas = {}
     IN /\ tokens' = tokens \cup (IF start > Len(value) THEN {} ELSE TokenOf(value, start, end))
        /\ unread' = IF done THEN unread \ {h} ELSE unread
        /\ start' = IF done THEN 1 ELSE end + 1
  /\ UNCHANGED <<phase, argument, endpoint, input, body, headers, version, client>>

HopByHop ==
  {"connection", "keep-alive", "proxy-authenticate", "proxy-authorization", "te", "trailer",
   "transfer-encoding", "upgrade"}

\* The rest of remove_hop_by_hop_headers(), when the loops have ended.
RemoveHopByHopHeaders(hs) ==
  RestrictValues(hs, LAMBDA h : h.name \notin HopByHop /\ <<h.name>> \notin tokens)

\* Mutant: Host is set before the headers of the connection are removed.
RewriteHostFirst(hs, upstream, b) ==
  LET kept == RemoveHopByHopHeaders(Set(hs, "host", HostHeader(upstream)))
  IN  PrepareRequest(Set(KeepAlive(kept, 11, FALSE), "connection", <<"close">>), b)

\* run(): the headers of the request that is sent upstream.
Rewrite(hs, upstream, b) ==
  LET kept == Set(RemoveHopByHopHeaders(hs), "host", HostHeader(upstream))
  IN  PrepareRequest(Set(KeepAlive(kept, 11, FALSE), "connection", <<"close">>), b)

Run ==
  /\ phase = "request" /\ unread = {}
  /\ phase' = "forwarded"
  /\ headers' = Rewrite(headers, endpoint, body)
  /\ version' = 11
  /\ UNCHANGED <<argument, endpoint, input, body, scan, client>>

\* run(): prepare_payload() throws for a TRACE request that has a body.  The method
\* is not in the model, so that any body may be such a one.  The request is gone, and
\* the exception leaves the session's handler (ServerLifecycle, Throw).
RunThrows ==
  /\ phase = "request" /\ unread = {} /\ body
  /\ phase' = "thrown"
  /\ UNCHANGED <<argument, endpoint, input, body, scan, headers, version, client>>

\* on_read() of the proxy: the response as it is handed to the session that
\* asked for it.
ReadResponse ==
  /\ phase = "response" /\ unread = {}
  /\ phase' = "returned"
  /\ headers' = PrepareResponse(
                  KeepAlive(RemoveHopByHopHeaders(headers), client.version, client.keep_alive))
  /\ version' = client.version
  /\ UNCHANGED <<argument, endpoint, input, body, scan, client>>

\* Mutant: a session writes a shared response the way the leader's client had it.
FitKeepingLeader(hs, c) == hs

Fit(hs, c) == KeepAlive(hs, c.version, c.keep_alive)

\* write_response_for_current_request(): the response of a flight, or of the
\* cache, is fitted to the client at hand.
WriteForCurrentRequest ==
  /\ phase = "returned"
  /\ phase' = "written"
  /\ client' \in Clients
  /\ headers' = Fit(headers, client')
  /\ version' = client'.version
  /\ UNCHANGED <<argument, endpoint, input, body, scan>>

Settled == phase \in {"rejected", "forwarded", "thrown", "written"} /\ UNCHANGED messageVars

MessageNext ==
  Parse \/ ScanToken \/ Run \/ RunThrows \/ ReadResponse \/ WriteForCurrentRequest \/ Settled

MessageSpec == MessageInit /\ [][MessageNext]_messageVars

\* cacheable_response(), of a response with status 200: operator[] finds the
\* first Cache-Control header only.
CacheableResponse(hs) ==
  /\ Of(hs, "set-cookie") = {}
  /\ Of(hs, "cache-control") # {} =>
       Range(hs[Min(Of(hs, "cache-control"))].value) \cap {"no-store", "private"} = {}

-----------------------------------------------------------------------------

\* The names a Connection header nominates: words with a comma between them and
\* every other word.
Nominates(value, name) ==
  \E i \in Places(value, name) :
    /\ name \notin {Comma, Blank}
    /\ \A j \in DOMAIN value \ {i} :
         value[j] = Blank \/ \E k \in Places(value, Comma) : k \in (i..j) \cup (j..i)

\* The headers a proxy sets itself, and the others that are for the other end.
Framing == {"host", "connection", "content-length"}
EndToEnd(name) ==
  /\ name \notin HopByHop \cup Framing
  /\ \A i \in Of(input, "connection") : ~Nominates(input[i].value, name)

\* parse_upstream() accepts exactly the texts of the grammar and returns the
\* host and the port they denote, at the ends of the range and with leading
\* zeros too; it rejects the rest.
ParsesExactly ==
  phase \in {"request", "rejected"} =>
    {endpoint} = IF Readings(argument) = {} THEN {Rejected} ELSE Readings(argument)

\* Every end-to-end header goes through unchanged and in its place, and of the
\* others none does: neither a header of the connection nor one that any of its
\* Connection headers nominates.
EndToEndOnly ==
  phase \in {"forwarded", "returned", "written"} =>
    RestrictValues(headers, LAMBDA h : h.name \notin Framing)
      = RestrictValues(input, LAMBDA h : EndToEnd(h.name))

\* An upstream is sent exactly one Host, which reads back as the endpoint it was
\* configured as (an IPv6 address included; a host that itself starts with a
\* bracket is none), one Connection, close, and a length exactly when the message
\* calls for one, whatever the Connection headers of the client nominate.
UpstreamFraming ==
  phase = "forwarded" =>
    /\ \E i \in DOMAIN headers :
         /\ Of(headers, "host") = {i}
         /\ endpoint.host[1] # "[" => ParseUpstream(headers[i].value) = endpoint
    /\ \E i \in DOMAIN headers :
         Of(headers, "connection") = {i} /\ headers[i].value = <<"close">>
    /\ IF body THEN \E i \in DOMAIN headers : Of(headers, "content-length") = {i}
       ELSE Of(headers, "content-length") = {}

\* A response is framed for the client that receives it: a waiter or a client
\* served from the cache sees no trace of the version and keep-alive of the
\* client the response was fetched for.  Connection says what the version does not.
ClientFraming ==
  phase \in {"returned", "written"} =>
    /\ version = client.version
    /\ IF client.keep_alive <=> version = 11 THEN Of(headers, "connection") = {}
       ELSE \E i \in DOMAIN headers :
              /\ Of(headers, "connection") = {i}
              /\ headers[i].value = <<IF client.keep_alive THEN "keep-alive" ELSE "close">>
    /\ \E i \in DOMAIN headers : Of(headers, "content-length") = {i}

\* A response that marks itself no-store or private in a Cache-Control header is
\* not stored.
MarkedNotStored ==
  phase = "returned" /\ CacheableResponse(headers) =>
    \A i \in Of(headers, "cache-control") :
      Range(headers[i].value) \cap {"no-store", "private"} = {}
=============================================================================
