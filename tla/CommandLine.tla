----------------------------- MODULE CommandLine -----------------------------
(***************************************************************************)
(* The upstreams on the command line (src/main.cpp): parse_upstream() and  *)
(* parse_port(), and the way an endpoint is written down again, in the     *)
(* Host header of a forwarded request (src/upstream_proxy.cpp).  Text is a *)
(* sequence of characters.                                                 *)
(***************************************************************************)
EXTENDS Integers, Sequences, FiniteSetsExt

CONSTANTS
  Symbols,       \* characters
  FromChars(_),  \* std::from_chars() of a text that is all digits
  ToText(_)      \* std::to_string() of a number

Digits == {"0", "1", "2", "3", "4", "5", "6", "7", "8", "9"}

ASSUME SymbolsAssumption == Digits \cup {"[", "]", ":"} \subseteq Symbols

LastPort == 65535
Ports == 1..LastPort

\* What is relied on of the two conversions of the standard library.
ASSUME ConversionAssumption ==
  \A n \in Ports :
    ToText(n) \in Seq(Digits) /\ ToText(n) # <<>> /\ FromChars(ToText(n)) = n

Places(text, c) == {i \in DOMAIN text : text[i] = c}
Find(text, c) == IF Places(text, c) = {} THEN 0 ELSE Min(Places(text, c))
RFind(text, c) == IF Places(text, c) = {} THEN 0 ELSE Max(Places(text, c))
IsNumber(text) == text # <<>> /\ \A i \in DOMAIN text : text[i] \in Digits

Rejected == [host |-> <<>>, port |-> 0]

-----------------------------------------------------------------------------

\* Mutant: the port is cut to 16 bits before it is checked.
ParsePortCut(text) == IF IsNumber(text) THEN FromChars(text) % 2^16 ELSE 0

\* parse_port(), 0 when it throws.  A number that does not fit an unsigned int
\* is an error of from_chars(), with the same outcome as one above 65535.
ParsePort(text) == IF IsNumber(text) /\ FromChars(text) \in Ports THEN FromChars(text) ELSE 0

MakeEndpoint(host, port) ==
  IF host = <<>> \/ ParsePort(port) = 0 THEN Rejected
  ELSE [host |-> host, port |-> ParsePort(port)]

ParseUpstream(text) ==
  LET closing_bracket == Find(text, "]")
      separator == RFind(text, ":")
  IN IF Find(text, "[") = 1
     THEN IF \/ closing_bracket = 0
             \/ closing_bracket = Len(text)
             \/ text[closing_bracket + 1] # ":"
          THEN Rejected
          ELSE MakeEndpoint(SubSeq(text, 2, closing_bracket - 1),
                            SubSeq(text, closing_bracket + 2, Len(text)))
     ELSE IF separator = 0 \/ Find(text, ":") # separator THEN Rejected
     ELSE MakeEndpoint(SubSeq(text, 1, separator - 1), SubSeq(text, separator + 1, Len(text)))

\* upstream_host_header()
HostHeader(e) ==
  IF Find(e.host, ":") # 0
  THEN <<"[">> \o e.host \o <<"]", ":">> \o ToText(e.port)
  ELSE e.host \o <<":">> \o ToText(e.port)

-----------------------------------------------------------------------------

IsPlain(host) == host # <<>> /\ host[1] # "[" /\ Places(host, ":") = {}
IsBracketed(host) == Len(host) > 2 /\ host[1] = "[" /\ Places(host, "]") = {Len(host)}

LeftOf(text, i) == SubSeq(text, 1, i - 1)
RightOf(text, i) == SubSeq(text, i + 1, Len(text))

\* The grammar the usage message means: host:port, where the host has no colon
\* and does not start with a bracket, or [address]:port.  The colon at j is the one
\* that separates the two.
Separates(text, j) ==
  /\ j \in Places(text, ":")
  /\ IsPlain(LeftOf(text, j)) \/ IsBracketed(LeftOf(text, j))
  /\ IsNumber(RightOf(text, j)) /\ FromChars(RightOf(text, j)) \in Ports
Reading(text, j) ==
  [host |-> IF IsPlain(LeftOf(text, j)) THEN LeftOf(text, j) ELSE SubSeq(text, 2, j - 2),
   port |-> FromChars(RightOf(text, j))]
Readings(text) == {Reading(text, j) : j \in {k \in DOMAIN text : Separates(text, k)}}
=============================================================================
