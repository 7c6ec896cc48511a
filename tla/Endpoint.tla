------------------------------- MODULE Endpoint -------------------------------
(***************************************************************************)
(* The two readings of one endpoint URL: config.rs `is_loopback_host`,     *)
(* which decides whether a plaintext endpoint may be used at all, and      *)
(* doctor.rs `endpoint_origin`, which decides what doctor looks up and     *)
(* opens a TCP connection to.  Neither calls the other.  Every HTTP        *)
(* request, of doctor and of the bridge, goes where the HTTP client's own  *)
(* parser points: a third reading, outside src/ and not modelled.          *)
(*                                                                         *)
(* What follows `://` is a sequence of tokens.  A token is a separator the *)
(* two functions look for, a piece of a host name, or digits; IPv6         *)
(* addresses are put together from separators and digits.  Pure: no state. *)
(***************************************************************************)
EXTENDS Integers, Sequences, SequencesExt

CONSTANTS
  HostNames,    (* host names, "localhost" and the address 127.0.0.1 included *)
  LocalHosts    (* those of them that name this machine                       *)

ASSUME LocalHostsAssumption == LocalHosts \subseteq HostNames

(* "1" is a digit, "65536" any digits too many for a port; "/" stands for  *)
(* "?" and "#", too.                                                       *)
Digits == {"1", "65536"}
Separators == {":", "[", "]", "/"}
Tokens == HostNames \union Digits \union Separators
ASSUME HostNamesAssumption == HostNames \intersect (Digits \union Separators) = {}

-----------------------------------------------------------------------------
(* str::split(..).next, rsplit_once, strip_prefix and the test for digits. *)
UpTo(text, token) ==
  LET i == SelectInSeq(text, LAMBDA t : t = token)
  IN  IF i = 0 THEN text ELSE SubSeq(text, 1, i - 1)

From(text, i) == SubSeq(text, i, Len(text))
LastColon(text) == SelectLastInSeq(text, LAMBDA t : t = ":")
Starts(text, token) == text # <<>> /\ Head(text) = token
AllDigits(text) == ToSet(text) \subseteq Digits

(* A u16 that parses, as its own text; DefaultPort is the scheme's.        *)
PortParses(text) == text # <<>> /\ ToSet(text) \subseteq {"1"} /\ Len(text) <= 5
DefaultPort == <<"default">>

Authority(text) == UpTo(text, "/")

Loopback == {<<name>> : name \in LocalHosts} \union {<<":", ":", "1">>}

(* The host that is_loopback_host compares: an empty port is a port.       *)
CheckedHost(text) ==
  LET authority == Authority(text)
      colon == LastColon(authority)
  IN CASE Starts(authority, "[") -> UpTo(Tail(authority), "]")
       [] ~Starts(authority, "[") /\ colon > 0
          /\ AllDigits(From(authority, colon + 1)) -> SubSeq(authority, 1, colon - 1)
       [] OTHER -> authority

IsLoopbackHost(text) == CheckedHost(text) \in Loopback

NoOrigin == [host |-> <<>>, port |-> <<>>]
Origin(host, port) == [host |-> host, port |-> port]

BracketedOrigin(authority) ==
  LET close == SelectInSeq(authority, LAMBDA t : t = "]")
      after == From(authority, close + 1)
      host  == SubSeq(authority, 2, close - 1)
  IN CASE close = 0 -> NoOrigin
       [] close > 0 /\ ~Starts(after, ":") -> Origin(host, DefaultPort)
       [] OTHER -> IF PortParses(Tail(after)) THEN Origin(host, Tail(after)) ELSE NoOrigin

(* mutant: a port that does not parse is the default port.                 *)
LenientOrigin(authority) ==
  LET colon == LastColon(authority)
      port  == From(authority, colon + 1)
  IN IF colon > 0 /\ PortParses(port)
     THEN Origin(SubSeq(authority, 1, colon - 1), port)
     ELSE Origin(authority, DefaultPort)

PlainOrigin(authority) ==
  LET colon == LastColon(authority)
      port  == From(authority, colon + 1)
  IN CASE colon = 0 \/ ~AllDigits(port) \/ port = <<>> -> Origin(authority, DefaultPort)
       [] OTHER -> IF PortParses(port)
                   THEN Origin(SubSeq(authority, 1, colon - 1), port) ELSE NoOrigin

(* endpoint_origin past the scheme; NoOrigin stands for its errors.        *)
EndpointOrigin(text) ==
  LET authority == Authority(text)
  IN CASE authority = <<>> -> NoOrigin
       [] Starts(authority, "[") -> BracketedOrigin(authority)
       [] OTHER -> PlainOrigin(authority)

(* A colon with no port after it: is_loopback_host drops the colon, and    *)
(* endpoint_origin keeps it in the host.                                   *)
EmptyPort(text) == Authority(text) # <<>> /\ Last(Authority(text)) = ":"
=============================================================================
