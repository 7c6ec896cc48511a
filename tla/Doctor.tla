-------------------------------- MODULE Doctor --------------------------------
(***************************************************************************)
(* `muxi-acp doctor` (src/doctor.rs): the eight checks of `collect` in     *)
(* their order, what each leaves for the later ones, and the exit code.    *)
(* One action per check; the answers of the resolver, the network and the  *)
(* formation are external and arbitrary.  A result is the check's name,    *)
(* its status and, for a skip, the check its detail sends the reader to.   *)
(***************************************************************************)
EXTENDS ProfileConfig

CONSTANT Inputs   (* the config files and command lines doctor is run with   *)

ASSUME InputsAssumption == \A c \in Inputs : IsCommand(c)

VARIABLES
  command,       (* what doctor was run with                                  *)
  results,       (* the CheckResults pushed so far                            *)
  firstAddr,     (* first_addr is Some                                        *)
  originHttpOk   (* origin_http_ok                                            *)

vars == <<command, results, firstAddr, originHttpOk>>

Checks == <<"config", "tls-policy", "dns", "tcp+tls", "auth", "streaming",
            "cancellation", "identity">>
Statuses == {"pass", "warn", "fail", "skip"}
Result(check, status) == [check |-> check, status |-> status, see |-> "none"]
Skip(check, see) == [check |-> check, status |-> "skip", see |-> see]

Init ==
  /\ command \in Inputs
  /\ results = <<>>
  /\ firstAddr = FALSE /\ originHttpOk = FALSE

-----------------------------------------------------------------------------
profile == SelectProfile(command)
Done == Len(results) = Len(Checks)

(* The next check to run is the one the report has no line for yet.         *)
AtCheck(check) ==
  /\ ~Done
  /\ Checks[Len(results) + 1] = check

Push(result) == results' = Append(results, result)

Loads ==
  command.readable /\ SelectProfileOk(command) /\ ValidateEndpointOk(profile)

(* client_key is Some; the client built with the key, or with "".           *)
KeyResolved == ClientKeyReferenceOk(profile) /\ ResolveSecretOk(profile)
ClientBuilt == ClientFromProfileOk(profile)

(* mutant: the early return leaves the identity line out.                  *)
ConfigFailsShort ==
  /\ AtCheck("config") /\ ~Loads
  /\ results' = <<Result("config", "fail")>> \o
       [i \in 1..(Len(Checks) - 2) |-> Skip(Checks[i + 1], "config")]
  /\ UNCHANGED <<command, firstAddr, originHttpOk>>

ConfigFails ==
  /\ AtCheck("config") /\ ~Loads
  /\ results' = <<Result("config", "fail")>> \o
       [i \in 1..(Len(Checks) - 1) |-> Skip(Checks[i + 1], "config")]
  /\ UNCHANGED <<command, firstAddr, originHttpOk>>

(* mutant: a key that does not resolve is only worth a warning.            *)
ConfigWarns ==
  /\ AtCheck("config") /\ Loads
  /\ Push(Result("config", IF KeyResolved THEN "pass" ELSE "warn"))
  /\ UNCHANGED <<command, firstAddr, originHttpOk>>

Config ==
  /\ AtCheck("config") /\ Loads
  /\ Push(Result("config", IF KeyResolved THEN "pass" ELSE "fail"))
  /\ UNCHANGED <<command, firstAddr, originHttpOk>>

(* mutant: doctor accepts every plaintext loopback, opted in or not.       *)
TlsPolicyLenient ==
  /\ AtCheck("tls-policy")
  /\ Push(Result("tls-policy",
            IF \A url \in {profile.base_url, profile.server_url} :
                 url.scheme = "http" => IsLoopbackHost(url.rest)
            THEN "pass" ELSE "fail"))
  /\ UNCHANGED <<command, firstAddr, originHttpOk>>

TlsPolicy ==
  /\ AtCheck("tls-policy")
  /\ Push(Result("tls-policy",
            IF ValidateTransportSecurityOk(profile) THEN "pass" ELSE "fail"))
  /\ UNCHANGED <<command, firstAddr, originHttpOk>>

(* base_url when set, otherwise server_url.                                *)
EndpointUrl(p) == IF p.base_url # NoUrl THEN p.base_url ELSE p.server_url
EndpointOriginOk(p) ==
  EndpointUrl(p).scheme # "other" /\ EndpointOrigin(EndpointUrl(p).rest) # NoOrigin

Dns(resolves) ==
  /\ AtCheck("dns")
  /\ firstAddr' = (EndpointOriginOk(profile) /\ resolves)
  /\ Push(Result("dns", IF firstAddr' THEN "pass" ELSE "fail"))
  /\ UNCHANGED <<command, originHttpOk>>

(* mutant: an error status of the health probe counts as unreachable, and  *)
(* an unresolved key keeps the probe from being made.                      *)
TcpTlsNeedsKey(connects, roundTrip) ==
  /\ AtCheck("tcp+tls")
  /\ originHttpOk' = (firstAddr /\ connects /\ KeyResolved /\ roundTrip)
  /\ Push(IF ~firstAddr THEN Skip("tcp+tls", "dns")
          ELSE IF ~KeyResolved THEN Skip("tcp+tls", "config")
          ELSE Result("tcp+tls", IF originHttpOk' THEN "pass" ELSE "fail"))
  /\ UNCHANGED <<command, firstAddr>>

(* connects: within TCP_PROBE_TIMEOUT; roundTrip: any HTTP status at all.   *)
TcpTls(connects, roundTrip) ==
  /\ AtCheck("tcp+tls")
  /\ originHttpOk' = (firstAddr /\ connects /\ ClientBuilt /\ roundTrip)
  /\ Push(IF ~firstAddr THEN Skip("tcp+tls", "dns")
          ELSE Result("tcp+tls", IF originHttpOk' THEN "pass" ELSE "fail"))
  /\ UNCHANGED <<command, firstAddr>>

(* The arms of the two authenticated probes.                               *)
Authenticated(check, status) ==
  CASE ~ClientBuilt -> Result(check, "fail")
    [] ClientBuilt /\ ~KeyResolved -> Skip(check, "config")
    [] OTHER -> Result(check, status)

Auth(accepted) ==
  /\ AtCheck("auth")
  /\ Push(Authenticated("auth", IF accepted THEN "pass" ELSE "fail"))
  /\ UNCHANGED <<command, firstAddr, originHttpOk>>

Streaming ==
  /\ AtCheck("streaming")
  /\ Push(IF originHttpOk THEN Result("streaming", "pass")
          ELSE Skip("streaming", "tcp+tls"))
  /\ UNCHANGED <<command, firstAddr, originHttpOk>>

(* What the DELETE of an unknown request answered.                         *)
CancelAnswers == {"404", "400 or 405", "other status", "2xx", "unreachable"}
CancelStatus(reply) ==
  CASE reply = "404" -> "pass"
    [] reply = "400 or 405" -> "warn"
    [] OTHER -> "fail"

Cancellation(reply) ==
  /\ AtCheck("cancellation")
  /\ Push(Authenticated("cancellation", CancelStatus(reply)))
  /\ UNCHANGED <<command, firstAddr, originHttpOk>>

(* The tier it names is information (README.md) and left out.              *)
Identity ==
  /\ AtCheck("identity")
  /\ Push(Result("identity", "pass"))
  /\ UNCHANGED <<command, firstAddr, originHttpOk>>

Reported == Done /\ UNCHANGED vars

Next ==
  \/ ConfigFails \/ Config \/ TlsPolicy \/ Streaming \/ Identity \/ Reported
  \/ \E resolves \in BOOLEAN : Dns(resolves)
  \/ \E connects, roundTrip \in BOOLEAN : TcpTls(connects, roundTrip)
  \/ \E accepted \in BOOLEAN : Auth(accepted)
  \/ \E reply \in CancelAnswers : Cancellation(reply)

Spec == Init /\ [][Next]_vars

-----------------------------------------------------------------------------
ExitCode(R) == IF \E i \in DOMAIN R : R[i].status = "fail" THEN 1 ELSE 0

StatusOf(check) == results[SelectInSeq(results, LAMBDA r : r.check = check)].status

(* Whatever fails, a run goes on to a report with a line for each of the   *)
(* eight checks, once and in order.                                        *)
ReportComplete ==
  /\ \A i \in DOMAIN results : i <= Len(Checks) /\ results[i].check = Checks[i]
  /\ Done \/ \E check \in {Checks[i] : i \in DOMAIN Checks} :
               AtCheck(check) /\ (Loads \/ check = "config")

(* A skip never hides in a run that exits 0: the check it refers to comes  *)
(* before it and did not pass, and the exit code is 1.                     *)
SkipsExplained ==
  \A i \in DOMAIN results :
    results[i].status = "skip" =>
      /\ \E j \in 1..(i - 1) :
           results[j].check = results[i].see /\ results[j].status # "pass"
      /\ ExitCode(results) = 1

(* A profile doctor finds nothing wrong with is one `connect` starts with, *)
(* although the two check it in code of their own.  Doctor may well fail   *)
(* where `connect` starts: it asks the network, too.                       *)
ExitZeroMeansConnects ==
  Done /\ ExitCode(results) = 0 => BuildStateOk(command)

(* "An unresolved client key only degrades the auth/cancellation checks;   *)
(* transport probes proceed": only dns can keep the tcp+tls probe from     *)
(* being made, and streaming follows tcp+tls, key or no key.               *)
KeyOnlyDegrades ==
  Done /\ Loads =>
    /\ StatusOf("tcp+tls") = "skip" <=> StatusOf("dns") # "pass"
    /\ StatusOf("streaming") = "pass" <=> StatusOf("tcp+tls") = "pass"

(* What doctor resolves, and then opens a TCP connection to, is the host   *)
(* the transport check judged: whenever the dns check gets as far as an    *)
(* address, it is one of the host that check looked at, however the URL is *)
(* written.  The one exception is a colon with no port after it            *)
(* (EmptyPort).  The requests of the other probes go where the HTTP        *)
(* client's own parser points, of which this says nothing.                 *)
ResolvesCheckedHost ==
  LET url == EndpointUrl(profile) IN
  firstAddr /\ ~EmptyPort(url.rest) =>
    EndpointOrigin(url.rest).host = CheckedHost(url.rest)
=============================================================================
