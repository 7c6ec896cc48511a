----------------------------- MODULE DoctorProofs -----------------------------
(***************************************************************************)
(* What doctor reports, for every configuration and command line and every *)
(* answer of the network: the theorems behind the run of MCDoctor.         *)
(***************************************************************************)
EXTENDS Doctor, FoldLemmas, SequenceTheorems

-----------------------------------------------------------------------------
(* The two readings of a URL.                                              *)

(* A text up to its first token of a kind.                                 *)
LEMMA UpToFirst ==
  ASSUME NEW text \in Seq(Tokens), NEW token
  PROVE  /\ UpTo(text, token) \in Seq(Tokens)
         /\ \A close \in 1 .. Len(text) :
              text[close] = token /\ (\A i \in 1 .. close - 1 : text[i] # token) =>
                UpTo(text, token) = SubSeq(text, 1, close - 1)
<1> DEFINE I == {i \in 1 .. Len(text) : text[i] = token}
<1> DEFINE first == SelectInSeq(text, LAMBDA t : t = token)
<1>0. UpTo(text, token) = IF first = 0 THEN text ELSE SubSeq(text, 1, first - 1)
  BY DEF UpTo
<1>1. first = IF I # {} THEN Min(I) ELSE 0
  BY DEF SelectInSeq
<1> HIDE DEF first
<1>2. I \in SUBSET Nat
  OBVIOUS
<1>3. ASSUME I # {} PROVE Min(I) \in 1 .. Len(text)
  BY <1>2, <1>3, MinOfNats
<1>4. UpTo(text, token) \in Seq(Tokens)
  <2>1. CASE I = {}
    BY <1>0, <1>1, <2>1
  <2>2. CASE I # {}
    <3>1. first \in 1 .. Len(text)
      BY <1>1, <1>3, <2>2
    <3> HIDE DEF I
    <3> QED BY <1>0, <3>1
  <2> QED BY <2>1, <2>2
<1>5. ASSUME NEW close \in 1 .. Len(text), text[close] = token,
             \A i \in 1 .. close - 1 : text[i] # token
      PROVE  UpTo(text, token) = SubSeq(text, 1, close - 1)
  <2>1. close \in I
    BY <1>5
  <2>2. \A i \in I : close <= i
    BY <1>5
  <2>3. Min(I) = close
    BY <1>2, <2>1, <2>2, MinIs
  <2> HIDE DEF I
  <2> QED BY <1>0, <1>1, <2>1, <2>3
<1> QED BY <1>4, <1>5

(* Inside brackets: the text between the first and the first closing one,  *)
(* whether it is counted from the bracket or from after it.                *)
LEMMA BracketedHost ==
  ASSUME NEW authority \in Seq(Tokens), Starts(authority, "["),
         BracketedOrigin(authority) # NoOrigin
  PROVE  BracketedOrigin(authority).host = UpTo(Tail(authority), "]")
<1> DEFINE I == {i \in 1 .. Len(authority) : authority[i] = "]"}
<1> DEFINE close == SelectInSeq(authority, LAMBDA t : t = "]")
<1>1. close = IF I # {} THEN Min(I) ELSE 0
  BY DEF SelectInSeq
<1>2. close # 0
  BY DEF BracketedOrigin
<1>3. close \in I /\ \A i \in I : close <= i
  BY <1>1, <1>2, MinOfNats
<1>4. BracketedOrigin(authority).host = SubSeq(authority, 2, close - 1)
  <2> HIDE DEF close
  <2> QED BY <1>2 DEF BracketedOrigin, Origin, NoOrigin, close
<1>5. authority # <<>> /\ authority[1] = "["
  BY DEF Starts
<1>6. close \in 2 .. Len(authority)
  BY <1>3, <1>5
<1> DEFINE tail == Tail(authority)
<1>7. /\ tail \in Seq(Tokens) /\ Len(tail) = Len(authority) - 1
      /\ \A i \in 1 .. Len(tail) : tail[i] = authority[i + 1]
  BY <1>5
<1>8. /\ close - 1 \in 1 .. Len(tail) /\ tail[close - 1] = "]"
      /\ \A i \in 1 .. close - 2 : tail[i] # "]"
  BY <1>3, <1>6, <1>7
<1>9. UpTo(tail, "]") = SubSeq(tail, 1, close - 2)
  <2> HIDE DEF close, tail
  <2> QED BY <1>6, <1>7, <1>8, UpToFirst
<1>10. SubSeq(tail, 1, close - 2) = SubSeq(authority, 2, close - 1)
  <2> HIDE DEF close
  <2> QED BY <1>6, <1>7
<1> QED BY <1>4, <1>9, <1>10

(* Outside brackets: both cut at the last colon, or at none.               *)
LEMMA PlainHost ==
  ASSUME NEW authority \in Seq(Tokens), authority # <<>>,
         Last(authority) # ":", PlainOrigin(authority) # NoOrigin
  PROVE  PlainOrigin(authority).host =
           LET colon == LastColon(authority) IN
           IF colon > 0 /\ AllDigits(From(authority, colon + 1))
           THEN SubSeq(authority, 1, colon - 1) ELSE authority
<1> DEFINE I == {i \in 1 .. Len(authority) : authority[i] = ":"}
<1> DEFINE colon == LastColon(authority)
<1> DEFINE port == From(authority, colon + 1)
<1>1. colon = IF I # {} THEN Max(I) ELSE 0
  BY DEF LastColon, SelectLastInSeq
<1>2. Len(authority) \in Nat /\ I \in SUBSET (1 .. Len(authority))
  OBVIOUS
<1>3. colon = 0 \/ colon \in I
  BY <1>1, <1>2, MaxOfBounded
<1>4. authority[Len(authority)] # ":"
  BY DEF Last
<1>5. colon = 0 \/ (colon \in 1 .. Len(authority) - 1)
  BY <1>3, <1>4
<1>6. colon > 0 => port # <<>>
  <2> HIDE DEF colon
  <2>1. SUFFICES ASSUME colon > 0 PROVE Len(port) # 0
    OBVIOUS
  <2> QED BY <1>5, <2>1 DEF From
<1>7. CASE colon = 0 \/ ~AllDigits(port)
  <2>1. PlainOrigin(authority) = Origin(authority, DefaultPort)
    BY <1>7 DEF PlainOrigin
  <2>2. PlainOrigin(authority).host = authority
    BY <2>1 DEF Origin
  <2> QED BY <1>5, <1>7, <2>2
<1>8. CASE colon > 0 /\ AllDigits(port)
  <2>1. PlainOrigin(authority) =
          IF PortParses(port) THEN Origin(SubSeq(authority, 1, colon - 1), port) ELSE NoOrigin
    <3>1. colon # 0 /\ port # <<>>
      BY <1>6, <1>8
    <3> QED BY <1>8, <3>1 DEF PlainOrigin
  <2> HIDE DEF colon, port
  <2>2. PlainOrigin(authority) = Origin(SubSeq(authority, 1, colon - 1), port)
    BY <2>1
  <2>3. Origin(SubSeq(authority, 1, colon - 1), port).host = SubSeq(authority, 1, colon - 1)
    BY DEF Origin
  <2> QED BY <1>8, <2>2, <2>3 DEF colon, port
<1> QED BY <1>5, <1>7, <1>8

(* Where endpoint_origin finds a host, is_loopback_host looked at that one. *)
LEMMA OneHost ==
  ASSUME NEW text \in Seq(Tokens), EndpointOrigin(text) # NoOrigin, ~EmptyPort(text)
  PROVE  EndpointOrigin(text).host = CheckedHost(text)
<1> DEFINE authority == Authority(text)
<1>1. authority \in Seq(Tokens)
  BY UpToFirst DEF Authority
<1>2. authority # <<>> /\ Last(authority) # ":"
  <2>1. authority # <<>>
    BY DEF EndpointOrigin, Starts
  <2> QED BY <2>1 DEF EmptyPort
<1>3. CASE Starts(authority, "[")
  <2>1. EndpointOrigin(text) = BracketedOrigin(authority)
    BY <1>2, <1>3 DEF EndpointOrigin
  <2>2. CheckedHost(text) = UpTo(Tail(authority), "]")
    BY <1>3 DEF CheckedHost
  <2> HIDE DEF authority
  <2> QED BY <1>1, <1>3, <2>1, <2>2, BracketedHost
<1>4. CASE ~Starts(authority, "[")
  <2>1. EndpointOrigin(text) = PlainOrigin(authority)
    BY <1>2, <1>4 DEF EndpointOrigin
  <2>2. CheckedHost(text) =
          LET colon == LastColon(authority) IN
          IF colon > 0 /\ AllDigits(From(authority, colon + 1))
          THEN SubSeq(authority, 1, colon - 1) ELSE authority
    BY <1>4 DEF CheckedHost
  <2> HIDE DEF authority
  <2> QED BY <1>1, <1>2, <2>1, <2>2, PlainHost
<1> QED BY <1>3, <1>4

-----------------------------------------------------------------------------
(* The report.                                                             *)

CheckNames == {"config", "tls-policy", "dns", "tcp+tls", "auth", "streaming",
               "cancellation", "identity", "none"}
CheckResults == [check : CheckNames, status : Statuses, see : CheckNames]

(* The checks by their numbers.                                            *)
LEMMA EightChecks ==
  /\ Len(Checks) = 8 /\ DOMAIN Checks = 1 .. 8
  /\ Checks[1] = "config" /\ Checks[2] = "tls-policy" /\ Checks[3] = "dns"
  /\ Checks[4] = "tcp+tls" /\ Checks[5] = "auth" /\ Checks[6] = "streaming"
  /\ Checks[7] = "cancellation" /\ Checks[8] = "identity"
  BY DEF Checks

(* No two of them have the same name.                                      *)
LEMMA ChecksDiffer == \A i, j \in 1 .. 8 : Checks[i] = Checks[j] => i = j
<1> SUFFICES ASSUME NEW i \in 1 .. 8, NEW j \in 1 .. 8, Checks[i] = Checks[j]
             PROVE  i = j
  OBVIOUS
<1>1. i \in {1, 2, 3, 4, 5, 6, 7, 8} /\ j \in {1, 2, 3, 4, 5, 6, 7, 8}
  OBVIOUS
<1> QED BY <1>1, EightChecks

(* Whether r is what a run whose configuration loads has on line i.        *)
Expected(i, r) ==
  /\ i = 1 => r = Result("config", IF KeyResolved THEN "pass" ELSE "fail")
  /\ i = 2 => r = Result("tls-policy",
                    IF ValidateTransportSecurityOk(profile) THEN "pass" ELSE "fail")
  /\ i = 3 => r = Result("dns", IF firstAddr THEN "pass" ELSE "fail")
  /\ i = 4 => r = IF ~firstAddr THEN Skip("tcp+tls", "dns")
                 ELSE Result("tcp+tls", IF originHttpOk THEN "pass" ELSE "fail")
  /\ i = 5 => \E status \in {"pass", "fail"} : r = Authenticated("auth", status)
  /\ i = 6 => r = IF originHttpOk THEN Result("streaming", "pass")
                 ELSE Skip("streaming", "tcp+tls")
  /\ i = 7 => \E status \in {"pass", "warn", "fail"} : r = Authenticated("cancellation", status)
  /\ i = 8 => r = Result("identity", "pass")

(* A run that does not load its configuration fails and skips the rest.    *)
NotLoaded(i, r) ==
  /\ i = 1 => r = Result("config", "fail")
  /\ i # 1 => r = Skip(Checks[i], "config")

Report ==
  /\ command \in Inputs
  /\ results \in Seq(CheckResults)
  /\ Len(results) <= 8
  /\ Loads => \A i \in 1 .. Len(results) : Expected(i, results[i])
  /\ ~Loads => /\ Len(results) \in {0, 8}
               /\ \A i \in 1 .. Len(results) : NotLoaded(i, results[i])
  /\ firstAddr => Loads /\ EndpointOriginOk(profile)
  /\ originHttpOk => firstAddr /\ Len(results) >= 4

(* A report has eight lines or less.                                       *)
LEMMA ReportLines ==
  ASSUME Report
  PROVE  results \in Seq(CheckResults) /\ Len(results) \in 0 .. 8
         /\ DOMAIN results = 1 .. Len(results)
<1>1. results \in Seq(CheckResults)
  BY DEF Report
<1> DEFINE n == Len(results)
<1>2. n \in Nat /\ DOMAIN results = 1 .. n
  BY <1>1
<1>3. n <= 8
  BY DEF Report
<1> HIDE DEF n
<1>4. n \in 0 .. 8
  BY <1>2, <1>3
<1> QED BY <1>1, <1>2, <1>4 DEF n

(* Every line names its check.                                             *)
LEMMA LineNamesCheck ==
  ASSUME NEW i \in 1 .. 8, NEW r, Expected(i, r) \/ NotLoaded(i, r)
  PROVE  r.check = Checks[i]
<1>1. ASSUME NEW status, r = Authenticated("auth", status) PROVE r.check = "auth"
  BY <1>1 DEF Authenticated, Result, Skip
<1>2. ASSUME NEW status, r = Authenticated("cancellation", status)
      PROVE  r.check = "cancellation"
  BY <1>2 DEF Authenticated, Result, Skip
<1>3. CASE NotLoaded(i, r)
  BY <1>3, EightChecks DEF NotLoaded, Result, Skip
<1>4. CASE Expected(i, r)
  <2>1. i = 1 => r.check = "config"
    BY <1>4 DEF Expected, Result
  <2>2. i = 2 => r.check = "tls-policy"
    BY <1>4 DEF Expected, Result
  <2>3. i = 3 => r.check = "dns"
    BY <1>4 DEF Expected, Result
  <2>4. i = 4 => r.check = "tcp+tls"
    BY <1>4 DEF Expected, Result, Skip
  <2>5. i = 5 => r.check = "auth"
    BY <1>1, <1>4 DEF Expected
  <2>6. i = 6 => r.check = "streaming"
    BY <1>4 DEF Expected, Result, Skip
  <2>7. i = 7 => r.check = "cancellation"
    BY <1>2, <1>4 DEF Expected
  <2>8. i = 8 => r.check = "identity"
    BY <1>4 DEF Expected, Result
  <2> QED BY <2>1, <2>2, <2>3, <2>4, <2>5, <2>6, <2>7, <2>8, EightChecks
<1> QED BY <1>3, <1>4

(* The configuration and the command line stay what they are.              *)
LEMMA SameCommand ==
  ASSUME command' = command
  PROVE  /\ profile' = profile
         /\ Loads' = Loads /\ KeyResolved' = KeyResolved /\ ClientBuilt' = ClientBuilt
         /\ ValidateTransportSecurityOk(profile)' = ValidateTransportSecurityOk(profile)
         /\ EndpointOriginOk(profile)' = EndpointOriginOk(profile)
         /\ \A check, status : Authenticated(check, status)' = Authenticated(check, status)
<1>1. profile' = profile
  BY DEF profile
<1>2. Loads' = Loads
  BY <1>1 DEF Loads
<1>3. KeyResolved' = KeyResolved /\ ClientBuilt' = ClientBuilt
  BY <1>1 DEF KeyResolved, ClientBuilt
<1>4. \A check, status : Authenticated(check, status)' = Authenticated(check, status)
  BY <1>3 DEF Authenticated
<1> QED BY <1>1, <1>2, <1>3, <1>4

(* The lines in front of a check do not depend on what it finds out.       *)
LEMMA EarlierLines ==
  ASSUME command' = command, NEW k \in 1 .. 8,
         k >= 4 => firstAddr' = firstAddr, k >= 5 => originHttpOk' = originHttpOk
  PROVE  \A i \in 1 .. (k - 1) : \A r : Expected(i, r) => Expected(i, r)'
<1> SUFFICES ASSUME NEW i \in 1 .. (k - 1), NEW r, Expected(i, r)
             PROVE  Expected(i, r)'
  OBVIOUS
<1>1. i >= 3 => firstAddr' = firstAddr
  OBVIOUS
<1>2. i >= 4 => originHttpOk' = originHttpOk
  OBVIOUS
<1> QED BY <1>1, <1>2, SameCommand DEF Expected

(* A check is run when the lines in front of it are there.                 *)
LEMMA AtLine ==
  ASSUME Report, NEW k \in 1 .. 8, AtCheck(Checks[k])
  PROVE  /\ Len(results) = k - 1
         /\ k > 1 => Loads
<1> DEFINE n == Len(results)
<1>1. n \in 0 .. 8
  BY ReportLines
<1>2. n # 8 /\ Checks[n + 1] = Checks[k]
  BY EightChecks DEF AtCheck, Done
<1>3. k > 1 /\ n \notin {0, 8} => Loads
  BY DEF Report
<1> HIDE DEF n
<1>4. n + 1 \in 1 .. 8
  BY <1>1, <1>2
<1>5. n + 1 = k
  <2> DEFINE next == n + 1
  <2> HIDE DEF next
  <2>1. next = k
    BY <1>2, <1>4, ChecksDiffer DEF next
  <2> QED BY <2>1 DEF next
<1>6. n = k - 1
  BY <1>1, <1>5
<1>7. k > 1 => Loads
  BY <1>2, <1>3, <1>6
<1> QED BY <1>6, <1>7 DEF n

(* A check that pushes the line expected of it keeps the report in order.  *)
LEMMA PushedLine ==
  ASSUME Report, UNCHANGED command,
         NEW k \in 1 .. 8, AtCheck(Checks[k]), k = 1 => Loads,
         k >= 4 => firstAddr' = firstAddr, k >= 5 => originHttpOk' = originHttpOk,
         firstAddr' => EndpointOriginOk(profile), originHttpOk' => firstAddr',
         k < 4 => ~originHttpOk',
         NEW r \in CheckResults,
         Push(r), Expected(k, r)'
  PROVE  Report'
<1>1. Len(results) = k - 1 /\ Loads
  BY AtLine
<1>2. results' = Append(results, r)
  BY DEF Push
<1>3. /\ results' \in Seq(CheckResults)
      /\ Len(results') = k
      /\ \A i \in 1 .. (k - 1) : results'[i] = results[i]
      /\ results'[k] = r
  BY <1>1, <1>2, ReportLines
<1>4. \A i \in 1 .. (k - 1) : \A line : Expected(i, line) => Expected(i, line)'
  BY EarlierLines
<1>5. \A i \in 1 .. (k - 1) : Expected(i, results[i])
  BY <1>1 DEF Report
<1>6. \A i \in 1 .. Len(results') : Expected(i, results[i])'
  BY <1>3, <1>4, <1>5
<1>7. command' \in Inputs /\ Loads'
  BY <1>1, SameCommand DEF Report
<1> QED BY <1>3, <1>6, <1>7, SameCommand DEF Report

(* Every line of a report is the expected one.                             *)
LEMMA ReportInvariant == Spec => []Report
<1>1. Init => Report
  BY DEF Init, Report, Expected
<1>2. Report /\ [Next]_vars => Report'
  <2> SUFFICES ASSUME Report, [Next]_vars PROVE Report'
    OBVIOUS
  <2>1. CASE Reported \/ UNCHANGED vars
    <3>1. UNCHANGED vars
      BY <2>1 DEF Reported
    <3>2. \A i, r : Expected(i, r) => Expected(i, r)'
      BY <3>1, SameCommand DEF vars, Expected
    <3> QED BY <3>1, <3>2, SameCommand DEF Report, vars, NotLoaded
  <2>2. CASE ConfigFails
    <3>1. Checks[1] = "config" /\ AtCheck("config")
      BY <2>2, EightChecks DEF ConfigFails
    <3>2. Len(results) = 0 /\ ~Loads
      BY <2>2, <3>1, AtLine DEF ConfigFails
    <3> DEFINE rest == [i \in 1 .. (Len(Checks) - 1) |-> Skip(Checks[i + 1], "config")]
    <3>3. Len(Checks) = 8 /\ \A i \in 1 .. 8 : Skip(Checks[i], "config") \in CheckResults
      BY EightChecks DEF Skip, CheckResults, CheckNames, Statuses
    <3>4. rest \in Seq(CheckResults) /\ Len(rest) = 7
      BY <3>3
    <3>5. \A i \in 1 .. 7 : rest[i] = Skip(Checks[i + 1], "config")
      BY <3>3
    <3>6. results' = <<Result("config", "fail")>> \o rest
      BY <2>2 DEF ConfigFails
    <3> HIDE DEF rest
    <3>7. Result("config", "fail") \in CheckResults
      BY DEF Result, CheckResults, CheckNames, Statuses
    <3>8. /\ results' \in Seq(CheckResults)
          /\ Len(results') = 8
          /\ results'[1] = Result("config", "fail")
          /\ \A i \in 2 .. 8 : results'[i] = rest[i - 1]
      <4> DEFINE first == <<Result("config", "fail")>>
      <4>1. first \in Seq(CheckResults) /\ Len(first) = 1 /\ first[1] = Result("config", "fail")
        BY <3>7
      <4>2. results' = first \o rest
        BY <3>6
      <4> HIDE DEF first
      <4> DEFINE report == first \o rest
      <4>3. report \in Seq(CheckResults)
        BY <3>4, <4>1, ConcatProperties
      <4>4. Len(report) = Len(first) + Len(rest)
        BY <3>4, <4>1, ConcatProperties
      <4>5. \A i \in 1 .. Len(first) + Len(rest) :
              report[i] = IF i <= Len(first) THEN first[i] ELSE rest[i - Len(first)]
        BY <3>4, <4>1, ConcatProperties
      <4> HIDE DEF report
      <4>6. Len(report) = 8
        BY <3>4, <4>1, <4>4
      <4>7. report[1] = first[1]
        BY <3>4, <4>1, <4>5
      <4>8. \A i \in 2 .. 8 : report[i] = rest[i - 1]
        BY <3>4, <4>1, <4>5
      <4>9. results' = report
        BY <4>2 DEF report
      <4> QED BY <4>1, <4>3, <4>6, <4>7, <4>8, <4>9
    <3>9. \A i \in 1 .. 8 : NotLoaded(i, results[i])'
      BY <3>5, <3>8 DEF NotLoaded
    <3>10. UNCHANGED <<command, firstAddr, originHttpOk>>
      BY <2>2 DEF ConfigFails
    <3>11. ~Loads'
      BY <3>2, <3>10, SameCommand
    <3>12. firstAddr = FALSE /\ originHttpOk = FALSE
      BY <3>2 DEF Report
    <3> QED BY <3>8, <3>9, <3>10, <3>11, <3>12 DEF Report, NotLoaded
  <2>3. CASE Config
    <3> SUFFICES ASSUME NEW r,
                        r = (Result("config", IF KeyResolved THEN "pass" ELSE "fail"))
                 PROVE  Report'
      OBVIOUS
    <3>1. AtCheck(Checks[1]) /\ Loads
      BY <2>3, EightChecks DEF Config
    <3>2. Push(r) /\ UNCHANGED <<command, firstAddr, originHttpOk>>
      BY <2>3 DEF Config
    <3>4. Expected(1, r)'
      BY <3>2, SameCommand DEF Expected
    <3>5. r \in CheckResults
      BY DEF CheckResults, CheckNames, Statuses, Result, Skip, Authenticated
    <3>6. (firstAddr' => EndpointOriginOk(profile)) /\ (originHttpOk' => firstAddr') /\ ~originHttpOk'
      <4>1. ~originHttpOk
        BY <3>1, AtLine DEF Report
      <4>2. firstAddr' => EndpointOriginOk(profile)
        BY <3>2 DEF Report
      <4> QED BY <3>2, <4>1, <4>2
    <3> QED BY <3>1, <3>2, <3>4, <3>5, <3>6, PushedLine
  <2>4. CASE TlsPolicy
    <3> SUFFICES ASSUME NEW r,
                        r = (Result("tls-policy",
                              IF ValidateTransportSecurityOk(profile) THEN "pass" ELSE "fail"))
                 PROVE  Report'
      OBVIOUS
    <3>1. AtCheck(Checks[2])
      BY <2>4, EightChecks DEF TlsPolicy
    <3>2. Push(r) /\ UNCHANGED <<command, firstAddr, originHttpOk>>
      BY <2>4 DEF TlsPolicy
    <3>4. Expected(2, r)'
      BY <3>2, SameCommand DEF Expected
    <3>5. r \in CheckResults
      BY DEF CheckResults, CheckNames, Statuses, Result, Skip, Authenticated
    <3>6. (firstAddr' => EndpointOriginOk(profile)) /\ (originHttpOk' => firstAddr') /\ ~originHttpOk'
      <4>1. ~originHttpOk
        BY <3>1, AtLine DEF Report
      <4>2. firstAddr' => EndpointOriginOk(profile)
        BY <3>2 DEF Report
      <4> QED BY <3>2, <4>1, <4>2
    <3> QED BY <3>1, <3>2, <3>4, <3>5, <3>6, PushedLine
  <2>5. ASSUME NEW resolves \in BOOLEAN, Dns(resolves) PROVE Report'
    <3> SUFFICES ASSUME NEW r,
                        r = (Result("dns", IF firstAddr' THEN "pass" ELSE "fail"))
                 PROVE  Report'
      OBVIOUS
    <3>1. AtCheck(Checks[3])
      BY <2>5, EightChecks DEF Dns
    <3>2. Push(r) /\ UNCHANGED <<command, originHttpOk>>
      BY <2>5 DEF Dns
    <3>4. Expected(3, r)'
      BY <3>2 DEF Expected
    <3>5. r \in CheckResults
      BY DEF CheckResults, CheckNames, Statuses, Result, Skip, Authenticated
    <3>6. (firstAddr' => EndpointOriginOk(profile)) /\ (originHttpOk' => firstAddr') /\ ~originHttpOk'
      <4>1. ~originHttpOk
        BY <3>1, AtLine DEF Report
      <4>2. firstAddr' => EndpointOriginOk(profile)
        BY <2>5 DEF Dns
      <4> QED BY <3>2, <4>1, <4>2
    <3> QED BY <3>1, <3>2, <3>4, <3>5, <3>6, PushedLine
  <2>6. ASSUME NEW connects \in BOOLEAN, NEW roundTrip \in BOOLEAN,
               TcpTls(connects, roundTrip)
        PROVE  Report'
    <3> SUFFICES ASSUME NEW r,
                        r = (IF ~firstAddr THEN Skip("tcp+tls", "dns")
                              ELSE Result("tcp+tls", IF originHttpOk' THEN "pass" ELSE "fail"))
                 PROVE  Report'
      OBVIOUS
    <3>1. AtCheck(Checks[4])
      BY <2>6, EightChecks DEF TcpTls
    <3>2. Push(r) /\ UNCHANGED <<command, firstAddr>>
      BY <2>6 DEF TcpTls
    <3>4. Expected(4, r)'
      BY <3>2 DEF Expected
    <3>5. r \in CheckResults
      BY DEF CheckResults, CheckNames, Statuses, Result, Skip, Authenticated
    <3>6. (firstAddr' => EndpointOriginOk(profile)) /\ (originHttpOk' => firstAddr')
      <4>1. firstAddr => EndpointOriginOk(profile)
        BY DEF Report
      <4>2. originHttpOk' => firstAddr
        BY <2>6 DEF TcpTls
      <4> QED BY <3>2, <4>1, <4>2
    <3> QED BY <3>1, <3>2, <3>4, <3>5, <3>6, PushedLine
  <2>7. ASSUME NEW accepted \in BOOLEAN, Auth(accepted) PROVE Report'
    <3> SUFFICES ASSUME NEW r,
                        r = (Authenticated("auth", IF accepted THEN "pass" ELSE "fail"))
                 PROVE  Report'
      OBVIOUS
    <3>1. AtCheck(Checks[5])
      BY <2>7, EightChecks DEF Auth
    <3>2. Push(r) /\ UNCHANGED <<command, firstAddr, originHttpOk>>
      BY <2>7 DEF Auth
    <3>4. Expected(5, r)'
      BY <3>2, SameCommand DEF Expected
    <3>5. r \in CheckResults
      BY DEF CheckResults, CheckNames, Statuses, Result, Skip, Authenticated
    <3>6. (firstAddr' => EndpointOriginOk(profile)) /\ (originHttpOk' => firstAddr')
      BY <3>2 DEF Report
    <3> QED BY <3>1, <3>2, <3>4, <3>5, <3>6, PushedLine
  <2>8. CASE Streaming
    <3> SUFFICES ASSUME NEW r,
                        r = (IF originHttpOk THEN Result("streaming", "pass")
                              ELSE Skip("streaming", "tcp+tls"))
                 PROVE  Report'
      OBVIOUS
    <3>1. AtCheck(Checks[6])
      BY <2>8, EightChecks DEF Streaming
    <3>2. Push(r) /\ UNCHANGED <<command, firstAddr, originHttpOk>>
      BY <2>8 DEF Streaming
    <3>4. Expected(6, r)'
      BY <3>2, SameCommand DEF Expected
    <3>5. r \in CheckResults
      BY DEF CheckResults, CheckNames, Statuses, Result, Skip, Authenticated
    <3>6. (firstAddr' => EndpointOriginOk(profile)) /\ (originHttpOk' => firstAddr')
      BY <3>2 DEF Report
    <3> QED BY <3>1, <3>2, <3>4, <3>5, <3>6, PushedLine
  <2>9. ASSUME NEW reply \in CancelAnswers, Cancellation(reply) PROVE Report'
    <3> SUFFICES ASSUME NEW r,
                        r = (Authenticated("cancellation", CancelStatus(reply)))
                 PROVE  Report'
      OBVIOUS
    <3>1. AtCheck(Checks[7])
      BY <2>9, EightChecks DEF Cancellation
    <3>2. Push(r) /\ UNCHANGED <<command, firstAddr, originHttpOk>>
      BY <2>9 DEF Cancellation
    <3>3. CancelStatus(reply) \in {"pass", "warn", "fail"}
      BY DEF CancelStatus
    <3>4. Expected(7, r)'
      BY <3>2, <3>3, SameCommand DEF Expected
    <3>5. r \in CheckResults
      BY <3>3 DEF Authenticated, Result, Skip, CheckResults, CheckNames, Statuses
    <3>6. (firstAddr' => EndpointOriginOk(profile)) /\ (originHttpOk' => firstAddr')
      BY <3>2 DEF Report
    <3> QED BY <3>1, <3>2, <3>4, <3>5, <3>6, PushedLine
  <2>10. CASE Identity
    <3> SUFFICES ASSUME NEW r,
                        r = (Result("identity", "pass"))
                 PROVE  Report'
      OBVIOUS
    <3>1. AtCheck(Checks[8])
      BY <2>10, EightChecks DEF Identity
    <3>2. Push(r) /\ UNCHANGED <<command, firstAddr, originHttpOk>>
      BY <2>10 DEF Identity
    <3>4. Expected(8, r)'
      BY <3>2, SameCommand DEF Expected
    <3>5. r \in CheckResults
      BY DEF CheckResults, CheckNames, Statuses, Result, Skip, Authenticated
    <3>6. (firstAddr' => EndpointOriginOk(profile)) /\ (originHttpOk' => firstAddr')
      BY <3>2 DEF Report
    <3> QED BY <3>1, <3>2, <3>4, <3>5, <3>6, PushedLine
  <2> QED BY <2>1, <2>2, <2>3, <2>4, <2>5, <2>6, <2>7, <2>8, <2>9, <2>10 DEF Next
<1> QED BY <1>1, <1>2, PTL DEF Spec

-----------------------------------------------------------------------------
(* What doctor looks up, and opens a TCP connection to, is the host the    *)
(* transport check judged, for URL texts of any length and shape, but for  *)
(* an empty port.  Where the HTTP client goes is not its subject.          *)
THEOREM DoctorResolvesCheckedHost == Spec => []ResolvesCheckedHost
<1>1. Report => ResolvesCheckedHost
  <2> DEFINE url == EndpointUrl(profile)
  <2> SUFFICES ASSUME Report, firstAddr, ~EmptyPort(url.rest)
               PROVE  EndpointOrigin(url.rest).host = CheckedHost(url.rest)
    BY DEF ResolvesCheckedHost
  <2>1. command \in Inputs /\ Loads /\ EndpointOriginOk(profile)
    BY DEF Report
  <2>2. profile \in Profiles
    BY <2>1, InputsAssumption
       DEF Loads, SelectProfileOk, SelectProfile, profile, IsCommand
  <2>3. {profile.base_url, profile.server_url} \subseteq Urls \union {NoUrl}
    BY <2>2 DEF Profiles
  <2>4. \A u \in Urls \union {NoUrl} : u.rest \in Seq(Tokens)
    <3>1. \A u \in Urls : u.rest \in Seq(Tokens)
      BY DEF Urls
    <3>2. NoUrl.rest \in Seq(Tokens)
      <4>1. NoUrl.rest = << >>
        BY DEF NoUrl
      <4>2. << >> \in Seq(Tokens)
        OBVIOUS
      <4> QED BY <4>1, <4>2
    <3> QED BY <3>1, <3>2
  <2>5. url.rest \in Seq(Tokens)
    BY <2>3, <2>4 DEF EndpointUrl
  <2>6. EndpointOrigin(url.rest) # NoOrigin
    BY <2>1 DEF EndpointOriginOk
  <2> HIDE DEF url
  <2> QED BY <2>5, <2>6, OneHost
<1> QED BY <1>1, ReportInvariant, PTL

(* Whatever fails, the report goes on to a line for each check, in order.  *)
THEOREM DoctorReportComplete == Spec => []ReportComplete
<1>1. Report => ReportComplete
  <2> SUFFICES ASSUME Report PROVE ReportComplete
    OBVIOUS
  <2>1. Len(Checks) = 8 /\ DOMAIN Checks = 1 .. 8 /\ Checks[1] = "config"
    BY EightChecks
  <2>2. DOMAIN results = 1 .. Len(results) /\ Len(results) \in 0 .. 8
    BY ReportLines
  <2>5. \A i \in DOMAIN results : i <= Len(Checks) /\ results[i].check = Checks[i]
    BY <2>1, <2>2, LineNamesCheck DEF Report
  <2>6. ASSUME ~Done
        PROVE  \E check \in {Checks[i] : i \in DOMAIN Checks} :
                 AtCheck(check) /\ (Loads \/ check = "config")
    <3>1. Len(results) + 1 \in DOMAIN Checks
      BY <2>1, <2>2, <2>6 DEF Done
    <3>2. AtCheck(Checks[Len(results) + 1])
      BY <2>6 DEF AtCheck
    <3>3. ~Loads => Checks[Len(results) + 1] = "config"
      BY <2>1, <2>2, <2>6 DEF Report, Done
    <3> QED BY <3>1, <3>2, <3>3
  <2> QED BY <2>5, <2>6 DEF ReportComplete
<1> QED BY <1>1, ReportInvariant, PTL

(* A skip never hides in a run that exits 0.                               *)
THEOREM DoctorSkipsExplained == Spec => []SkipsExplained
<1>1. Report => SkipsExplained
  <2> SUFFICES ASSUME Report, NEW i \in DOMAIN results, results[i].status = "skip"
               PROVE  /\ \E j \in 1 .. (i - 1) :
                           results[j].check = results[i].see /\ results[j].status # "pass"
                      /\ ExitCode(results) = 1
    BY DEF SkipsExplained
  <2>1. DOMAIN results = 1 .. Len(results) /\ Len(results) \in 0 .. 8
        /\ i \in 1 .. Len(results)
    BY ReportLines
  <2>2. ASSUME NEW j \in 1 .. (i - 1), results[j].check = results[i].see,
               results[j].status = "fail"
        PROVE  /\ \E k \in 1 .. (i - 1) :
                    results[k].check = results[i].see /\ results[k].status # "pass"
               /\ ExitCode(results) = 1
    BY <2>1, <2>2 DEF ExitCode
  <2>3. CASE ~Loads
    <3>1. \A k \in 1 .. 8 : NotLoaded(k, results[k])
      BY <2>1, <2>3 DEF Report
    <3>2. i # 1
      BY <3>1 DEF NotLoaded, Result
    <3>3. i \in 2 .. 8 /\ results[i].see = "config"
      BY <2>1, <3>1, <3>2 DEF NotLoaded, Skip
    <3>4. results[1].check = "config" /\ results[1].status = "fail"
      BY <3>1 DEF NotLoaded, Result
    <3> QED BY <2>2, <3>3, <3>4
  <2>4. CASE Loads
    <3>1. \A k \in 1 .. i : Expected(k, results[k])
      BY <2>1, <2>4 DEF Report
    <3>2. Expected(i, results[i])
      BY <2>1, <3>1
    <3>3. i \notin {1, 2, 3, 8}
      BY <3>2 DEF Expected, Result
    <3>4. i \in {4, 5, 6, 7}
      BY <2>1, <3>3
    <3>5. CASE i = 4
      <4>1. results[4].see = "dns" /\ ~firstAddr
        BY <3>2, <3>5 DEF Expected, Result, Skip
      <4>2. Expected(3, results[3])
        BY <3>1, <3>5
      <4>3. results[3].check = "dns" /\ results[3].status = "fail"
        BY <4>1, <4>2 DEF Expected, Result
      <4> QED BY <2>2, <3>5, <4>1, <4>3
    <3>6. CASE i \in {5, 7}
      <4>1. results[i].see = "config" /\ ~KeyResolved
        BY <3>2, <3>6 DEF Expected, Authenticated, Result, Skip
      <4>2. Expected(1, results[1])
        BY <3>1, <3>6
      <4>3. results[1].check = "config" /\ results[1].status = "fail"
        BY <4>1, <4>2 DEF Expected, Result
      <4> QED BY <2>2, <3>6, <4>1, <4>3
    <3>7. CASE i = 6
      <4>1. results[6].see = "tcp+tls" /\ ~originHttpOk
        BY <3>2, <3>7 DEF Expected, Result, Skip
      <4>2. Expected(3, results[3]) /\ Expected(4, results[4])
        BY <3>1, <3>7
      <4>3. CASE firstAddr
        <5>1. results[4].check = "tcp+tls" /\ results[4].status = "fail"
          BY <4>1, <4>2, <4>3 DEF Expected, Result
        <5> QED BY <2>2, <3>7, <4>1, <5>1
      <4>4. CASE ~firstAddr
        <5>1. results[4].check = "tcp+tls" /\ results[4].status = "skip"
          BY <4>2, <4>4 DEF Expected, Skip
        <5>2. results[3].status = "fail"
          BY <4>2, <4>4 DEF Expected, Result
        <5> QED BY <2>1, <3>7, <4>1, <5>1, <5>2 DEF ExitCode
      <4> QED BY <4>3, <4>4
    <3> QED BY <3>4, <3>5, <3>6, <3>7
  <2> QED BY <2>3, <2>4
<1> QED BY <1>1, ReportInvariant, PTL

(* Where doctor finds nothing wrong, `connect` starts.                     *)
THEOREM DoctorExitZeroMeansConnects == Spec => []ExitZeroMeansConnects
<1>1. Report => ExitZeroMeansConnects
  <2> SUFFICES ASSUME Report, Done, ExitCode(results) = 0 PROVE BuildStateOk(command)
    BY DEF ExitZeroMeansConnects
  <2>1. Len(results) = 8 /\ DOMAIN results = 1 .. 8
    BY EightChecks, ReportLines DEF Done
  <2>2. \A i \in 1 .. 8 : results[i].status # "fail"
    BY <2>1 DEF ExitCode
  <2>3. Loads
    <3>1. NotLoaded(1, results[1]) => results[1].status = "fail"
      BY DEF NotLoaded, Result
    <3> QED BY <2>1, <2>2, <3>1 DEF Report
  <2>4. Expected(1, results[1]) /\ Expected(2, results[2]) /\ Expected(5, results[5])
    BY <2>1, <2>3 DEF Report
  <2>5. KeyResolved
    BY <2>2, <2>4 DEF Expected, Result
  <2>6. ValidateTransportSecurityOk(profile)
    BY <2>2, <2>4 DEF Expected, Result
  <2>7. ClientBuilt
    BY <2>2, <2>4 DEF Expected, Authenticated, Result
  <2> QED BY <2>3, <2>5, <2>6, <2>7
          DEF BuildStateOk, Loads, KeyResolved, ClientBuilt, profile
<1> QED BY <1>1, ReportInvariant, PTL

(* The status of a check is that of the line it has in the report.         *)
LEMMA StatusOfLine ==
  ASSUME Report, NEW k \in 1 .. Len(results)
  PROVE  StatusOf(Checks[k]) = results[k].status
<1> DEFINE I == {i \in 1 .. Len(results) : results[i].check = Checks[k]}
<1>1. Len(results) \in 0 .. 8
  BY ReportLines
<1>4. \A i \in 1 .. Len(results) : results[i].check = Checks[i]
  BY <1>1, LineNamesCheck DEF Report
<1>5. \A i, j \in 1 .. 8 : Checks[i] = Checks[j] => i = j
  BY ChecksDiffer
<1>6. I = {k}
  <2>1. \A i \in 1 .. Len(results) : i \in 1 .. 8
    BY ReportLines
  <2>2. results[k].check = Checks[k]
    BY <1>4
  <2>3. ASSUME NEW i \in 1 .. Len(results), results[i].check = Checks[k] PROVE i = k
    BY <1>4, <1>5, <2>1, <2>3
  <2> QED BY <2>2, <2>3
<1>7. Min(I) = k
  BY <1>1, <1>6, MinIs
<1>8. SelectInSeq(results, LAMBDA r : r.check = Checks[k]) = k
  <2>1. I # {}
    BY <1>6
  <2> QED BY <1>7, <2>1 DEF SelectInSeq
<1> QED BY <1>8 DEF StatusOf

(* The key only degrades the checks that authenticate.                     *)
THEOREM DoctorKeyOnlyDegrades == Spec => []KeyOnlyDegrades
<1>1. Report => KeyOnlyDegrades
  <2> SUFFICES ASSUME Report, Done, Loads
               PROVE  /\ StatusOf("tcp+tls") = "skip" <=> StatusOf("dns") # "pass"
                      /\ StatusOf("streaming") = "pass" <=> StatusOf("tcp+tls") = "pass"
    BY DEF KeyOnlyDegrades
  <2>1. Len(results) = 8
    BY EightChecks DEF Done
  <2>2. Checks[3] = "dns" /\ Checks[4] = "tcp+tls" /\ Checks[6] = "streaming"
    BY EightChecks
  <2>3. /\ StatusOf("dns") = results[3].status
        /\ StatusOf("tcp+tls") = results[4].status
        /\ StatusOf("streaming") = results[6].status
    BY <2>1, <2>2, StatusOfLine
  <2>4. Expected(3, results[3]) /\ Expected(4, results[4]) /\ Expected(6, results[6])
    BY <2>1 DEF Report
  <2>5. results[3].status = (IF firstAddr THEN "pass" ELSE "fail")
    BY <2>4 DEF Expected, Result
  <2>6. results[4].status = (IF ~firstAddr THEN "skip"
                             ELSE IF originHttpOk THEN "pass" ELSE "fail")
    BY <2>4 DEF Expected, Result, Skip
  <2>7. results[6].status = (IF originHttpOk THEN "pass" ELSE "skip")
    BY <2>4 DEF Expected, Result, Skip
  <2>8. originHttpOk => firstAddr
    BY DEF Report
  <2> QED BY <2>3, <2>5, <2>6, <2>7, <2>8
<1> QED BY <1>1, ReportInvariant, PTL
=============================================================================
