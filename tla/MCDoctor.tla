------------------------------- MODULE MCDoctor -------------------------------
(***************************************************************************)
(* Doctor on three families of inputs: every endpoint and key with one      *)
(* profile; every text of up to four tokens as an endpoint's URL, and      *)
(* longer ones that are well formed; every way to select among two         *)
(* profiles, one of them broken.                                           *)
(***************************************************************************)
EXTENDS Doctor

LongText == 4

V6 == <<"[", ":", ":", "1", "]">>
Https == [scheme |-> "https", rest |-> <<"example">>]
Good == [base_url |-> Https, server_url |-> NoUrl, formation |-> FALSE,
         allow_insecure_localhost |-> FALSE, client_key |-> "good",
         builds |-> TRUE]
Broken == [Good EXCEPT !.client_key = "literal"]

Run(profiles, flag, default) ==
  [readable |-> TRUE, default_profile |-> default, profiles |-> profiles,
   profile_flag |-> flag]
One(p) == Run([n \in {CHOOSE n \in Names : TRUE} |-> p], NoName, NoName)

(* A URL of this machine, of another, and without a host.                  *)
PlainUrls ==
  [scheme : Schemes, rest : {<<"localhost", ":", "1">>, <<"example">>, <<>>}]

EndpointInputs ==
  {One([Good EXCEPT !.base_url = base, !.server_url = server, !.formation = formation,
                    !.allow_insecure_localhost = insecure, !.client_key = key,
                    !.builds = builds]) :
     base \in PlainUrls \union {NoUrl},
     server \in {NoUrl, Https, [Https EXCEPT !.scheme = "http"]},
     formation \in BOOLEAN, insecure \in BOOLEAN, key \in Keys, builds \in BOOLEAN}

WellFormed == {V6, V6 \o <<"/">>, V6 \o <<":", "1">>, V6 \o <<":", "1", "/", "example">>,
               <<"localhost", ":", "1", "1", "/">>}
UrlInputs ==
  {One([Good EXCEPT !.base_url = [scheme |-> "http", rest |-> rest],
                    !.allow_insecure_localhost = TRUE]) :
     rest \in BoundedSeq(Tokens, LongText) \union WellFormed}

SelectionInputs ==
  {Run([n \in defined |-> IF n = broken THEN Broken ELSE Good], flag, default) :
     defined \in SUBSET Names, broken \in Names,
     flag \in Names \union {NoName}, default \in Names \union {NoName}}
  \union {[Run(<<>>, NoName, NoName) EXCEPT !.readable = FALSE]}

AllInputs == EndpointInputs \union UrlInputs \union SelectionInputs
=============================================================================
