---------------------------- MODULE ProfileConfig ----------------------------
(***************************************************************************)
(* The configuration a command starts from, as src/config.rs reads it: the *)
(* choice of a profile, the checks of its endpoint, its client key, and    *)
(* the tiers of the memory identity; and main.rs `build_state`, which      *)
(* `connect` runs them in.  Pure: no state.                                *)
(*                                                                         *)
(* A URL is its scheme, of the kinds the code tells apart, and the text    *)
(* after it; a key is what becomes of its reference; `builds` is whether   *)
(* the SDK's FormationClient::new accepts the profile.                     *)
(***************************************************************************)
EXTENDS Endpoint, FiniteSets

CONSTANTS
  Names,    (* profile names                                                  *)
  NoName    (* no --profile, no default_profile                               *)

ASSUME NoNameAssumption == NoName \notin Names

NoUrl == [scheme |-> "unset", rest |-> <<>>]
(* https or wss, http or ws, anything else or no scheme at all; and what   *)
(* follows the scheme.                                                     *)
Schemes == {"https", "http", "other"}
Urls == [scheme : Schemes, rest : Seq(Tokens)]

(* An unset key, "", a literal, a reference that fails, one that resolves. *)
Keys == {"unset", "empty", "literal", "unresolvable", "good"}

Profiles ==
  [base_url : Urls \union {NoUrl}, server_url : Urls \union {NoUrl},
   formation : BOOLEAN, allow_insecure_localhost : BOOLEAN,
   client_key : Keys, builds : BOOLEAN]

(* The config file and the command line a command is run with.             *)
IsCommand(c) ==
  /\ c.readable \in BOOLEAN
  /\ DOMAIN c.profiles \subseteq Names
  /\ \A name \in DOMAIN c.profiles : c.profiles[name] \in Profiles
  /\ {c.default_profile, c.profile_flag} \subseteq Names \union {NoName}

-----------------------------------------------------------------------------
(* select_profile: flag, then default_profile, then the sole profile.      *)
SelectedName(c) ==
  CASE c.profile_flag # NoName -> c.profile_flag
    [] c.profile_flag = NoName /\ c.default_profile # NoName -> c.default_profile
    [] OTHER -> IF Cardinality(DOMAIN c.profiles) = 1
                THEN CHOOSE name \in DOMAIN c.profiles : TRUE
                ELSE NoName

SelectProfileOk(c) == SelectedName(c) \in DOMAIN c.profiles
SelectProfile(c) == c.profiles[SelectedName(c)]

ValidateEndpointOk(p) ==
  \/ p.base_url # NoUrl /\ p.server_url = NoUrl /\ ~p.formation
  \/ p.base_url = NoUrl /\ p.server_url # NoUrl /\ p.formation

(* Both URLs are looked at, and a plaintext one needs a loopback host and  *)
(* the opt-in.                                                             *)
ValidateTransportSecurityOk(p) ==
  \A url \in {p.base_url, p.server_url} :
    url.scheme = "http" => IsLoopbackHost(url.rest) /\ p.allow_insecure_localhost

ClientKeyReferenceOk(p) == p.client_key \notin {"unset", "empty"}
ResolveSecretOk(p) == p.client_key = "good"

(* client_from_profile; `builds` is the SDK's own verdict.                  *)
ClientFromProfileOk(p) ==
  /\ p.base_url # NoUrl \/ (p.server_url # NoUrl /\ p.formation)
  /\ p.builds

Ids == {"unset", "empty", "set"}

(* resolve_user_id: the tier whose id is used.                             *)
ResolveUserId(cli, extracted, default) ==
  CASE cli = "set" -> "flag"
    [] cli # "set" /\ extracted = "set" -> "host"
    [] cli # "set" /\ extracted # "set" /\ default = "set" -> "default"
    [] OTHER -> "per-session"

(* build_state: what `connect` needs before it serves.                     *)
BuildStateOk(c) ==
  /\ c.readable /\ SelectProfileOk(c)
  /\ LET p == SelectProfile(c) IN
       /\ ValidateEndpointOk(p) /\ ValidateTransportSecurityOk(p)
       /\ ClientKeyReferenceOk(p) /\ ResolveSecretOk(p)
       /\ ClientFromProfileOk(p)
=============================================================================
