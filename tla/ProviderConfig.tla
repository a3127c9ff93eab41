---------------------------- MODULE ProviderConfig ----------------------------
(***************************************************************************)
(* The creation of one provider from its section of the config file: the   *)
(* Create functions of the nine types read their settings one by one, in   *)
(* an order of their own, refuse the section at the first thing that is    *)
(* wrong with it, and some of them contact the outside world on the way.   *)
(* A setting is chosen when it is read and kept in "given".                *)
(***************************************************************************)
EXTENDS Naturals, Sequences, FiniteSets

CONSTANT MaxOdd  \* bound on the settings that are absent, empty or of another kind

ASSUME ConfigAssumption == MaxOdd \in Nat

VARIABLES
  type,     \* the type of the provider
  at,       \* the step of its Create that is next
  given,    \* what each setting was found to be
  odd,      \* how many of them are not what is usual
  started,  \* what Create has set going: contacts with the outside that went well
  outcome   \* "creating", "created", "refused" or "panicked"

vars == <<type, at, given, odd, started, outcome>>

\* What a setting can be.  "kubernetes", "json" etc. are strings that mean
\* something to the code, "text" is any other one that is not empty; a list of
\* mappings is empty, one of objects with a "from" and a "to" that are strings,
\* or a list of something else.
String == {"text", "empty", "kubernetes", "keep_all", "transformed_only", "json", "badUrl"}
List == {"noMappings", "mappings", "badMappings"}
Kinds == String \cup List \cup {"number", "bool", "map", "absent"}

-----------------------------------------------------------------------------
(* The steps of a Create: settings, the check that a template and a transform
   exclude each other, and contacts. *)

Setting(key, inside, required, ok) ==
  [do |-> "read", key |-> key, inside |-> inside, required |-> required, ok |-> ok]
Need(key, ok) == Setting(key, "section", TRUE, ok)
May(key, ok) == Setting(key, "section", FALSE, ok)
NeedIn(map, key, ok) == Setting(key, map, TRUE, ok)
MayIn(map, key, ok) == Setting(key, map, FALSE, ok)
Exclusive == [do |-> "exclude", key |-> "template", inside |-> "section", required |-> FALSE, ok |-> {}]
Contact(whom) == [do |-> "contact", key |-> whom, inside |-> "section", required |-> FALSE, ok |-> {}]

parseVaultConfig ==
  << Need("vault_addr", String), May("namespace", String),
     May("tls", {"map"}), MayIn("tls", "ca_cert", String), MayIn("tls", "skip_verify", {"bool"}),
     Need("auth", {"map"}), MayIn("auth", "method", {"kubernetes"}), NeedIn("auth", "role", String),
     MayIn("auth", "mount_path", String), MayIn("auth", "jwt_path", String) >>

\* Slip: the entries of the list are taken as they are.
ParseTransformUnread ==
  << May("transform", {"map"}), MayIn("transform", "mode", {"keep_all", "transformed_only"}),
     MayIn("transform", "key_mappings", List) >>

ParseSecretTransformFromConfig ==
  << May("transform", {"map"}), MayIn("transform", "mode", {"keep_all", "transformed_only"}),
     MayIn("transform", "key_mappings", {"noMappings", "mappings"}) >>

Content == <<May("template", String)>> \o ParseSecretTransformFromConfig \o <<Exclusive>>

\* The session is made before "refresh" is read, but if it cannot be made the error
\* is printed only; what panics is the client made from it, after "refresh".  The
\* contact stands where its failure shows.
CreateAwsSecretsManagerFile ==
  << Need("region", String), Need("path", String), Need("secret_id", String),
     Need("refresh", {"number"}), Contact("session") >> \o Content

CreateAzureKeyVaultFile ==
  << Need("vault_url", String), Need("path", String), Need("secret_name", String),
     Need("refresh", {"number"}), May("secret_version", String) >>
  \o Content \o <<Contact("credential"), Contact("client")>>

\* Slip: the login comes with the settings it is made from.
CreateHashicorpVaultFileEagerly ==
  parseVaultConfig
  \o << Contact("login"), Need("path_on_disk", String), Need("path", String), May("mount", String),
        Need("refresh", {"number"}), May("version", String \cup {"number"}), May("field", String) >>
  \o Content

CreateHashicorpVaultFile ==
  parseVaultConfig
  \o << Need("path_on_disk", String), Need("path", String), May("mount", String),
        Need("refresh", {"number"}), May("version", String \cup {"number"}), May("field", String) >>
  \o Content \o <<Contact("login")>>

CreateFileJsonProvider ==
  << Need("input_path", String), Need("path", String), Need("refresh", {"number"}) >> \o Content

\* New of aws_iam_auth_rds: refreshed every 300 seconds, with no transform.
parseInputConfig ==
  << Need("region", String), Need("path", String), Need("db_name", String), Need("db_user", String),
     Need("db_host", String), Need("db_port", {"number"}), May("template", String) >>

CreateAzure ==
  << Need("vault_url", String), May("cache_ttl", {"number"}), Contact("credential"), Contact("client") >>

CreateHashicorp ==
  parseVaultConfig \o <<May("cache_ttl", {"number"}), May("mount", String), Contact("login")>>

CreateAwsSecretsManager == <<May("cache_ttl", {"number"}), Contact("session")>>

\* The section is unmarshalled as a whole; a setting of the wrong kind is an error
\* that is overwritten, and is left at zero.  Two of the strings are parsed.
Numbers == <<"certificate_cache_ttl", "token_cache_ttl", "token_cache_size", "jwt_duration",
             "http_retry_attempts", "http_retry_min_wait", "http_retry_max_wait">>
CreateOauth ==
  [i \in 1..Len(Numbers) |-> May(Numbers[i], Kinds)]
  \o << May("certificate_region", Kinds), Contact("session"),
        May("oauth_url", Kinds \ {"badUrl"}), Need("jwt_claims_map", {"json"}) >>

Create ==
  [file_aws_secrets_manager |-> CreateAwsSecretsManagerFile,
   file_azure_key_vault |-> CreateAzureKeyVaultFile,
   file_hashicorp_vault |-> CreateHashicorpVaultFile,
   file_json |-> CreateFileJsonProvider,
   file_aws_iam_auth_rds |-> parseInputConfig,
   proxy_azure_key_vault |-> CreateAzure,
   proxy_hashicorp_vault |-> CreateHashicorp,
   proxy_aws_secrets_manager |-> CreateAwsSecretsManager,
   proxy_awssm_oauth |-> CreateOauth]

Types == DOMAIN Create
Steps == UNION {{Create[t][i] : i \in 1..Len(Create[t])} : t \in Types}
Keys == {s.key : s \in {s \in Steps : s.do = "read"}}

\* What the README says a setting is (tests do for file_json), absent or not.
Proper(key) ==
  CASE key \in {"refresh", "cache_ttl", "db_port", "certificate_cache_ttl", "token_cache_ttl",
                 "token_cache_size", "jwt_duration", "http_retry_attempts",
                 "http_retry_min_wait", "http_retry_max_wait"} -> {"number"}
    [] key \in {"tls", "auth", "transform"} -> {"map"}
    [] key = "skip_verify" -> {"bool"}
    [] key = "method" -> {"kubernetes"}
    [] key = "mode" -> {"keep_all", "transformed_only"}
    [] key = "key_mappings" -> {"noMappings", "mappings"}
    [] key = "version" -> String \cup {"number"}
    [] key = "oauth_url" -> String \ {"badUrl"}
    [] key = "jwt_claims_map" -> {"json"}
    [] OTHER -> String

Init ==
  /\ type \in Types
  /\ at = 1
  /\ given = [k \in Keys \cup {"section"} |-> IF k = "section" THEN "map" ELSE "unread"]
  /\ odd = 0
  /\ started = {}
  /\ outcome = "creating"

-----------------------------------------------------------------------------
(* The steps. *)

Step == Create[type][at]
At(do) == outcome = "creating" /\ at <= Len(Create[type]) /\ Step.do = do
Proceed == at' = at + 1 /\ UNCHANGED <<type, outcome>>

\* Slip: the error is returned only after the next setting was looked at.
RefuseLate == outcome' = "refused" /\ at' = at + 1 /\ UNCHANGED type

Refuse == outcome' = "refused" /\ UNCHANGED <<type, at>>

Inside == given[Step.inside] = "map"

\* The value of a setting.  Strings that mean something are tried where the code
\* tells strings apart, and no more than MaxOdd settings are absent, empty or not
\* what they should be.
Find(v) ==
  /\ At("read") /\ Inside
  /\ v \in String \ {"text", "empty"} => ~(String \subseteq Step.ok)
  /\ given' = [given EXCEPT ![Step.key] = v]
  /\ odd' = IF v \in Proper(Step.key) \ {"empty"} THEN odd ELSE odd + 1
  /\ odd' <= MaxOdd
  /\ UNCHANGED started

\* Slip: an empty string counts as none.
AcceptedIfAny(v) ==
  IF v \in {"absent", "empty"} THEN ~Step.required ELSE v \in Step.ok

\* Is it what the code accepts?
Accepted(v) == IF v = "absent" THEN ~Step.required ELSE v \in Step.ok

TakeSetting(v) == Find(v) /\ Accepted(v) /\ Proceed
RefuseSetting(v) == Find(v) /\ ~Accepted(v) /\ Refuse

\* A setting of a map that is not there.
SkipSetting ==
  /\ At("read") /\ ~Inside
  /\ Proceed
  /\ UNCHANGED <<given, odd, started>>

Both == given["template"] \notin {"absent", "empty"} /\ given["key_mappings"] = "mappings"

Exclude ==
  /\ At("exclude")
  /\ IF Both THEN Refuse ELSE Proceed
  /\ UNCHANGED <<given, odd, started>>

ContactSucceeds ==
  /\ At("contact")
  /\ started' = started \cup {Step.key}
  /\ Proceed
  /\ UNCHANGED <<given, odd>>

ContactFails ==
  /\ At("contact")
  /\ IF type = "file_aws_secrets_manager"
     THEN outcome' = "panicked" /\ UNCHANGED <<type, at>>
     ELSE Refuse
  /\ UNCHANGED <<given, odd, started>>

Finish ==
  /\ outcome = "creating" /\ at > Len(Create[type])
  /\ outcome' = "created"
  /\ UNCHANGED <<type, at, given, odd, started>>

Next ==
  \/ \E v \in Kinds : TakeSetting(v) \/ RefuseSetting(v)
  \/ SkipSetting \/ Exclude \/ ContactSucceeds \/ ContactFails \/ Finish

Spec == Init /\ [][Next]_vars

-----------------------------------------------------------------------------
TypeOK ==
  /\ type \in Types
  /\ at \in 1..(Len(Create[type]) + 1)
  /\ given \in [Keys \cup {"section"} -> Kinds \cup {"unread"}]
  /\ odd \in 0..MaxOdd
  /\ started \subseteq {"session", "credential", "client", "login"}
  /\ outcome \in {"creating", "created", "refused", "panicked"}
  /\ outcome \in {"refused", "panicked"} => at <= Len(Create[type])

\* What the README lists without calling it optional or giving a default.
Required ==
  [file_aws_secrets_manager |-> {"region", "refresh", "secret_id", "path"},
   file_azure_key_vault |-> {"vault_url", "refresh", "secret_name", "path"},
   file_hashicorp_vault |->
     {"vault_addr", "path", "refresh", "path_on_disk", "auth", "method", "role"},
   file_json |-> {"input_path", "path", "refresh"},
   file_aws_iam_auth_rds |-> {"region", "db_name", "db_user", "db_host", "db_port", "path"},
   proxy_azure_key_vault |-> {"vault_url", "cache_ttl"},
   proxy_hashicorp_vault |-> {"vault_addr", "auth", "method", "role"},
   proxy_aws_secrets_manager |-> {},
   proxy_awssm_oauth |->
     {"certificate_cache_ttl", "certificate_region", "token_cache_ttl", "token_cache_size",
      "oauth_url", "jwt_claims_map", "jwt_duration",
      "http_retry_attempts", "http_retry_min_wait", "http_retry_max_wait"}]

\* What proxy_awssm_oauth takes in any kind, and uses as zero or as an empty string
\* if it is not there or not of the kind that the README says.
Unchecked == {Numbers[i] : i \in 1..Len(Numbers)} \cup {"certificate_region", "oauth_url"}

\* What the code does without, though the README gives no default.
Forgone == Unchecked \cup {"method", "cache_ttl"}

Wrong(k) == given[k] \notin Proper(k) \cup {"absent", "unread"}
Missing(k) == k \in Required[type] \ Forgone /\ given[k] \in {"absent", "unread"}

\* A provider is created from a section only if what the README requires is there,
\* nothing in it is of another kind than the README says, template and transform are
\* not both given, and all its contacts went well.  This is less than the README
\* asks for: what is missing without an error is in Forgone, and what is wrong
\* without an error in Unchecked.
CreatedAsDocumented ==
  outcome = "created" =>
    /\ \A k \in Keys : ~Missing(k)
    /\ \A k \in Keys \ Unchecked : ~Wrong(k)
    /\ ~Both
    /\ \A i \in 1..Len(Create[type]) :
         Create[type][i].do = "contact" => Create[type][i].key \in started

\* Conversely a section is refused only because something is missing that both the
\* README and the code require, because something is wrong, because template and
\* transform are both given, or because a contact failed.
RefusedForAReason ==
  outcome \in {"refused", "panicked"} =>
    \/ Step.do = "contact"
    \/ Both
    \/ Step.do = "read" /\ (Wrong(Step.key) \/ Missing(Step.key))

\* A Vault client logs in, and starts the goroutine that keeps its token, when
\* nothing can go wrong any more: a Create that returns an error has left nothing
\* running, whatever its caller does with the error (main ends the process).
NoTokenForRefused == "login" \in started => outcome \notin {"refused", "panicked"}
=============================================================================
