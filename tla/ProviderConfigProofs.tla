------------------------- MODULE ProviderConfigProofs -------------------------
(***************************************************************************)
(* Proofs about ProviderConfig, for sections with any number of settings   *)
(* that are absent, empty or of the wrong kind.                            *)
(***************************************************************************)
EXTENDS ProviderConfig, TLAPS

\* The lists of steps are the same for every section.  What is needed of them
\* is stated here once and read off each of them.
WellOrdered(s) ==
  /\ Len(s) \in Nat
  /\ \A i \in 1..Len(s) :
       s[i].do = "contact" =>
         /\ s[i].key \in {"session", "credential", "client", "login"}
         /\ s[i].key = "login" => i = Len(s)

\* The longest of the lists, step by step.
LEMMA HashicorpFileSteps ==
  /\ Len(CreateHashicorpVaultFile) = 22
  /\ CreateHashicorpVaultFile[1] = Need("vault_addr", String)
  /\ CreateHashicorpVaultFile[2] = May("namespace", String)
  /\ CreateHashicorpVaultFile[3] = May("tls", {"map"})
  /\ CreateHashicorpVaultFile[4] = MayIn("tls", "ca_cert", String)
  /\ CreateHashicorpVaultFile[5] = MayIn("tls", "skip_verify", {"bool"})
  /\ CreateHashicorpVaultFile[6] = Need("auth", {"map"})
  /\ CreateHashicorpVaultFile[7] = MayIn("auth", "method", {"kubernetes"})
  /\ CreateHashicorpVaultFile[8] = NeedIn("auth", "role", String)
  /\ CreateHashicorpVaultFile[9] = MayIn("auth", "mount_path", String)
  /\ CreateHashicorpVaultFile[10] = MayIn("auth", "jwt_path", String)
  /\ CreateHashicorpVaultFile[11] = Need("path_on_disk", String)
  /\ CreateHashicorpVaultFile[12] = Need("path", String)
  /\ CreateHashicorpVaultFile[13] = May("mount", String)
  /\ CreateHashicorpVaultFile[14] = Need("refresh", {"number"})
  /\ CreateHashicorpVaultFile[15] = May("version", String \cup {"number"})
  /\ CreateHashicorpVaultFile[16] = May("field", String)
  /\ CreateHashicorpVaultFile[17] = May("template", String)
  /\ CreateHashicorpVaultFile[18] = May("transform", {"map"})
  /\ CreateHashicorpVaultFile[19] = MayIn("transform", "mode", {"keep_all", "transformed_only"})
  /\ CreateHashicorpVaultFile[20] = MayIn("transform", "key_mappings", {"noMappings", "mappings"})
  /\ CreateHashicorpVaultFile[21] = Exclusive
  /\ CreateHashicorpVaultFile[22] = Contact("login")
BY SMTT(60) DEF CreateHashicorpVaultFile, parseVaultConfig, Content, ParseSecretTransformFromConfig

\* Every type has a list of steps in which the login, if there is one, is last.
LEMMA CreateWellOrdered == \A t \in Types : WellOrdered(Create[t])
<1>1. WellOrdered(CreateAwsSecretsManagerFile)
  BY SMTT(60) DEF WellOrdered, CreateAwsSecretsManagerFile, Content, ParseSecretTransformFromConfig,
    Need, May, MayIn, Setting, Contact, Exclusive
<1>2. WellOrdered(CreateAzureKeyVaultFile)
  BY SMTT(60) DEF WellOrdered, CreateAzureKeyVaultFile, Content, ParseSecretTransformFromConfig,
    Need, May, MayIn, Setting, Contact, Exclusive
<1>3. WellOrdered(CreateHashicorpVaultFile)
  BY HashicorpFileSteps, SMTT(60)
  DEF WellOrdered, Need, May, NeedIn, MayIn, Setting, Contact, Exclusive
<1>4. WellOrdered(CreateFileJsonProvider)
  BY SMTT(60) DEF WellOrdered, CreateFileJsonProvider, Content, ParseSecretTransformFromConfig,
    Need, May, MayIn, Setting, Exclusive
<1>5. WellOrdered(parseInputConfig)
  BY DEF WellOrdered, parseInputConfig, Need, May, Setting
<1>6. WellOrdered(CreateAzure)
  BY DEF WellOrdered, CreateAzure, Need, May, Setting, Contact
<1>7. WellOrdered(CreateHashicorp)
  BY SMTT(60) DEF WellOrdered, CreateHashicorp, parseVaultConfig,
    Need, May, NeedIn, MayIn, Setting, Contact
<1>8. WellOrdered(CreateAwsSecretsManager)
  BY DEF WellOrdered, CreateAwsSecretsManager, May, Setting, Contact
<1>9. WellOrdered(CreateOauth)
  BY SMTT(60) DEF WellOrdered, CreateOauth, Numbers, Need, May, Setting, Contact
<1> QED
  BY <1>1, <1>2, <1>3, <1>4, <1>5, <1>6, <1>7, <1>8, <1>9 DEF Types, Create

\* A setting that is read is one of the keys.
LEMMA ReadKey ==
  ASSUME NEW t \in Types, NEW i \in 1..Len(Create[t]), Create[t][i].do = "read"
  PROVE  Create[t][i].key \in Keys
BY DEF Keys, Steps

-----------------------------------------------------------------------------
\* The type invariant is inductive.
LEMMA TypeInit == Init => TypeOK
<1> SUFFICES ASSUME Init
             PROVE  TypeOK
  OBVIOUS
<1>1. type \in Types /\ Len(Create[type]) \in Nat
  BY CreateWellOrdered DEF Init, WellOrdered
<1>2. given \in [Keys \cup {"section"} -> Kinds \cup {"unread"}]
  BY DEF Init, Kinds
<1> QED
  BY <1>1, <1>2, ConfigAssumption DEF Init, TypeOK

LEMMA TypeStep == TypeOK /\ [Next]_vars => TypeOK'
<1> SUFFICES ASSUME TypeOK, [Next]_vars
             PROVE  TypeOK'
  OBVIOUS
<1> USE ConfigAssumption
<1>t. type \in Types /\ WellOrdered(Create[type])
  BY CreateWellOrdered DEF TypeOK
<1>1. ASSUME NEW v \in Kinds, TakeSetting(v)
      PROVE  TypeOK'
  <2>1. at \in 1..Len(Create[type]) /\ Step.key \in Keys
    BY <1>1, <1>t, ReadKey DEF TakeSetting, Find, At, Step, TypeOK, WellOrdered
  <2>2. given' \in [Keys \cup {"section"} -> Kinds \cup {"unread"}]
    BY <1>1, <2>1 DEF TakeSetting, Find, TypeOK
  <2>3. odd' \in 0..MaxOdd
    BY <1>1 DEF TakeSetting, Find, TypeOK
  <2> QED
    BY <1>1, <1>t, <2>1, <2>2, <2>3 DEF TakeSetting, Find, At, Proceed, TypeOK, WellOrdered
<1>2. ASSUME NEW v \in Kinds, RefuseSetting(v)
      PROVE  TypeOK'
  <2>1. at \in 1..Len(Create[type]) /\ Step.key \in Keys
    BY <1>2, <1>t, ReadKey DEF RefuseSetting, Find, At, Step, TypeOK, WellOrdered
  <2>2. given' \in [Keys \cup {"section"} -> Kinds \cup {"unread"}]
    BY <1>2, <2>1 DEF RefuseSetting, Find, TypeOK
  <2>3. odd' \in 0..MaxOdd
    BY <1>2 DEF RefuseSetting, Find, TypeOK
  <2> QED
    BY <1>2, <1>t, <2>1, <2>2, <2>3 DEF RefuseSetting, Find, At, Refuse, TypeOK, WellOrdered
<1>3. CASE SkipSetting
  BY <1>3, <1>t DEF SkipSetting, At, Proceed, TypeOK, WellOrdered
<1>4. CASE Exclude
  BY <1>4, <1>t DEF Exclude, At, Proceed, Refuse, TypeOK, WellOrdered
<1>5. CASE ContactSucceeds
  <2>1. at \in 1..Len(Create[type]) /\ Create[type][at].do = "contact"
    BY <1>5, <1>t DEF ContactSucceeds, At, Step, TypeOK, WellOrdered
  <2>2. Step.key \in {"session", "credential", "client", "login"}
    BY <2>1, <1>t DEF WellOrdered, Step
  <2>3. started' \subseteq {"session", "credential", "client", "login"}
    BY <1>5, <2>2 DEF ContactSucceeds, TypeOK
  <2>4. at' \in 1..(Len(Create[type']) + 1)
    BY <1>5, <1>t, <2>1 DEF ContactSucceeds, Proceed, WellOrdered
  <2> QED
    BY <1>5, <1>t, <2>3, <2>4 DEF ContactSucceeds, Proceed, At, TypeOK
<1>6. CASE ContactFails
  BY <1>6, <1>t DEF ContactFails, At, Refuse, TypeOK, WellOrdered
<1>7. CASE Finish
  BY <1>7, <1>t DEF Finish, TypeOK, WellOrdered
<1>8. CASE UNCHANGED vars
  BY <1>8 DEF vars, TypeOK
<1> QED
  BY <1>1, <1>2, <1>3, <1>4, <1>5, <1>6, <1>7, <1>8 DEF Next

\* Type correctness; in particular a refusal is always at a step of its own.
THEOREM TypeCorrect == Spec => []TypeOK
<1> QED
  BY TypeInit, TypeStep, PTL DEF Spec

-----------------------------------------------------------------------------
\* What makes it inductive: once Create has logged in it has no step left.
LoginWasLast == "login" \in started => outcome \in {"creating", "created"} /\ at > Len(Create[type])

LEMMA LoginStep == TypeOK /\ LoginWasLast /\ [Next]_vars => LoginWasLast'
<1> SUFFICES ASSUME TypeOK, LoginWasLast, [Next]_vars
             PROVE  LoginWasLast'
  OBVIOUS
<1>t. type \in Types /\ WellOrdered(Create[type]) /\ at \in Nat
  BY CreateWellOrdered DEF TypeOK
<1>1. ASSUME NEW v \in Kinds, TakeSetting(v) \/ RefuseSetting(v)
      PROVE  LoginWasLast'
  BY <1>1, <1>t DEF TakeSetting, RefuseSetting, Find, At, LoginWasLast, WellOrdered
<1>2. CASE SkipSetting \/ Exclude \/ ContactFails
  BY <1>2, <1>t DEF SkipSetting, Exclude, ContactFails, At, LoginWasLast, WellOrdered
<1>3. CASE ContactSucceeds
  <2>1. at \in 1..Len(Create[type]) /\ Create[type][at].do = "contact"
    BY <1>3, <1>t DEF ContactSucceeds, At, Step, TypeOK, WellOrdered
  <2>2. Step.key = "login" => at = Len(Create[type])
    BY <2>1, <1>t DEF WellOrdered, Step
  <2> QED
    BY <1>3, <1>t, <2>1, <2>2 DEF ContactSucceeds, At, Proceed, LoginWasLast, WellOrdered
<1>4. CASE Finish
  BY <1>4 DEF Finish, LoginWasLast
<1>5. CASE UNCHANGED vars
  BY <1>5 DEF vars, LoginWasLast
<1> QED
  BY <1>1, <1>2, <1>3, <1>4, <1>5 DEF Next

\* No provider that is refused leaves a Vault token behind, whatever is wrong
\* with its section.
THEOREM NoTokenLeft == Spec => []NoTokenForRefused
<1>1. Init => LoginWasLast
  BY DEF Init, LoginWasLast
<1>2. LoginWasLast => NoTokenForRefused
  BY DEF LoginWasLast, NoTokenForRefused
<1> QED
  BY <1>1, <1>2, TypeCorrect, LoginStep, PTL DEF Spec

-----------------------------------------------------------------------------
\* What both the README and the code require.
Demanded(t) == Required[t] \ Forgone

\* The code refuses nothing the README allows: what a setting should be it
\* accepts, and it requires nothing the README does not.
AsDocumented(t, s) ==
  \A i \in 1..Len(s) :
    s[i].do = "read" =>
      /\ Proper(s[i].key) \subseteq s[i].ok
      /\ s[i].required => s[i].key \in Demanded(t)

LEMMA ProperIs ==
  /\ \A k \in {"vault_addr", "namespace", "ca_cert", "role", "mount_path", "jwt_path",
              "path_on_disk", "path", "mount", "field", "template", "region", "secret_id",
              "vault_url", "secret_name", "secret_version", "input_path",
              "db_name", "db_user", "db_host"} : Proper(k) = String
  /\ \A k \in {"tls", "auth", "transform"} : Proper(k) = {"map"}
  /\ \A k \in {"refresh", "cache_ttl", "db_port"} : Proper(k) = {"number"}
  /\ Proper("skip_verify") = {"bool"}
  /\ Proper("method") = {"kubernetes"}
  /\ Proper("mode") = {"keep_all", "transformed_only"}
  /\ Proper("key_mappings") = {"noMappings", "mappings"}
  /\ Proper("version") = String \cup {"number"}
  /\ Proper("jwt_claims_map") = {"json"}
  /\ Proper("oauth_url") \subseteq Kinds \ {"badUrl"}
  /\ \A k : Proper(k) \subseteq Kinds
BY DEF Proper, Kinds, String, List

LEMMA UncheckedIs ==
  Unchecked = {"certificate_cache_ttl", "token_cache_ttl", "token_cache_size", "jwt_duration",
               "http_retry_attempts", "http_retry_min_wait", "http_retry_max_wait",
               "certificate_region", "oauth_url"}
<1>1. /\ Len(Numbers) = 7
      /\ Numbers[1] = "certificate_cache_ttl" /\ Numbers[2] = "token_cache_ttl"
      /\ Numbers[3] = "token_cache_size" /\ Numbers[4] = "jwt_duration"
      /\ Numbers[5] = "http_retry_attempts" /\ Numbers[6] = "http_retry_min_wait"
      /\ Numbers[7] = "http_retry_max_wait"
  BY DEF Numbers
<1>2. 1..7 = {1, 2, 3, 4, 5, 6, 7}
  OBVIOUS
<1>3. {Numbers[i] : i \in {1, 2, 3, 4, 5, 6, 7}} =
        {Numbers[1], Numbers[2], Numbers[3], Numbers[4], Numbers[5], Numbers[6], Numbers[7]}
  OBVIOUS
<1> QED
  BY <1>1, <1>2, <1>3 DEF Unchecked

LEMMA DemandedIs ==
  /\ Demanded("file_aws_secrets_manager") = {"region", "refresh", "secret_id", "path"}
  /\ Demanded("file_azure_key_vault") = {"vault_url", "refresh", "secret_name", "path"}
  /\ Demanded("file_hashicorp_vault") =
       {"vault_addr", "path", "refresh", "path_on_disk", "auth", "role"}
  /\ Demanded("file_json") = {"input_path", "path", "refresh"}
  /\ Demanded("file_aws_iam_auth_rds") =
       {"region", "db_name", "db_user", "db_host", "db_port", "path"}
  /\ Demanded("proxy_azure_key_vault") = {"vault_url"}
  /\ Demanded("proxy_hashicorp_vault") = {"vault_addr", "auth", "role"}
  /\ Demanded("proxy_aws_secrets_manager") = {}
  /\ Demanded("proxy_awssm_oauth") = {"jwt_claims_map"}
BY UncheckedIs DEF Demanded, Forgone, Required

LEMMA CreateAsDocumented == \A t \in Types : AsDocumented(t, Create[t])
<1> USE ProperIs, DemandedIs
<1>1. AsDocumented("file_aws_secrets_manager", CreateAwsSecretsManagerFile)
  BY SMTT(60) DEF AsDocumented, CreateAwsSecretsManagerFile, Content, ParseSecretTransformFromConfig,
    Need, May, MayIn, Setting, Contact, Exclusive
<1>2. AsDocumented("file_azure_key_vault", CreateAzureKeyVaultFile)
  BY SMTT(60) DEF AsDocumented, CreateAzureKeyVaultFile, Content, ParseSecretTransformFromConfig,
    Need, May, MayIn, Setting, Contact, Exclusive
<1>3. AsDocumented("file_hashicorp_vault", CreateHashicorpVaultFile)
  BY HashicorpFileSteps, SMTT(60)
  DEF AsDocumented, Need, May, NeedIn, MayIn, Setting, Contact, Exclusive
<1>4. AsDocumented("file_json", CreateFileJsonProvider)
  BY SMTT(60) DEF AsDocumented, CreateFileJsonProvider, Content, ParseSecretTransformFromConfig,
    Need, May, MayIn, Setting, Exclusive
<1>5. AsDocumented("file_aws_iam_auth_rds", parseInputConfig)
  BY SMTT(60) DEF AsDocumented, parseInputConfig, Need, May, Setting
<1>6. AsDocumented("proxy_azure_key_vault", CreateAzure)
  BY DEF AsDocumented, CreateAzure, Need, May, Setting, Contact
<1>7. AsDocumented("proxy_hashicorp_vault", CreateHashicorp)
  BY SMTT(60) DEF AsDocumented, CreateHashicorp, parseVaultConfig,
    Need, May, NeedIn, MayIn, Setting, Contact
<1>8. AsDocumented("proxy_aws_secrets_manager", CreateAwsSecretsManager)
  BY DEF AsDocumented, CreateAwsSecretsManager, May, Setting, Contact
<1>9. AsDocumented("proxy_awssm_oauth", CreateOauth)
  BY SMTT(60) DEF AsDocumented, CreateOauth, Numbers, Need, May, Setting, Contact
<1> QED
  BY <1>1, <1>2, <1>3, <1>4, <1>5, <1>6, <1>7, <1>8, <1>9 DEF Types, Create

LEMMA ReasonStep == TypeOK /\ RefusedForAReason /\ [Next]_vars => RefusedForAReason'
<1> SUFFICES ASSUME TypeOK, RefusedForAReason, [Next]_vars
             PROVE  RefusedForAReason'
  OBVIOUS
<1>t. type \in Types /\ WellOrdered(Create[type])
  BY CreateWellOrdered DEF TypeOK
<1>1. ASSUME NEW v \in Kinds, RefuseSetting(v)
      PROVE  RefusedForAReason'
  <2>1. /\ at \in 1..Len(Create[type]) /\ Create[type][at].do = "read"
        /\ UNCHANGED <<type, at>> /\ Step' = Step
    BY <1>1, <1>t DEF RefuseSetting, Find, At, Refuse, Step, TypeOK, WellOrdered
  <2>2. Step.key \in Keys /\ given'[Step.key] = v
    BY <1>1, <1>t, <2>1, ReadKey DEF RefuseSetting, Find, Step, TypeOK
  <2>3. /\ Proper(Step.key) \subseteq Step.ok
        /\ Step.required => Step.key \in Demanded(type)
    BY <1>t, <2>1, CreateAsDocumented DEF AsDocumented, Step
  <2>4. CASE v = "absent"
    <3>1. Missing(Step.key)'
      BY <1>1, <2>1, <2>2, <2>3, <2>4 DEF RefuseSetting, Accepted, Missing, Demanded
    <3> QED
      BY <2>1, <3>1 DEF RefusedForAReason, Step
  <2>5. CASE v # "absent"
    <3>1. v \notin Proper(Step.key) \cup {"absent", "unread"}
      BY <1>1, <2>3, <2>5 DEF RefuseSetting, Accepted, Kinds, String, List
    <3>2. Wrong(Step.key)'
      BY <2>1, <2>2, <3>1 DEF Wrong
    <3> QED
      BY <2>1, <3>2 DEF RefusedForAReason, Step
  <2> QED
    BY <2>4, <2>5
<1>2. CASE Exclude
  BY <1>2, <1>t DEF Exclude, At, Proceed, Refuse, Both, RefusedForAReason
<1>3. CASE ContactFails
  BY <1>3, <1>t DEF ContactFails, At, Refuse, Step, RefusedForAReason
<1>4. ASSUME NEW v \in Kinds, TakeSetting(v)
      PROVE  RefusedForAReason'
  BY <1>4 DEF TakeSetting, Find, At, Proceed, RefusedForAReason
<1>5. CASE SkipSetting \/ ContactSucceeds \/ Finish
  BY <1>5 DEF SkipSetting, ContactSucceeds, Finish, At, Proceed, RefusedForAReason
<1>6. CASE UNCHANGED vars
  BY <1>6 DEF vars, RefusedForAReason, Both, Step, Wrong, Missing
<1> QED
  BY <1>1, <1>2, <1>3, <1>4, <1>5, <1>6 DEF Next

\* A section is refused only for something the README forbids, or for a contact
\* that failed.
THEOREM RefusalsJustified == Spec => []RefusedForAReason
<1>1. Init => RefusedForAReason
  BY DEF Init, RefusedForAReason
<1> QED
  BY <1>1, TypeCorrect, ReasonStep, PTL DEF Spec
-----------------------------------------------------------------------------
\* Each setting is read once, and a map before what is in it.
Ordered(s) ==
  \A i, j \in 1..Len(s) :
    s[i].do = "read" /\ s[j].do = "read" =>
      /\ s[i].key = s[j].key => i = j
      /\ s[i].inside = s[j].key => j < i

\* Settings are in the section itself or in one of three maps, and the check that
\* a template and a transform exclude each other comes right after both.
Nests(s) ==
  \A i \in 1..Len(s) :
    /\ s[i].do = "read" =>
         /\ s[i].key # "section"
         /\ s[i].inside \in {"section", "tls", "auth", "transform"}
         /\ s[i].key = "key_mappings" => i + 1 \in 1..Len(s) /\ s[i + 1].do = "exclude"
         /\ s[i].key = "auth" => s[i].required /\ s[i].inside = "section" /\ s[i].ok = {"map"}
    /\ s[i].do = "exclude" =>
         /\ i > 4
         /\ s[i - 4].do = "read" /\ s[i - 4].key = "template"
         /\ s[i - 1].do = "read" /\ s[i - 1].key = "key_mappings"

\* The code accepts nothing but what the README allows.
OnlyProper(s) ==
  \A i \in 1..Len(s) :
    s[i].do = "read" /\ s[i].key \notin Unchecked => s[i].ok \subseteq Proper(s[i].key)

\* What the README requires is required, also if it is in a map.
Demands(t, s) ==
  \A k \in Demanded(t) : \E i \in 1..Len(s) :
    /\ s[i].do = "read" /\ s[i].key = k /\ s[i].required
    /\ s[i].inside = "section" \/ (s[i].inside = "auth" /\ "auth" \in Demanded(t))

\* What is known of a setting that Create has passed.
PassedRead(step) ==
  IF given[step.inside] = "map"
  THEN /\ given[step.key] \in Kinds
       /\ IF given[step.key] = "absent" THEN ~step.required ELSE given[step.key] \in step.ok
  ELSE given[step.key] = "unread"

\* A Create that has refused nothing so far has passed only what it accepts.
PassedInv ==
  outcome \in {"creating", "created"} =>
    /\ given["section"] = "map"
    /\ \A k \in Keys : given[k] # "unread" =>
         \E i \in 1..(at - 1) : Create[type][i].do = "read" /\ Create[type][i].key = k
    /\ \A i \in 1..(at - 1) :
         /\ Create[type][i].do = "read" => PassedRead(Create[type][i])
         /\ Create[type][i].do = "exclude" => ~Both
         /\ Create[type][i].do = "contact" => Create[type][i].key \in started
    /\ outcome = "created" => at = Len(Create[type]) + 1

LEMMA CreateOrdered == \A t \in Types : Ordered(Create[t])
<1> USE DEF Ordered, Content, ParseSecretTransformFromConfig, parseVaultConfig,
            Need, May, NeedIn, MayIn, Setting, Contact, Exclusive
<1>1. Ordered(CreateAwsSecretsManagerFile)
  BY SMTT(60) DEF CreateAwsSecretsManagerFile
<1>2. Ordered(CreateAzureKeyVaultFile)
  BY SMTT(60) DEF CreateAzureKeyVaultFile
<1>3. Ordered(CreateHashicorpVaultFile)
  BY HashicorpFileSteps, SMTT(60)
<1>4. Ordered(CreateFileJsonProvider)
  BY SMTT(60) DEF CreateFileJsonProvider
<1>5. Ordered(parseInputConfig)
  BY SMTT(60) DEF parseInputConfig
<1>6. Ordered(CreateAzure)
  BY SMTT(60) DEF CreateAzure
<1>7. Ordered(CreateHashicorp)
  BY SMTT(60) DEF CreateHashicorp
<1>8. Ordered(CreateAwsSecretsManager)
  BY SMTT(60) DEF CreateAwsSecretsManager
<1>9. Ordered(CreateOauth)
  BY SMTT(60) DEF CreateOauth, Numbers
<1> HIDE DEF Ordered
<1> QED
  BY <1>1, <1>2, <1>3, <1>4, <1>5, <1>6, <1>7, <1>8, <1>9 DEF Types, Create

LEMMA CreateNests == \A t \in Types : Nests(Create[t])
<1> USE DEF Nests, Content, ParseSecretTransformFromConfig, parseVaultConfig,
            Need, May, NeedIn, MayIn, Setting, Contact, Exclusive
<1>1. Nests(CreateAwsSecretsManagerFile)
  BY SMTT(60) DEF CreateAwsSecretsManagerFile
<1>2. Nests(CreateAzureKeyVaultFile)
  BY SMTT(60) DEF CreateAzureKeyVaultFile
<1>3. Nests(CreateHashicorpVaultFile)
  BY HashicorpFileSteps, SMTT(60)
<1>4. Nests(CreateFileJsonProvider)
  BY SMTT(60) DEF CreateFileJsonProvider
<1>5. Nests(parseInputConfig)
  BY SMTT(60) DEF parseInputConfig
<1>6. Nests(CreateAzure)
  BY SMTT(60) DEF CreateAzure
<1>7. Nests(CreateHashicorp)
  BY SMTT(60) DEF CreateHashicorp
<1>8. Nests(CreateAwsSecretsManager)
  BY SMTT(60) DEF CreateAwsSecretsManager
<1>9. Nests(CreateOauth)
  BY SMTT(60) DEF CreateOauth, Numbers
<1> HIDE DEF Nests
<1> QED
  BY <1>1, <1>2, <1>3, <1>4, <1>5, <1>6, <1>7, <1>8, <1>9 DEF Types, Create

LEMMA CreateOnlyProper == \A t \in Types : OnlyProper(Create[t])
<1> USE ProperIs DEF OnlyProper, Content, ParseSecretTransformFromConfig, parseVaultConfig,
            Need, May, NeedIn, MayIn, Setting, Contact, Exclusive
<1>1. OnlyProper(CreateAwsSecretsManagerFile)
  BY SMTT(60) DEF CreateAwsSecretsManagerFile
<1>2. OnlyProper(CreateAzureKeyVaultFile)
  BY SMTT(60) DEF CreateAzureKeyVaultFile
<1>3. OnlyProper(CreateHashicorpVaultFile)
  BY HashicorpFileSteps, SMTT(60)
<1>4. OnlyProper(CreateFileJsonProvider)
  BY SMTT(60) DEF CreateFileJsonProvider
<1>5. OnlyProper(parseInputConfig)
  BY SMTT(60) DEF parseInputConfig
<1>6. OnlyProper(CreateAzure)
  BY SMTT(60) DEF CreateAzure
<1>7. OnlyProper(CreateHashicorp)
  BY SMTT(60) DEF CreateHashicorp
<1>8. OnlyProper(CreateAwsSecretsManager)
  BY SMTT(60) DEF CreateAwsSecretsManager
<1>9. OnlyProper(CreateOauth)
  BY UncheckedIs, SMTT(60) DEF CreateOauth, Numbers
<1> HIDE DEF OnlyProper
<1> QED
  BY <1>1, <1>2, <1>3, <1>4, <1>5, <1>6, <1>7, <1>8, <1>9 DEF Types, Create

\* (The step that requires a setting is named.)
LEMMA CreateDemands == \A t \in Types : Demands(t, Create[t])
<1> USE DemandedIs DEF Content, ParseSecretTransformFromConfig, parseVaultConfig
<1>1. Demands("file_aws_secrets_manager", CreateAwsSecretsManagerFile)
  <2>1. /\ Len(CreateAwsSecretsManagerFile) = 10
        /\ CreateAwsSecretsManagerFile[1] = Need("region", String)
        /\ CreateAwsSecretsManagerFile[2] = Need("path", String)
        /\ CreateAwsSecretsManagerFile[3] = Need("secret_id", String)
        /\ CreateAwsSecretsManagerFile[4] = Need("refresh", {"number"})
    BY SMTT(30) DEF CreateAwsSecretsManagerFile
  <2> QED
    BY <2>1 DEF Demands, Need, NeedIn, Setting
<1>2. Demands("file_azure_key_vault", CreateAzureKeyVaultFile)
  <2>1. /\ Len(CreateAzureKeyVaultFile) = 12
        /\ CreateAzureKeyVaultFile[1] = Need("vault_url", String)
        /\ CreateAzureKeyVaultFile[2] = Need("path", String)
        /\ CreateAzureKeyVaultFile[3] = Need("secret_name", String)
        /\ CreateAzureKeyVaultFile[4] = Need("refresh", {"number"})
    BY SMTT(30) DEF CreateAzureKeyVaultFile
  <2> QED
    BY <2>1 DEF Demands, Need, NeedIn, Setting
<1>3. Demands("file_hashicorp_vault", CreateHashicorpVaultFile)
  BY HashicorpFileSteps DEF Demands, Need, NeedIn, Setting
<1>4. Demands("file_json", CreateFileJsonProvider)
  <2>1. /\ Len(CreateFileJsonProvider) = 8
        /\ CreateFileJsonProvider[1] = Need("input_path", String)
        /\ CreateFileJsonProvider[2] = Need("path", String)
        /\ CreateFileJsonProvider[3] = Need("refresh", {"number"})
    BY SMTT(30) DEF CreateFileJsonProvider
  <2> QED
    BY <2>1 DEF Demands, Need, NeedIn, Setting
<1>5. Demands("file_aws_iam_auth_rds", parseInputConfig)
  <2>1. /\ Len(parseInputConfig) = 7
        /\ parseInputConfig[1] = Need("region", String)
        /\ parseInputConfig[2] = Need("path", String)
        /\ parseInputConfig[3] = Need("db_name", String)
        /\ parseInputConfig[4] = Need("db_user", String)
        /\ parseInputConfig[5] = Need("db_host", String)
        /\ parseInputConfig[6] = Need("db_port", {"number"})
    BY SMTT(30) DEF parseInputConfig
  <2> QED
    BY <2>1 DEF Demands, Need, NeedIn, Setting
<1>6. Demands("proxy_azure_key_vault", CreateAzure)
  <2>1. /\ Len(CreateAzure) = 4
        /\ CreateAzure[1] = Need("vault_url", String)
    BY SMTT(30) DEF CreateAzure
  <2> QED
    BY <2>1 DEF Demands, Need, NeedIn, Setting
<1>7. Demands("proxy_hashicorp_vault", CreateHashicorp)
  <2>1. /\ Len(CreateHashicorp) = 13
        /\ CreateHashicorp[1] = Need("vault_addr", String)
        /\ CreateHashicorp[6] = Need("auth", {"map"})
        /\ CreateHashicorp[8] = NeedIn("auth", "role", String)
    BY SMTT(30) DEF CreateHashicorp
  <2> QED
    BY <2>1 DEF Demands, Need, NeedIn, Setting
<1>8. Demands("proxy_aws_secrets_manager", CreateAwsSecretsManager)
  BY DEF Demands
<1>9. Demands("proxy_awssm_oauth", CreateOauth)
  <2>1. /\ Len(CreateOauth) = 11
        /\ CreateOauth[11] = Need("jwt_claims_map", {"json"})
    BY SMTT(30) DEF CreateOauth, Numbers
  <2> QED
    BY <2>1 DEF Demands, Need, NeedIn, Setting
<1> QED
  BY <1>1, <1>2, <1>3, <1>4, <1>5, <1>6, <1>7, <1>8, <1>9 DEF Types, Create

-----------------------------------------------------------------------------
\* The maps, and the settings that exclude each other, are settings.
LEMMA KnownKeys ==
  /\ {"tls", "auth", "transform", "template", "key_mappings"} \subseteq Keys
  /\ \A t \in Types : \A i \in 1..Len(Create[t]) :
       Create[t][i].do = "read" =>
         /\ Create[t][i].key \in Keys /\ Create[t][i].key # "section"
         /\ Create[t][i].inside \in Keys \cup {"section"}
<1>1. \A i \in {3, 6, 17, 18, 20} :
        /\ i \in 1..Len(CreateHashicorpVaultFile)
        /\ CreateHashicorpVaultFile[i].do = "read"
        /\ CreateHashicorpVaultFile[i].key \in Keys
  <2>1. "file_hashicorp_vault" \in Types /\ Create["file_hashicorp_vault"] = CreateHashicorpVaultFile
    BY DEF Types, Create
  <2>2. \A i \in {3, 6, 17, 18, 20} :
          i \in 1..Len(CreateHashicorpVaultFile) /\ CreateHashicorpVaultFile[i].do = "read"
    BY HashicorpFileSteps DEF Need, May, MayIn, Setting
  <2> QED
    BY <2>1, <2>2, ReadKey
<1>2. {"tls", "auth", "transform", "template", "key_mappings"} \subseteq Keys
  BY <1>1, HashicorpFileSteps DEF Need, May, MayIn, Setting
<1> QED
  BY <1>2, ReadKey, CreateNests DEF Nests

LEMMA PassedStep == TypeOK /\ PassedInv /\ [Next]_vars => PassedInv'
<1> SUFFICES ASSUME TypeOK, PassedInv, [Next]_vars
             PROVE  PassedInv'
  OBVIOUS
<1> DEFINE s == Create[type]
<1>t. /\ type \in Types /\ Len(s) \in Nat
      /\ Ordered(s) /\ Nests(s)
      /\ at \in 1..(Len(s) + 1)
  BY CreateWellOrdered, CreateOrdered, CreateNests DEF TypeOK, WellOrdered
<1>k. \A i \in 1..Len(s) : s[i].do = "read" =>
        s[i].key \in Keys /\ s[i].key # "section" /\ s[i].inside \in Keys \cup {"section"}
  BY <1>t, KnownKeys
<1>1. ASSUME NEW v \in Kinds, TakeSetting(v)
      PROVE  PassedInv'
  <2>1. /\ at \in 1..Len(s) /\ s[at].do = "read" /\ outcome = "creating"
        /\ at' = at + 1 /\ at' - 1 = at
        /\ UNCHANGED <<type, outcome, started>>
        /\ given' = [given EXCEPT ![s[at].key] = v]
        /\ given[s[at].inside] = "map" /\ Accepted(v)
    BY <1>1, <1>t DEF TakeSetting, Find, At, Inside, Step, Proceed
  <2>2. /\ given'[s[at].key] = v /\ s[at].key # "section"
        /\ \A k \in Keys \cup {"section"} : k # s[at].key => given'[k] = given[k]
    BY <1>k, <2>1 DEF TypeOK
  <2>3. \A i \in 1..at : i \in 1..Len(s) /\ (i = at \/ i \in 1..(at - 1))
    BY <1>t, <2>1
  <2>4. given'["section"] = "map"
    BY <2>1, <2>2 DEF PassedInv
  <2>5. ASSUME NEW k \in Keys, given'[k] # "unread"
        PROVE  \E i \in 1..at : s[i].do = "read" /\ s[i].key = k
    BY <2>1, <2>2, <2>5 DEF PassedInv
  <2>6. ASSUME NEW i \in 1..at, s[i].do = "read"
        PROVE  PassedRead(s[i])'
    <3>1. CASE i = at
      <4>1. s[i].inside # s[i].key
        BY <1>t, <2>1, <3>1 DEF Ordered
      <4>2. given'[s[i].inside] = "map"
        BY <1>k, <2>1, <2>2, <3>1, <4>1
      <4> QED
        BY <2>1, <2>2, <3>1, <4>2 DEF PassedRead, Accepted, Step
    <3>2. CASE i \in 1..(at - 1)
      <4>1. s[i].key # s[at].key /\ s[i].inside # s[at].key
        BY <1>t, <2>1, <2>3, <2>6, <3>2 DEF Ordered
      <4>2. given'[s[i].key] = given[s[i].key] /\ given'[s[i].inside] = given[s[i].inside]
        BY <1>k, <2>2, <2>3, <2>6, <4>1
      <4>3. PassedRead(s[i])
        BY <2>1, <2>6, <3>2 DEF PassedInv
      <4> QED
        BY <2>1, <4>2, <4>3 DEF PassedRead
    <3> QED
      BY <2>3, <3>1, <3>2
  <2>7. ASSUME NEW i \in 1..at, s[i].do = "exclude"
        PROVE  ~Both'
    <3>1. i \in 1..(at - 1) /\ i \in 1..Len(s)
      BY <2>1, <2>3, <2>7
    <3>2. s[at].key \notin {"template", "key_mappings"}
      <4>1. /\ i > 4 /\ s[i - 4].do = "read" /\ s[i - 4].key = "template"
            /\ s[i - 1].do = "read" /\ s[i - 1].key = "key_mappings"
        BY <1>t, <2>7, <3>1 DEF Nests
      <4>2. i - 4 \in 1..Len(s) /\ i - 1 \in 1..Len(s) /\ i - 4 # at /\ i - 1 # at
        BY <1>t, <3>1, <4>1
      <4> QED
        BY <1>t, <2>1, <4>1, <4>2 DEF Ordered
    <3>3. given'["template"] = given["template"] /\ given'["key_mappings"] = given["key_mappings"]
      BY <2>2, <3>2, KnownKeys
    <3> QED
      BY <2>1, <2>7, <3>1, <3>3 DEF PassedInv, Both
  <2>8. ASSUME NEW i \in 1..at, s[i].do = "contact"
        PROVE  s[i].key \in started
    BY <2>1, <2>3, <2>8 DEF PassedInv
  <2> QED
    BY <2>1, <2>4, <2>5, <2>6, <2>7, <2>8 DEF PassedInv
<1>2. ASSUME NEW v \in Kinds, RefuseSetting(v)
      PROVE  PassedInv'
  BY <1>2 DEF RefuseSetting, Refuse, PassedInv
<1>3. ASSUME At("read") \/ At("exclude") \/ At("contact"), Proceed, UNCHANGED given, started \subseteq started',
             Step.do = "read" => PassedRead(Step),
             Step.do = "exclude" => ~Both,
             Step.do = "contact" => Step.key \in started'
      PROVE  PassedInv'
  <2>1. /\ at \in 1..Len(s) /\ outcome = "creating" /\ Step = s[at]
        /\ at' = at + 1 /\ at' - 1 = at /\ UNCHANGED <<type, outcome>>
    BY <1>3, <1>t DEF At, Step, Proceed
  <2>2. \A i \in 1..at : i = at \/ i \in 1..(at - 1)
    BY <1>t
  <2>3. \A i \in 1..(at - 1) : i \in 1..at
    BY <1>t
  <2>4. Both' <=> Both
    BY <1>3 DEF Both
  <2>5. \A i \in 1..at : PassedRead(s[i]) => PassedRead(s[i])'
    BY <1>3, <2>1 DEF PassedRead
  <2> QED
    BY <1>3, <2>1, <2>2, <2>3, <2>4, <2>5 DEF PassedInv
<1>4. CASE SkipSetting
  <2>1. /\ at \in 1..Len(s) /\ s[at].do = "read" /\ outcome = "creating"
        /\ given[s[at].inside] # "map" /\ Step = s[at]
    BY <1>4, <1>t DEF SkipSetting, At, Inside, Step
  <2>2. given[s[at].key] = "unread"
    <3>1. \A i \in 1..(at - 1) : ~(s[i].do = "read" /\ s[i].key = s[at].key)
      BY <1>t, <2>1 DEF Ordered
    <3> QED
      BY <1>k, <2>1, <3>1 DEF PassedInv
  <2> QED
    BY <1>3, <1>4, <2>1, <2>2 DEF SkipSetting, PassedRead
<1>5. CASE Exclude
  <2>1. CASE Both
    BY <1>5, <2>1 DEF Exclude, Refuse, PassedInv
  <2>2. CASE ~Both
    BY <1>3, <1>5, <2>2 DEF Exclude, At
  <2> QED
    BY <2>1, <2>2
<1>6. CASE ContactSucceeds
  BY <1>3, <1>6 DEF ContactSucceeds, At
<1>7. CASE ContactFails
  BY <1>7 DEF ContactFails, Refuse, PassedInv
<1>8. CASE Finish
  <2>1. at = Len(s) + 1
    BY <1>8, <1>t DEF Finish
  <2> QED
    BY <1>8, <2>1 DEF Finish, PassedInv, PassedRead, Both
<1>9. CASE UNCHANGED vars
  BY <1>9 DEF vars, PassedInv, PassedRead, Both
<1> QED
  BY <1>1, <1>2, <1>4, <1>5, <1>6, <1>7, <1>8, <1>9 DEF Next

\* A Create that has passed its whole list has seen to all the README asks for.
LEMMA AllPassed == TypeOK /\ PassedInv => CreatedAsDocumented
<1> SUFFICES ASSUME TypeOK, PassedInv, outcome = "created"
             PROVE  /\ \A k \in Keys : ~Missing(k)
                    /\ \A k \in Keys \ Unchecked : ~Wrong(k)
                    /\ ~Both
                    /\ \A i \in 1..Len(Create[type]) :
                         Create[type][i].do = "contact" => Create[type][i].key \in started
  BY DEF CreatedAsDocumented
<1> DEFINE s == Create[type]
<1>1. /\ type \in Types /\ Len(s) \in Nat /\ at - 1 = Len(s) /\ Nests(s)
      /\ Demands(type, s)
      /\ OnlyProper(s)
  BY CreateWellOrdered, CreateNests, CreateDemands, CreateOnlyProper DEF TypeOK, PassedInv, WellOrdered
<1>2. /\ given["section"] = "map"
      /\ \A k \in Keys : given[k] # "unread" =>
           \E i \in 1..Len(s) : s[i].do = "read" /\ s[i].key = k
      /\ \A i \in 1..Len(s) :
           /\ s[i].do = "read" => PassedRead(s[i])
           /\ s[i].do = "exclude" => ~Both
           /\ s[i].do = "contact" => s[i].key \in started
  BY <1>1 DEF PassedInv
<1>3. "unread" \notin Kinds
  BY DEF Kinds, String, List
<1>4. ASSUME NEW i \in 1..Len(s), s[i].do = "read", s[i].required, given[s[i].inside] = "map"
      PROVE  given[s[i].key] \notin {"absent", "unread"} /\ given[s[i].key] \in s[i].ok
  BY <1>2, <1>3, <1>4 DEF PassedRead
<1>5. ASSUME NEW k \in Demanded(type)
      PROVE  given[k] \notin {"absent", "unread"}
  <2>1. "auth" \in Demanded(type) => given["auth"] = "map"
    <3>1. ASSUME "auth" \in Demanded(type)
          PROVE  \E i \in 1..Len(s) : s[i].do = "read" /\ s[i].key = "auth"
      BY <1>1, <3>1 DEF Demands
    <3> QED
      BY <1>1, <1>2, <1>4, <3>1 DEF Nests
  <2>2. PICK i \in 1..Len(s) :
          /\ s[i].do = "read" /\ s[i].key = k /\ s[i].required
          /\ s[i].inside = "section" \/ (s[i].inside = "auth" /\ "auth" \in Demanded(type))
    BY <1>1 DEF Demands
  <2> QED
    BY <1>2, <1>4, <2>1, <2>2
<1>6. ASSUME NEW k \in Keys \ Unchecked
      PROVE  ~Wrong(k)
  <2>1. CASE given[k] = "unread"
    BY <2>1 DEF Wrong
  <2>2. CASE given[k] # "unread"
    <3>1. PICK i \in 1..Len(s) : s[i].do = "read" /\ s[i].key = k
      BY <1>2, <2>2
    <3>2. given[k] = "absent" \/ given[k] \in s[i].ok
      BY <1>2, <2>2, <3>1 DEF PassedRead
    <3> QED
      BY <1>1, <1>6, <3>1, <3>2 DEF OnlyProper, Wrong
  <2> QED
    BY <2>1, <2>2
<1>7. ~Both
  <2>1. SUFFICES ASSUME Both PROVE FALSE
    OBVIOUS
  <2>2. PICK i \in 1..Len(s) : s[i].do = "read" /\ s[i].key = "key_mappings"
    BY <1>2, <2>1, KnownKeys DEF Both
  <2> QED
    BY <1>1, <1>2, <2>1, <2>2 DEF Nests
<1> QED
  BY <1>2, <1>5, <1>6, <1>7 DEF Missing, Demanded

\* A provider exists only for a section that has all the README requires, each
\* setting of the kind it says, and after all its contacts went well.
THEOREM CreatedOnlyAsDocumented == Spec => []CreatedAsDocumented
<1>1. Init => PassedInv
  <2> SUFFICES ASSUME Init PROVE PassedInv
    OBVIOUS
  <2>1. at = 1 /\ outcome = "creating" /\ given["section"] = "map"
    BY DEF Init
  <2>2. \A k \in Keys : given[k] = "unread"
    <3>1. "section" \notin Keys
      BY KnownKeys DEF Keys, Steps
    <3> QED
      BY <3>1 DEF Init
  <2> QED
    BY <2>1, <2>2 DEF PassedInv
<1> QED
  BY <1>1, TypeCorrect, PassedStep, AllPassed, PTL DEF Spec
=============================================================================
