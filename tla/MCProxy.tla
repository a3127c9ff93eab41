------------------------------- MODULE MCProxy -------------------------------
\* Instances of Proxy for TLC.
EXTENDS Proxy, TLC

CONSTANTS r1, r2

\* proxy_aws_sm_oauth: certificate, backend, client and private key ids, joined
\* by "_"; an access token for one of two backends.
OauthSecrets ==
  {<< <<"cert">>, <<"hasura">>, <<"client">>, <<"key">> >>,
   << <<"cert">>, <<"billing">>, <<"client">>, <<"key">> >>}
OauthSeparators == << <<"_">>, <<"_">>, <<"_">> >>

\* proxy_azure_key_vault: the name of the secret is the key.
AzureSecrets == {<< <<"password">>, <<>>, <<>>, <<>> >>}
AzureSeparators == << <<>>, <<>>, <<>> >>

\* proxy_hashicorp_vault: mount, path, version and field.  A path and the name of
\* a field may be any text: here a field of the secret "bob", and one of another
\* secret, whose path begins with "bob" too.
VaultSecrets ==
  {<< <<"kv">>, <<"bob">>, <<>>, <<"admin", "@", "#", "password">> >>,
   << <<"kv">>, <<"bob", "@", "#", "admin">>, <<>>, <<"password">> >>}
VaultSeparators == << <<"/">>, <<"@">>, <<"#">> >>

AnyRequest == Permutations({r1, r2})
=============================================================================
