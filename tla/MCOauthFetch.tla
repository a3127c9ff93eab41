----------------------------- MODULE MCOauthFetch -----------------------------
\* An instance of OauthFetch for TLC: one access token of one backend.
EXTENDS OauthFetch

CONSTANT r1

OneToken == {<< <<"cert">>, <<"hasura">>, <<"client">>, <<"key">> >>}
OauthSeparators == << <<"_">>, <<"_">>, <<"_">> >>
=============================================================================
