-------------------------- MODULE MCVersionChecker ---------------------------
EXTENDS VersionChecker

MCNumbers == {<<"1">>, <<"1", "0">>}

=============================================================================
