----------------------------- MODULE MCDiscovery -----------------------------
EXTENDS Discovery

TestLocalArgument == <<"localhost", "50051">>
LocalServer == <<"localhost", "50051">>
=============================================================================
