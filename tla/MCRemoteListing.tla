-------------------------- MODULE MCRemoteListing ---------------------------
EXTENDS RemoteListing
=============================================================================
