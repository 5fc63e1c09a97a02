----------------------------- MODULE MCBookMeta -----------------------------
EXTENDS BookMeta
=============================================================================
