--------------------------- MODULE MCBookSources ----------------------------
EXTENDS BookSources
=============================================================================
