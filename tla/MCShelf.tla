------------------------------ MODULE MCShelf ------------------------------
EXTENDS Shelf
=============================================================================
