-------------------------- MODULE MCDesktopShelves --------------------------
EXTENDS DesktopShelves
=============================================================================
