--------------------------- MODULE MCReplacements ---------------------------
EXTENDS Replacements, MCProvisioning
=============================================================================
