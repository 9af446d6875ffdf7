------------------------- MODULE MCRuntimeProgress -------------------------
EXTENDS RuntimeProgress
============================================================================
