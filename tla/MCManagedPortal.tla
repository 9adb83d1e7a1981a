--------------------------- MODULE MCManagedPortal ---------------------------
EXTENDS ManagedPortal
=============================================================================
