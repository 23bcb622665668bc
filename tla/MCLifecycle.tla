----------------------------- MODULE MCLifecycle ------------------------------
EXTENDS Lifecycle
=============================================================================
