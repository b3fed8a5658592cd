------------------------ MODULE MCConfirmationQueue ------------------------
\* The confirmation queue with few hashes, callers and loops.  The bounds are
\* set in the configurations.
EXTENDS ConfirmationQueue
=============================================================================
