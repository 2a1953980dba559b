------------------------------ MODULE MCUpdater ------------------------------
\* Two releases that work, one that does not, and one that works again.
EXTENDS Updater
=============================================================================
