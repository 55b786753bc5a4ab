----------------------------- MODULE MCRedoLog -----------------------------
\* Small instances of RedoLog for TLC.
EXTENDS RedoLog

=============================================================================
