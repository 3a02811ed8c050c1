-------------------------- MODULE MCRestoreStaging --------------------------
EXTENDS RestoreStagingProperties
=============================================================================
