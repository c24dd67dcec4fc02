--------------------------- MODULE MCBackupVerify ---------------------------
\* Small instances of BackupVerify: its constants are given in the cfg files.
EXTENDS BackupVerify
=============================================================================
