------------------------------ MODULE MCIngest ------------------------------
EXTENDS IngestDaemon
=============================================================================
