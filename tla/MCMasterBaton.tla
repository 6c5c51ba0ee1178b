---------------------------- MODULE MCMasterBaton ----------------------------
EXTENDS MasterBaton
=============================================================================
