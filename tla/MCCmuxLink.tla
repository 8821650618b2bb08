---------------------------- MODULE MCCmuxLink -----------------------------
EXTENDS CmuxLink
=============================================================================
