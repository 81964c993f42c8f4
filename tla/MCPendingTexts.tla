-------------------------- MODULE MCPendingTexts --------------------------
EXTENDS PendingTexts
===========================================================================
