----------------------------- MODULE MCPubPipe -----------------------------
EXTENDS PubPipe
=============================================================================
