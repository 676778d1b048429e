----------------------------- MODULE MCPiWorker -----------------------------
\* A small instance of PiWorker: one place in every channel and pipe.
EXTENDS PiWorker

MCParts == {"attached", "history"}
MCCarries == <<"attached", NoPart, "history", NoPart>>
=============================================================================
