----------------------------- MODULE MCReculock -----------------------------
EXTENDS Reculock, TLC

CONSTANTS la, lb

\* one lock is taken recursively, the other once
MCDepth == (la :> 2 @@ lb :> 1)
=============================================================================
