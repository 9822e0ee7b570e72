----------------------------- MODULE MCCoreLock -----------------------------
EXTENDS CoreLock

CONSTANTS h1, h2, h3
=============================================================================
