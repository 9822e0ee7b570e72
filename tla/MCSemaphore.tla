---------------------------- MODULE MCSemaphore ----------------------------
EXTENDS Semaphore

CONSTANTS h1, h2, h3
=============================================================================
