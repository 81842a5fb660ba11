---------------------------- MODULE MCBroadcast ----------------------------
EXTENDS Broadcast, TLC

CONSTANTS w1, w2

\* Three recipients, then one.
MCTotal == <<3, 1>>

=============================================================================
