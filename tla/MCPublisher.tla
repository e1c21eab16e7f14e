---------------------------- MODULE MCPublisher -----------------------------
EXTENDS Publisher
=============================================================================
