----------------------------- MODULE MCLiveSession -----------------------------
EXTENDS LiveSession, TLC
===============================================================================
