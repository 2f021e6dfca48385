---------------------------- MODULE MCWebClient -----------------------------
EXTENDS WebClient
=============================================================================
