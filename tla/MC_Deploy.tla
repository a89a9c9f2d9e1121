------------------------------ MODULE MC_Deploy ------------------------------
EXTENDS Deploy
===============================================================================
