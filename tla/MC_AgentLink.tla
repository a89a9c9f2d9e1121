---------------------------- MODULE MC_AgentLink ----------------------------
EXTENDS AgentLink
===============================================================================
