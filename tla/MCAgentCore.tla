---------------------------- MODULE MCAgentCore ----------------------------
EXTENDS AgentCore
=============================================================================
