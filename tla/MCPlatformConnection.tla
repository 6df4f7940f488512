---- MODULE MCPlatformConnection ----
EXTENDS PlatformConnection
====
