---- MODULE MCWebSocketCall ----
EXTENDS WebSocketCall
====
