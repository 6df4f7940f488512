---- MODULE MCDialer ----
EXTENDS Dialer
====
