---- MODULE MCAsteriskCalls ----
EXTENDS AsteriskCalls
====
