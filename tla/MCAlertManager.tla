--------------------------- MODULE MCAlertManager ---------------------------
(* A small instance of the alert pump for TLC.  Two types would only let    *)
(* more handlers be registered; the sequence of alerts is what matters.     *)
EXTENDS AlertManager

CONSTANTS t1, h1, h2, p1, p2

OneType == {t1}
MCHandlers == {h1, h2}
MCAsync == {h2}
MCPollers == {p1, p2}
=============================================================================
