-------------------------- MODULE MCSessionOutput --------------------------
(* TLC instances of SessionOutput; the cfg files choose the bounds.          *)
EXTENDS SessionOutput

\* A session that nobody follows: its bytes are the same with a client.  It is
\* told from one whose client is done by the cursor, which never moves.
Unfollowed == client = "done" /\ cursor = 0

\* A followed session on a terminal: one reader, of a merged stream.
Terminal == rd["pty"] = "reading" /\ retention = "head"

CasesInit == OutputInit("done") \/ (Init /\ Terminal)
CasesSpec == CasesInit /\ [][Next]_vars /\ Fairness

\* Control calls are made in the followed case, up to the end of the session, and
\* most bytes are read in the other.
Cases ==
    IF Unfollowed THEN calls = 0 ELSE total <= 1 /\ (terminal => ctl = "idle")

=============================================================================
