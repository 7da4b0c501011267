---------------------------- MODULE MCChangeOrder ----------------------------
EXTENDS ChangeOrder, TLC

CONSTANTS t1, t2, c1, c2

\* Two threads commit, one mutation both of them; the second also ingests
\* observations and consumes the feed.
HostRoles == (t1 :> {c1, c2}) @@ (t2 :> {c1, "ack", "ingest"})

=============================================================================
