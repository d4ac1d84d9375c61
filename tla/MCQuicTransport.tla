--------------------------- MODULE MCQuicTransport ---------------------------
(* Small instances of QuicTransport: the kinds of datagram a run may lose.  *)
EXTENDS QuicTransport

\* Everything but the three kinds whose single loss a request does not survive:
\* a retransmitted INITIAL spoils the handshake, and the other two are never
\* retransmitted.
Recoverable == {"ACK", "APP_DATA", "ServerHello", "ClientKeyExchange", "ServerFinished"}

\* Bound of QuicNetwork: two connections answer four handshake packets, and
\* one answer more is a packet answered again.
FewAnswers ==
  Cardinality({p \in net : p.dst # Server /\ p.type = "HANDSHAKE"}) <= 5
=============================================================================
