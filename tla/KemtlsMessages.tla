--------------------------- MODULE KemtlsMessages ---------------------------
(***************************************************************************)
(* The messages and keys of one KEMTLS handshake, with ideal cryptography: *)
(* a KEM secret is known by the ciphertexts it was encapsulated in and the *)
(* ephemeral key that opens them, a MAC and a derived key are the tuple of *)
(* what goes into them.  A transcript is the sequence of messages a side   *)
(* has appended so far.                                                    *)
(***************************************************************************)
EXTENDS Sequences

\* `random` tells the client's connection attempts apart, `eph` the server's
\* handshakes (each draws an ephemeral key pair and a session_id).
ClientHello(random) == [type |-> "ClientHello", random |-> random]

ServerHello(eph) == [type |-> "ServerHello", eph |-> eph]

\* ct_ephemeral and ct_longterm, encapsulated to the keys of ServerHello sh.
ClientKeyExchange(random, sh) ==
  [type |-> "ClientKeyExchange", random |-> random, eph |-> sh.eph]

\* What a server whose ephemeral key is eph gets from cke.  ML-KEM never
\* refuses a ciphertext made for another key: the result is just a secret
\* nobody else has, here a pair that differs from the client's.
Decapsulate(eph, cke) == <<cke, eph>>
Encapsulated(cke) == Decapsulate(cke.eph, cke)

\* The MACs of the Finished messages cover the hellos (t1) and the hellos with
\* ClientKeyExchange (t2); the application keys come from all four (t3).
T1(transcript) == SubSeq(transcript, 1, 2)
T2(transcript) == SubSeq(transcript, 1, 3)
T3(transcript) == SubSeq(transcript, 1, 4)

ServerFinished(secret, transcript) ==
  [type |-> "ServerFinished", mac |-> <<"server", secret, T1(transcript)>>]

ClientFinished(secret, transcript) ==
  [type |-> "ClientFinished", mac |-> <<"client", secret, T2(transcript)>>]

ServerFinishedVerifies(m, secret, transcript) ==
  m = ServerFinished(secret, transcript)

\* Mutant: only the key is checked, not what was exchanged under it.
ClientFinishedKeyVerifies(m, secret, transcript) ==
  m.type = "ClientFinished" /\ m.mac[2] = secret

\* A message without a MAC field raises, like one with the wrong MAC.
ClientFinishedVerifies(m, secret, transcript) ==
  m = ClientFinished(secret, transcript)

\* The application traffic secrets, the write keys and IVs of both directions
\* and the exporter secret are all functions of these two.
ApplicationKeys(secret, transcript) == <<secret, T3(transcript)>>
=============================================================================
