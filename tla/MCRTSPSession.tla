-------------------------- MODULE MCRTSPSession --------------------------
(***************************************************************************)
(* Instances of RTSPSession for TLC: the requests the clients choose from. *)
(***************************************************************************)
EXTENDS RTSPSession, TLC

Ask(m, s, t, v) == [method |-> m, stream |-> s, transport |-> t, valid |-> v]

\* Two streams, over UDP and interleaved, named one by one and all at once, the malformed
\* requests that change state without an answer, and those that end the process.
WideRequests ==
    {Ask("SETUP", 1, "udp", TRUE), Ask("SETUP", 2, "tcp", TRUE),
     Ask("SETUP", 1, "tcp", FALSE), Ask("SETUP", 2, "bad", TRUE),
     Ask("PLAY", Every, "none", TRUE), Ask("PLAY", 1, "none", TRUE),
     Ask("TEARDOWN", Every, "none", TRUE), Ask("TEARDOWN", 1, "none", FALSE),
     Ask("SETUP", 1, "range", TRUE), Ask("PLAY", MaxInt + 1, "none", TRUE)}

\* One stream over UDP: a client may set it up, play it and tear it down again and again.
DeepRequests ==
    {Ask("SETUP", 1, "udp", TRUE), Ask("PLAY", 1, "none", TRUE),
     Ask("TEARDOWN", Every, "none", TRUE)}

\* An interleaved session and the request a client may make at any time.
OptionsRequests ==
    {Ask("SETUP", 1, "tcp", TRUE), Ask("TEARDOWN", 1, "none", TRUE),
     Ask("OPTIONS", Every, "none", TRUE)}

\* A session over UDP whose PLAY may lack the CSeq field.
PlayRequests ==
    {Ask("SETUP", 1, "udp", TRUE), Ask("PLAY", 1, "none", TRUE), Ask("PLAY", 1, "none", FALSE)}

Symmetry == Permutations(Clients)
==========================================================================
