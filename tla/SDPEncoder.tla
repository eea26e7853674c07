----------------------------- MODULE SDPEncoder -----------------------------
(***************************************************************************)
(* The description of a stream, which DESCRIBE answers (SDPEncoder.cpp):   *)
(* add_media writes the packetization mode and, in base64, the parameter   *)
(* sets of the stream AVCStream models.  A line is what its fields say; a  *)
(* base64 character is its value, or Pad.                                  *)
(***************************************************************************)
EXTENDS AVCStream

Sextet == 0..63
Pad    == 64      \* '=', and what pr2six gives for every character outside the alphabet
-----------------------------------------------------------------------------
(* base64_encode and base64_decode: groups of three octets, and of four characters.        *)

\* Mutant of Base64Encode: an incomplete last group always ends in two characters of padding.
Base64EncodePads(s) ==
    LET n == Len(s)
        octet(i) == IF i <= n THEN s[i] ELSE 0
    IN  [k \in 1..4 * ((n + 2) \div 3) |->
           LET i == 3 * ((k - 1) \div 4)
           IN  CASE k % 4 = 1 -> octet(i + 1) \div 4
                 [] k % 4 = 2 -> (octet(i + 1) % 4) * 16 + octet(i + 2) \div 16
                 [] k % 4 = 3 -> IF i + 3 > n THEN Pad
                                 ELSE 4 * (octet(i + 2) % 16) + octet(i + 3) \div 64
                 [] OTHER     -> IF i + 3 > n THEN Pad ELSE octet(i + 3) % 64]

\* Characters that would hold nothing but missing octets are padding.
Base64Encode(s) ==
    LET n == Len(s)
        octet(i) == IF i <= n THEN s[i] ELSE 0
    IN  [k \in 1..4 * ((n + 2) \div 3) |->
           LET i == 3 * ((k - 1) \div 4)
           IN  CASE k % 4 = 1 -> octet(i + 1) \div 4
                 [] k % 4 = 2 -> (octet(i + 1) % 4) * 16 + octet(i + 2) \div 16
                 [] k % 4 = 3 -> IF i + 2 > n THEN Pad
                                 ELSE 4 * (octet(i + 2) % 16) + octet(i + 3) \div 64
                 [] OTHER     -> IF i + 3 > n THEN Pad ELSE octet(i + 3) % 64]

\* The characters before the first that is not of the alphabet, decoded.  The server has this
\* function and does not call it; a client's does the same.
Base64Decode(c) ==
    LET n == CHOOSE m \in 0..Len(c) : /\ \A k \in 1..m : c[k] \in Sextet
                                      /\ m = Len(c) \/ c[m + 1] \notin Sextet
    IN  [k \in 1..(3 * ((n + 3) \div 4) - ((4 - n) % 4)) |->
           LET i == 4 * ((k - 1) \div 3)
           IN  CASE k % 3 = 1 -> c[i + 1] * 4 + c[i + 2] \div 16
                 [] k % 3 = 2 -> (c[i + 2] % 16) * 16 + c[i + 3] \div 4
                 [] OTHER     -> (c[i + 3] % 4) * 64 + c[i + 4]]
-----------------------------------------------------------------------------
(* add_media, of the stream as its constructor left it.                                    *)

\* AVCStream::sps_pps: both parameter sets or none.
SpsPps == IF sps # <<>> /\ pps # <<>> THEN <<sps, pps>> ELSE <<>>

\* The a=fmtp line: packed() is true for every stream; profile-level-id, which is written with
\* the sets, restates octets of the first and is left out.
Fmtp == [mode |-> 1, sprop |-> [i \in DOMAIN SpsPps |-> Base64Encode(SpsPps[i])]]
-----------------------------------------------------------------------------
\* What DESCRIBE announces is what the packets bring (add_media against push_frame): a client
\* that sets its decoder up from sprop-parameter-sets has the units every client is sent before
\* the first frame, bit for bit, and fragments come only in the mode that allows them (RFC
\* 6184, 6.3).
AnnouncedIsSent ==
    /\ out # NoPacket /\ out.packet.form = "fua" => Fmtp.mode = 1
    /\ Fmtp.sprop # <<>> =>
         \A i \in 1..2 : Len(rebuilt) >= i => Base64Decode(Fmtp.sprop[i]) = rebuilt[i]
=============================================================================
