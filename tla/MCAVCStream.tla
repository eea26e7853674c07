---------------------------- MODULE MCAVCStream ----------------------------
(***************************************************************************)
(* An instance of SDPEncoder for TLC: units around the size of a packet    *)
(* and of two, with zeros and ones where a start code could be seen, and   *)
(* not ending in zero, as H.264 makes them.                                *)
(***************************************************************************)
EXTENDS SDPEncoder

\* None, one or the other absent; lengths 5, 2, 6 and 4 leave each rest when
\* octets go by threes.
Sets == {<<<<>>, <<104, 1>>>>, <<<<103, 0, 1>>, <<>>>>, <<<<103, 0, 0, 3, 1>>, <<104, 2>>>>,
         <<<<103, 200, 0, 255, 31, 7>>, <<104, 206, 60, 129>>>>}

NALs == {<<101>>, <<65, 0, 9>>, <<101, 0, 0, 3>>, <<65, 0, 1, 0, 1>>, <<101, 1, 2, 3, 4, 5>>}

Pieces == [codelen : {3, 4}, nal : NALs]

FrameSet == UNION {[1..n -> Pieces] : n \in 1..2}
============================================================================
