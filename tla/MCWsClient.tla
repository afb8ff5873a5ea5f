---------------------------- MODULE MCWsClient ----------------------------
(* Two reader and two operation identities: enough for a second doReceive *)
(* or a second outstanding write.  The urls cover a host alone, a port, a  *)
(* path, a port and a path, a bad port and a bad scheme.                  *)
EXTENDS WsClient, TLC

CONSTANTS r1, r2, o1, o2

MCReaders == {r1, r2}
MCOps == {o1, o2}

MCUrlHost     == <<"w", "s", ":", "/", "/", "h">>
MCUrlPort     == MCUrlHost \o <<":", "8">>
MCUrlPath     == MCUrlHost \o <<"/", "s">>
MCUrlPortPath == MCUrlPort \o <<"/", "s">>
MCUrlBadPort  == MCUrlHost \o <<":", "s">>
MCUrlBadProto == <<"h", "s", ":", "/", "/", "h">>

MCUrls == {MCUrlHost, MCUrlPort, MCUrlPath, MCUrlBadPort, MCUrlBadProto}
MCUrlsAll == MCUrls \cup {MCUrlPortPath}

MCSymmetry == Permutations(MCReaders) \cup Permutations(MCOps)

=============================================================================
