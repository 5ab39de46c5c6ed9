-------------------------- MODULE MCPortReservation --------------------------
EXTENDS PortReservation, TLC

CONSTANTS run1, run2

\* Two validators take
\*    with ten ports between their bases, from 1: 1..6 and 11..16,
\*                                        from 6: 6..11 and 16..21,
\*    with five, which overlap, from 1: 1..6 and 6..11, from 6: 6..11 and 11..16,
\* so two callers can meet on 6 and 11 in different roles; from 6 the last port
\* of the first, 21, is too high.  Another process has the start of a block on
\* 127.0.0.1, or the UDP port of the first node from 1, which nobody probes.
MCEphemeral == {1, 6}
MCSquatSockets == {<<"loopback", 6>>, <<"udp", 2>>}
MCStride == run1 :> 10 @@ run2 :> 5
MCHosts == run1 :> {"loopback"} @@ run2 :> {"outside"}
=============================================================================
