----------------------------- MODULE MCWsBridge -----------------------------
(* Values for the constants of WsBridge that a cfg cannot write. *)
EXTENDS WsBridge

\* Both messages have one time stamp; by the low bits of the nonces alone the
\* second would come first.
TwoTs    == <<2, 2>>
TwoNonce == << <<1, 0, 0, 3>>, <<1, 2, 0, 0>> >>
OneTs    == <<2>>
OneNonce == << <<1, 0, 0, 3>> >>
NoStamps == <<>>

\* A peer comes with the messages.
PeerNews == {EventAt("peer_up", 2)}
Report   == {Event("net_report")}
=============================================================================
