----------------------------- MODULE MCGateway -----------------------------
(* The whole gateway on small instances.                                   *)
EXTENDS Gateway

CONSTANTS l1, l2, f1, f2, p1, d1, d2

OneListener == {l1}
TwoListeners == {l1, l2}
OneFramer == {f1}
TwoFramers == {f1, f2}
OneFft == {p1}
OneDemux == {d1}
TwoDemuxes == {d1, d2}

FramesOnly == {"frame"}
AllKinds == {"frame", "invalid", "partial"}
HostOnly == {"host"}
WithPort == {"host:port"}
AnyAddress == {"host", "host:port", "host:0"}
Down == {FALSE}
UpOrDown == BOOLEAN
=============================================================================
