----------------------------- MODULE MCTransport -----------------------------
(* SharedBufferTransport for TLC: the sets of model values of its runs. *)
EXTENDS TransportInvariant

CONSTANTS s1, s2, h1, h2, p1, p2

TwoImporters == {s1, s2}
OneImporter == {s1}
OnePublisher == {p1}
TwoPublishers == {p1, p2}
NoRelay == {}
OneHandle == {h1}
TwoHandles == {h1, h2}
OneSize == {32}
TwoSizes == {32, 64}
=============================================================================
