--------------------------- MODULE MCClientDelivery ---------------------------
(* The instances of ClientDelivery that TLC checks.                        *)
EXTENDS ClientDelivery

MCPayload == 1 .. MaxSamples
NoPoison == {}
OnePoison == {1}
=============================================================================
