----------------------------- MODULE MCDelivery -----------------------------
(* Small instances of Delivery for TLC.                                    *)
EXTENDS Delivery, TLC

CONSTANTS u1, u2, sender, p1

MCSubscribers == {u1, u2}
MCAdmins == {u1}
MCResends == {p1}
MCCodes == {421, 450, 550}
=============================================================================
