----------------------- MODULE MCNotificationDelivery -----------------------
(* Two workers. Liveness is checked with safety, so there is no symmetry.    *)
EXTENDS NotificationDelivery
==============================================================================
