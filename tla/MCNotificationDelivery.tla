------------------------ MODULE MCNotificationDelivery ------------------------
(* Small instances of NotificationDelivery.                                 *)
EXTENDS NotificationDelivery, TLC

CONSTANTS r1, r2, r3, r4, d1, k, none

(* Two equal requests of the organisation for one key, the first with a     *)
(* background batch; the platform uses that key for itself, in a mail, with *)
(* a background batch too, and in an in-app notification.                   *)
MCKeyOf    == [r \in Request |-> k]
MCPayloads == [r \in Request |-> IF r = r3 THEN "mail" ELSE IF r = r4 THEN "note" ELSE "same"]
=============================================================================
