------------------------ MODULE MCNotificationListing ------------------------
(* A table of four buckets and orderIds that share buckets and lie in it in   *)
(* another order than their own.                                             *)
EXTENDS NotificationListing

FiveOrderIds == 1 .. 5
=============================================================================
