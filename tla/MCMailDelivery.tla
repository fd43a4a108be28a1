-------------------------- MODULE MCMailDelivery --------------------------
(* MailDelivery on a small instance: two receivers, a message received and  *)
(* one sent.                                                                *)
EXTENDS MailDelivery
=============================================================================
