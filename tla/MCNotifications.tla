--------------------------- MODULE MCNotifications ---------------------------
(* Up to three messages.  An entry of 2 fits a prompt beside a reference, one of 3 *)
(* only alone, and one of 4 never.                                                 *)
EXTENDS Notifications

CONSTANTS ann, you
=============================================================================
