-------------------------- MODULE ApplicationRemindersMC --------------------------
(* Instances of ApplicationReminders for TLC: two requests at once, four days. *)
EXTENDS ApplicationReminders

MCRequests == {"r1", "r2"}
MCDates == {1, 2}
=============================================================================
