----------------------------- MODULE MCNotices -----------------------------
(* Notices on a small instance: two logins and pages of one activity.      *)
EXTENDS Notices
=============================================================================
