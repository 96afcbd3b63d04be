------------------------------- MODULE MCHttp -------------------------------
(* One client of either kind.  The time-out lies between the intervals, so *)
(* a post may be due before the last one timed out, and after.             *)
EXTENDS HttpClient
=============================================================================
