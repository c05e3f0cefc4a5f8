--------------------------- MODULE MCCalendarFile ---------------------------
(* Arguments of the daily sink, at midnight and at noon, and of the hourly one. *)
EXTENDS CalendarFile

MCArguments ==
    [hourly : {FALSE}, rotation : {0, 1}, truncate : BOOLEAN, max_files : {1, 2}]
        \cup [hourly : {TRUE}, rotation : {0}, truncate : BOOLEAN, max_files : {0, 1, 2}]
=============================================================================
