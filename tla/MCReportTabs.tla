---------------------------- MODULE MCReportTabs ----------------------------
(* A small instance of ReportTabs: a fiscal year that ends on 30 June, and days
   at the end of a month in a leap year and at the start of the fiscal year. *)
EXTENDS ReportTabs

MCDay == {DayOf(2024, 2, 29), DayOf(2024, 7, 1)}
MCPicked == {DayOf(2024, 3, 15)}
=============================================================================
