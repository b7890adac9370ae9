--------------------------- MODULE MCClickAnalytics ------------------------
(* ClickAnalytics for TLC: an old click of one visitor, new ones of another. *)
EXTENDS ClickAnalytics

MCVisitorOf == [v \in Visits |-> IF v \in Old THEN 0 ELSE 1]
=============================================================================
