------------------------ MODULE MCDocumentFileFlow ------------------------
(* Instances of DocumentFileFlow for TLC: two files, one of which is named    *)
(* as a GRS JSON. Every write, hand-over, New or move of the view makes a new *)
(* document, so MaxDocument bounds them; opening and saving are unbounded.    *)
EXTENDS DocumentFileFlow, TLC

NothingAdmitted == {}
AllAdmitted     == Happenings
AllButReport    == Happenings \ {"exportReport"}
EditAdmittedOnly   == {"editWhileWriting"}
NewAdmittedOnly    == {"newWhileWriting"}
ReportAdmittedOnly == {"exportReport"}
=============================================================================
