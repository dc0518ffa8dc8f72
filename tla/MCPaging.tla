------------------------------ MODULE MCPaging ------------------------------
(* Every template that pages, for TLC. *)
EXTENDS Paging

AllTemplates == TemplateNames
AllVerdicts == {"retry", "empty", "warn", "break"}
=============================================================================
