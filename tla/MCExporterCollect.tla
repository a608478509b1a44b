------------------------- MODULE MCExporterCollect -------------------------
(* ExporterCollect on small instances. *)
EXTENDS ExporterCollect

CONSTANTS r1, r2, osac, infra

OneRepo  == [r \in Run |-> osac]
TwoRepos == [r \in Run |-> IF r = r1 THEN osac ELSE infra]
====
