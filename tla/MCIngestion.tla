---------------------------- MODULE MCIngestion ----------------------------
(* Two-document uploads: one of two chunk groups with embeddings, one of one. *)
EXTENDS Ingestion

MCSize == <<2, 1>>
MCName == <<"report", "notes">>
MCEmbedded == {1}

\* Two names that _safe_filename maps to one.
CollidingName == <<"report", "report">>
=============================================================================
