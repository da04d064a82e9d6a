-------------------------------- MODULE Orm --------------------------------
(* What SQLAlchemy's unit of work (external) does with the columns of a    *)
(* row that two sessions hold: there is no version counter in the schema.  *)

\* What a commit leaves in a column that held old when the session loaded it,
\* was assigned new, and holds now in the table: only a changed column is
\* written.
Flush(old, new, now) == IF new = old THEN now ELSE new
=============================================================================
