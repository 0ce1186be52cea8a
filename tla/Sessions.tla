------------------------------ MODULE Sessions ------------------------------
(***************************************************************************)
(* What an SQLAlchemy session writes (packages/db/session.py).  A session  *)
(* keeps the copy of a row it read first; selecting the row again returns  *)
(* that copy unrefreshed, and commit() does not expire it                  *)
(* (expire_on_commit=False).  A flush writes only the columns whose value  *)
(* in the session differs from the value it loaded.                        *)
(***************************************************************************)

(* A mutant, here and in other modules, restates the definition that       *)
(* follows it with one plausible mistake; no action uses it.               *)
(* Mutant: a flush writes unchanged columns too *)
WriteEveryColumn(db, loaded, new) == new

(* One column after a flush: the session's value when the session changed  *)
(* it, whatever is in the database otherwise.                              *)
Column(db, loaded, new) == IF new # loaded THEN new ELSE db
=============================================================================
