----------------------------- MODULE MigrationRows -----------------------------
(* Tables of rows by key, as functions: what the INSERTs, UPDATEs and DELETEs of *)
(* the migrations make of them.                                                 *)

Only(k, row)  == [x \in {k} |-> row]
(* The rows of f, and those of g under other keys.                              *)
Over(f, g)    == [x \in DOMAIN f \cup DOMAIN g |-> IF x \in DOMAIN f THEN f[x] ELSE g[x]]
Without(f, S) == [x \in DOMAIN f \ S |-> f[x]]
===============================================================================
