---------------------------- MODULE MCSyncedRows ----------------------------
(***************************************************************************)
(* One row of either table; three PUTs and a DELETE of its user, and a     *)
(* DELETE of somebody else.                                                *)
(***************************************************************************)
EXTENDS SyncedRows, TLC

CONSTANTS r, theirs,
          name, folder_path, query_text, connection_name, client_checksum,
          encrypted_config, color_tag

Senders == [q \in Requests |-> IF q = theirs THEN "bob" ELSE "ann"]
OneRow  == [q \in Updates \cup Deletes |-> r]

\* The tests of queries/handler.rs:94-98 and connections/handler.rs:83-106 ...
Source ==
  [t \in Tables |->
     IF t = "saved_queries"
     THEN <<<<name, folder_path, query_text, connection_name, client_checksum>>>>
     ELSE <<<<name>>, <<encrypted_config>>, <<color_tag>>>>]

\* ... and those of queries/handler.rs:106-110; a profile's statement binds the
\* one value it is for.
Binds ==
  [t \in Tables |->
     IF t = "saved_queries"
     THEN <<<<name, folder_path, query_text, connection_name, client_checksum>>>>
     ELSE <<<<name>>, <<encrypted_config>>, <<color_tag>>>>]

\* A moved file, an edit, and everything; a profile's new settings, and everything.
Parts ==
  [t \in Tables |->
     IF t = "saved_queries"
     THEN {{name, folder_path}, {query_text, client_checksum},
           {name, folder_path, query_text, connection_name, client_checksum}}
     ELSE {{name, color_tag}, {name, encrypted_config, color_tag}}]

Symmetry == Permutations(Updates)
=============================================================================
