---------------------------- MODULE MCMigrations ----------------------------
(***************************************************************************)
(* schema.sql as it is: eight tables, each below a comment of its own.     *)
(***************************************************************************)
EXTENDS Migrations

CONSTANTS users, sessions, connections, query_history, saved_queries,
          collab_rooms, room_members, oauth_states

SchemaSql ==
  <<Comment, Comment, users, Semicolon,
    Comment, sessions, Semicolon,
    Comment, connections, Semicolon,
    Comment, query_history, Semicolon,
    Comment, saved_queries, Semicolon,
    Comment, collab_rooms, Semicolon,
    Comment, room_members, Semicolon,
    Comment, oauth_states, Semicolon>>

ForeignKeys ==
  [t \in Tables |-> CASE t \in {users, oauth_states} -> {}
                      [] t = room_members            -> {collab_rooms, users}
                      [] OTHER                       -> {users}]
=============================================================================
