\* A start on a new database, and on any that has some of the tables or all.
CONSTANTS
  Comment = Comment
  Semicolon = Semicolon
  users = users
  sessions = sessions
  connections = connections
  query_history = query_history
  saved_queries = saved_queries
  collab_rooms = collab_rooms
  room_members = room_members
  oauth_states = oauth_states
  States = oauth_states
  Tables = {users, sessions, connections, query_history, saved_queries, collab_rooms, room_members, oauth_states}
  Text <- SchemaSql
  References <- ForeignKeys
SPECIFICATION Spec
INVARIANT SchemaInitialized
