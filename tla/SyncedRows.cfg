\* A row of either table, three updates and a deletion.
CONSTANTS
  None = None
  r = r
  theirs = theirs
  name = name
  folder_path = folder_path
  query_text = query_text
  connection_name = connection_name
  client_checksum = client_checksum
  encrypted_config = encrypted_config
  color_tag = color_tag
  Creates = {r}
  Updates = {p1, p2, p3}
  Deletes = {d1, theirs}
  Tables = {"saved_queries", "connections"}
  Columns = {name, folder_path, query_text, connection_name, client_checksum, encrypted_config, color_tag}
  UserOf <- Senders
  Target <- OneRow
  Statements <- Source
  Bindings <- Binds
  Asks <- Parts
SPECIFICATION Spec
SYMMETRY Symmetry
INVARIANTS TypeOK ValuesInTheirColumns LaterWins OneStatementIsWhole
PROPERTY DeletedStaysDeleted
