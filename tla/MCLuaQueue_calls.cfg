\* Three calls of five kinds, two of which lua_do_all does not fit, so that a
\* record may take the word of an earlier string.
CONSTANTS
  Call = {1, 2, 3}
  File = {"document"}
  Parts <- MCParts
  Source <- MCSource
  Names = {"get_contact_list", "send_photo2", "load_document",
           "send_document2", "restore_msg"}
  Size = 16
SPECIFICATION LiveSpec
\* All calls are made and called back, or an assertion failed.
CHECK_DEADLOCK FALSE
INVARIANTS
  RecordsOwed
  FilesAreWhole
PROPERTIES
  CalledBack
