----------------------------- MODULE EventTypes -----------------------------
(***************************************************************************)
(* dm-core/event.rs: the kinds of events and their names.  An event is     *)
(* displayed under one name, in the rows of the store, to web clients and  *)
(* in notifications; a configuration and a row that is read back may name  *)
(* it in several ways.                                                     *)
(***************************************************************************)

Display ==
  [Created |-> "CREATE", Modified |-> "MODIFY", Attrib |-> "ATTRIB",
   CloseWrite |-> "CLOSE_WRITE", CloseNoWrite |-> "CLOSE_NOWRITE", Opened |-> "OPEN",
   MovedTo |-> "MOVED_TO", MovedFrom |-> "MOVED_FROM", Deleted |-> "DELETE",
   Renamed |-> "RENAME", Accessed |-> "ACCESS"]

EventType == DOMAIN Display

\* the strings from_str takes for each type
Names ==
  [Created |-> {"CREATE", "Created", "created", "create"},
   Modified |-> {"MODIFY", "Modified", "modified", "modify"},
   Attrib |-> {"ATTRIB", "attrib"},
   CloseWrite |-> {"CLOSE_WRITE", "close_write", "closewrite"},
   CloseNoWrite |-> {"CLOSE_NOWRITE", "close_nowrite", "closenowrite", "close"},
   Opened |-> {"OPEN", "open", "opened"},
   MovedTo |-> {"MOVED_TO", "moved_to", "movedto"},
   MovedFrom |-> {"MOVED_FROM", "moved_from", "movedfrom"},
   Deleted |-> {"DELETE", "Deleted", "deleted", "delete", "remove"},
   Renamed |-> {"RENAME", "Renamed", "renamed", "rename"},
   Accessed |-> {"ACCESS", "Accessed", "accessed", "access"}]

\* the types a string stands for: none is the error, and two never happen
FromStr(s) == {t \in EventType : s \in Names[t]}

\* the names, in lower case, that make script_events select a type: its own name
\* in lower case, with a "d", and with "ed" in the place of trailing "e"s
ScriptNames ==
  [Created |-> {"create", "created"}, Modified |-> {"modify", "modifyd", "modifyed"},
   Attrib |-> {"attrib", "attribd", "attribed"},
   CloseWrite |-> {"close_write", "close_writed"},
   CloseNoWrite |-> {"close_nowrite", "close_nowrited"},
   Opened |-> {"open", "opend", "opened"}, MovedTo |-> {"moved_to", "moved_tod", "moved_toed"},
   MovedFrom |-> {"moved_from", "moved_fromd", "moved_fromed"},
   Deleted |-> {"delete", "deleted"}, Renamed |-> {"rename", "renamed"},
   Accessed |-> {"access", "accessd", "accessed"}]
=============================================================================
