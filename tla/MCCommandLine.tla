--------------------------- MODULE MCCommandLine ----------------------------
(* The two log keys, whose names begin alike, a path, a number, and a      *)
(* second object that wants the name of the path key.                      *)
EXTENDS CommandLine

MCKey     == {"KeyNoLog", "KeyNoLogFlush", "KeyResPath", "KeyResPath2", "KeyNumber"}
MCKeyName == {"nolog", "nologflush", "respath", "number"}
MCNameOfKey == [k \in MCKey |-> CASE k = "KeyNoLog" -> "nolog"
                                  [] k = "KeyNoLogFlush" -> "nologflush"
                                  [] k = "KeyNumber" -> "number"
                                  [] OTHER -> "respath"]
MCKeyType == [k \in MCKey |-> CASE k = "KeyNumber" -> "Number"
                                [] k \in {"KeyNoLog", "KeyNoLogFlush"} -> "Boolean"
                                [] OTHER -> "String"]
MCExact    == [n \in MCKeyName |-> CASE n = "nolog" -> "--p_nolog"
                                     [] n = "nologflush" -> "--p_nologflush"
                                     [] n = "number" -> "--p_number"
                                     [] OTHER -> "--p_respath"]
MCPrefixed == {"--p_nolog", "--p_nologflush", "--p_respath", "--p_number"}
MCToken    == MCPrefixed \cup {"data", "2"}
MCMentions == [t \in MCToken |-> {n \in MCKeyName : MCExact[n] = t}
                                 \cup (IF t = "--p_nologflush" THEN {"nolog"} ELSE {})]
MCNumeric  == {"2"}
(* argv[0] and up to three arguments. *)
MCArgv     == {<<"data">> \o v : v \in UNION {[1..n -> MCToken] : n \in 0..3}}
=============================================================================
