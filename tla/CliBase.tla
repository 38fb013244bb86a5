------------------------------- MODULE CliBase -------------------------------
(***************************************************************************)
(* The nodes of GVD's command trees (gvd_cli_tree.h) and the macros that   *)
(* declare them (gvd_cli_base.h).  A node is known by its name; keyword is *)
(* the word it stands for.  Help texts and numeric parameters are left     *)
(* out, as are the node types that no tree of the program has.             *)
(***************************************************************************)

NULL == "NULL"

(* The end of every list of alternatives is one shared node.               *)
NO_ALT == "node_dead"

CLI_MODE_NONE == "none"

(* cli_tree_node_t: what follows the word, and the next alternative.       *)
TreeNode(type, next, other, keyword, handler, submode) ==
  [type |-> type, acc |-> next, alter |-> other, keyword |-> keyword,
   handler |-> handler, submode |-> submode]

Word(type, next, other, keyword) ==
  TreeNode(type, next, other, keyword, NULL, CLI_MODE_NONE)

KEYWORD(next, other, keyword)     == Word("KEYWORD", next, other, keyword)
DEF_NO(next, other, keyword)      == Word("NO", next, other, keyword)
DEF_DEFAULT(next, other, keyword) == Word("DEFAULT", next, other, keyword)
STRING_MAX(next, other)           == Word("STRING", next, other, "WORD")

END_SUBMODE(handler, submode) ==
  TreeNode("END", NULL, NULL, "<cr>", handler, submode)
END(handler) == END_SUBMODE(handler, CLI_MODE_NONE)

DeadNode == TreeNode("DEAD", NULL, NULL, NULL, NULL, CLI_MODE_NONE)

(* is_node_keyword_one() of the parser.                                    *)
KeywordType == {"KEYWORD", "NO", "DEFAULT"}
ParamType   == {"STRING"}
EndType     == {"END", "DEAD"}

=============================================================================
