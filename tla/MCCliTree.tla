------------------------------ MODULE MCCliTree ------------------------------
(* The nodes of the program, and further example files as a user of GVD may
   write them.                                                             *)
EXTENDS CliTree, CliNodes

(* "show gvd" and "logfile rotate", which share their first words with
   commands of the program, in one chain.                                  *)
MoreNodes ==
  [more_stat_end   |-> END("exec_more"),
   more_stat       |-> KEYWORD("more_stat_end", NO_ALT, "gvd"),
   more_rotate_end |-> END("exec_more"),
   more_rotate     |-> KEYWORD("more_rotate_end", NO_ALT, "rotate"),
   more_logfile    |-> KEYWORD("more_rotate", NO_ALT, "logfile"),
   more_show       |-> KEYWORD("more_stat", "more_logfile", "show")]

(* "alias WORD clear", "alias WORD version" and "alias time": two chains in
   a mode that has none, with a parameter on both.                         *)
AliasNodes ==
  [alias_clear_end |-> END("exec_alias"),
   alias_clear     |-> KEYWORD("alias_clear_end", NO_ALT, "clear"),
   alias_word      |-> STRING_MAX("alias_clear", NO_ALT),
   alias           |-> KEYWORD("alias_word", NO_ALT, "alias"),
   again_ver_end   |-> END("exec_alias"),
   again_ver       |-> KEYWORD("again_ver_end", NO_ALT, "version"),
   again_time_end  |-> END("exec_alias"),
   again_time      |-> KEYWORD("again_time_end", NO_ALT, "time"),
   again_word      |-> STRING_MAX("again_ver", "again_time"),
   again           |-> KEYWORD("again_word", NO_ALT, "alias")]

(* "show", which begins other commands and comes after them, and "alias",
   which may come before them.                                             *)
PlainNodes ==
  [plain_show_end  |-> END("exec_plain"),
   plain_show      |-> KEYWORD("plain_show_end", NO_ALT, "show"),
   plain_alias_end |-> END("exec_plain"),
   plain_alias     |-> KEYWORD("plain_alias_end", NO_ALT, "alias")]

MCStaticNode == GvdNodes @@ MoreNodes @@ AliasNodes @@ PlainNodes

MCExampleLinks ==
  {GvdExampleLinks,
   <<>>,
   Append(GvdExampleLinks, LINK_ROOT("more_show", "exec")),
   <<LINK_ROOT("more_show", "exec")>> \o GvdExampleLinks,
   <<LINK_ROOT("alias", "config"), LINK_ROOT("again", "config"),
     LINK_ROOT("node_gvd_global", "config")>>,
   <<LINK_ROOT("again", "config"), LINK_ROOT("alias", "config")>>,
   Append(GvdExampleLinks, LINK_ROOT("plain_show", "exec")),
   <<LINK_ROOT("plain_alias", "config"), LINK_ROOT("again", "config"),
     LINK_ROOT("alias", "config"), LINK_ROOT("more_show", "exec")>>}

MCClone == [m \in Mode |-> [t \in Template |-> t \o "@" \o m]]

MCSpelling ==
  <<<<"alias", <<"alias">>>>, <<"rotate", <<"rotate">>>>>> \o GvdSpelling
=============================================================================
