------------------------------ MODULE CliNodes -------------------------------
(***************************************************************************)
(* The commands of GVD: the nodes declared in gvd_cfg_sys.h and in         *)
(* gvd_cli_example.h, and how their words are spelled.                     *)
(***************************************************************************)
EXTENDS CliBase, Sequences, TLC

(* The templates of the commands that every mode but the top one gets.     *)
BuildinNodes ==
  [node_exit_end |-> END("exec_exit"),
   node_end_end  |-> END("exec_end"),
   node_default  |-> DEF_DEFAULT(NO_ALT, NO_ALT, "default"),
   node_no       |-> DEF_NO(NO_ALT, "node_default", "no"),
   node_end      |-> KEYWORD("node_end_end", "node_no", "end"),
   node_exit     |-> KEYWORD("node_exit_end", "node_end", "exit")]

ShellNodes ==
  [node_shell_exec_end |-> END("exec_shell_cmd"),
   node_shell_exec_cmd |-> STRING_MAX("node_shell_exec_end", NO_ALT),
   node_shell_exec     |-> KEYWORD("node_shell_exec_cmd", NO_ALT, "exec")]

ExecNodes ==
  [node_shell_end        |-> END_SUBMODE("exec_shell_mode", "shell"),
   node_shell            |-> KEYWORD("node_shell_end", NO_ALT, "shell"),
   node_show_time_end    |-> END("exec_show_time"),
   node_show_time        |-> KEYWORD("node_show_time_end", NO_ALT, "time"),
   node_show_ver_end     |-> END("exec_show_version"),
   node_show_ver         |-> KEYWORD("node_show_ver_end", "node_show_time", "version"),
   node_show             |-> KEYWORD("node_show_ver", "node_shell", "show"),
   node_config_flush_end |-> END("exec_logfile_flush"),
   node_config_clear_end |-> END("exec_logfile_clear"),
   node_logfile_clear    |-> KEYWORD("node_config_clear_end", NO_ALT, "clear"),
   node_logfile_flush    |-> KEYWORD("node_config_flush_end", "node_logfile_clear", "flush"),
   node_logfile          |-> KEYWORD("node_logfile_flush", "node_show", "logfile"),
   node_config_term_end  |-> END_SUBMODE("exec_config_term", "config"),
   node_config_term      |-> KEYWORD("node_config_term_end", NO_ALT, "terminal"),
   node_config           |-> KEYWORD("node_config_term", "node_logfile", "configure"),
   node_quit_end         |-> END("exec_quit"),
   node_quit             |-> KEYWORD("node_quit_end", "node_config", "quit")]

ExampleNodes ==
  [node_gvd_show_cmd_end    |-> END("exec_gvd_show"),
   node_gvd_show_cmd        |-> KEYWORD("node_gvd_show_cmd_end", NO_ALT, "show"),
   node_gvd_show            |-> KEYWORD("node_gvd_show_cmd", NO_ALT, "gvd"),
   node_gvd_config_mode_end |-> END_SUBMODE("exec_config_gvd", "gvd"),
   node_gvd_config_mode     |-> KEYWORD("node_gvd_config_mode_end", NO_ALT, "gvd-config"),
   node_gvd_global_end      |-> END("exec_gvd_global"),
   node_gvd_global          |-> KEYWORD("node_gvd_global_end", "node_gvd_config_mode", "gvd-global"),
   node_gvd_local_end       |-> END("exec_gvd_local"),
   node_gvd_local           |-> KEYWORD("node_gvd_local_end", NO_ALT, "gvd-local")]

GvdNodes ==
  BuildinNodes @@ ShellNodes @@ ExecNodes @@ ExampleNodes @@ [node_dead |-> DeadNode]

(* tree_root_links of gvd_cli_tree.c and of gvd_cli_example_tree.c.        *)
LINK_ROOT(n, m) == [root |-> n, mode |-> m]

GvdDefaultLinks ==
  <<LINK_ROOT("node_quit", "exec"), LINK_ROOT("node_shell_exec", "shell")>>

GvdExampleLinks ==
  <<LINK_ROOT("node_gvd_show", "exec"), LINK_ROOT("node_gvd_global", "config"),
    LINK_ROOT("node_gvd_local", "gvd")>>

(* The keywords in the order of strcmp(), each cut where it parts from
   another one: a token is a prefix of a keyword exactly if its pieces are,
   and so is one that ends inside a piece.                                 *)
GvdSpelling ==
  <<<<"WORD",       <<"WORD">>>>,        <<"clear",     <<"c", "lear">>>>,
    <<"configure",  <<"c", "onfigure">>>>, <<"default", <<"default">>>>,
    <<"end",        <<"e", "nd">>>>,     <<"exec",      <<"e", "x", "ec">>>>,
    <<"exit",       <<"e", "x", "it">>>>, <<"flush",    <<"flush">>>>,
    <<"gvd",        <<"gvd">>>>,         <<"gvd-config", <<"gvd", "-", "config">>>>,
    <<"gvd-global", <<"gvd", "-", "global">>>>, <<"gvd-local", <<"gvd", "-", "local">>>>,
    <<"logfile",    <<"logfile">>>>,     <<"no",        <<"no">>>>,
    <<"quit",       <<"quit">>>>,        <<"shell",     <<"sh", "ell">>>>,
    <<"show",       <<"sh", "ow">>>>,    <<"terminal",  <<"t", "erminal">>>>,
    <<"time",       <<"t", "ime">>>>,    <<"version",   <<"version">>>>>>

=============================================================================
