------------------------------ MODULE CliModes -------------------------------
(***************************************************************************)
(* The modes of GVD's command line, and what the commands in the tree of a *)
(* mode do to the mode of the TTY they run on.                             *)
(***************************************************************************)

(* cli_mode_defs.                                                          *)
Mode == {"exec", "shell", "config", "gvd"}

ParentMode == [shell |-> "exec", config |-> "exec", gvd |-> "config"]

(* gvd_return_upper_cli_mode().                                            *)
ReturnUpper(m) == IF m \in DOMAIN ParentMode THEN ParentMode[m] ELSE m

(* The commands of each tree that matter here: the ones that enter a mode,
   called by it, the ones that leave one, "exec" with a program to run,
   called exec_cmd, "logfile flush" and "quit".                            *)
Tree ==
  [exec   |-> {"quit", "config", "shell", "flush"},
   shell  |-> {"exec_cmd", "exit", "end"},
   config |-> {"gvd", "exit", "end"},
   gvd    |-> {"exit", "end"}]

(* A command line: a command of some tree, or any other text, perhaps
   behind the word "do".                                                   *)
Cli == [do : BOOLEAN,
        word : {"quit", "config", "shell", "gvd", "flush", "exec_cmd", "exit",
                "end", "other"}]

(* The tree a command line is looked up in by a TTY in mode m.             *)
Root(c, m) == IF c.do THEN "exec" ELSE m

Found(c, m) == c.word \in Tree[Root(c, m)]

(* exec_cli(): the handler, then the submode of the command.               *)
ModeAfter(c, m) ==
  CASE Found(c, m) /\ c.word \in Mode -> c.word
    [] Found(c, m) /\ c.word = "exit" -> ReturnUpper(m)
    [] Found(c, m) /\ c.word = "end"  -> "exec"
    [] OTHER -> m

=============================================================================
