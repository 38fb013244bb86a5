------------------------------- MODULE Session -------------------------------
(***************************************************************************)
(* A run of GVD (main() in gvd_main.c): the trees are built, then keys or, *)
(* with the argument "autotest", the lines of the standard input are       *)
(* answered with the help of the parser.                                   *)
(*                                                                         *)
(* Editing a line is the business of module CommandLine; here text is typed *)
(* at its end and what matters is what Enter, `?' and Tab make of it.      *)
(***************************************************************************)
EXTENDS CliParser

CONSTANTS
  CMD_MAX_LEN,  (* characters a command may have                           *)
  Typed,        (* what may be typed at a time                             *)
  MaxTyped,     (* the length of lines typed in parts, which they are until
                   a completion left links in the nodes (a bound)           *)
  Script        (* what the standard input may hold                        *)

ASSUME TextAssumption ==
  CMD_MAX_LEN \in Nat /\ Typed \subseteq Seq(Char) /\ Script \subseteq Seq(Char)

Newline == "\n"

VARIABLES
  cmd,       \* the command line
  autotest,  \* is_autotest_mode
  stdin,     \* what is left of the standard input
  running    \* FALSE once the loop was left

sessionVars == <<treeVars, parserVars, cmd, autotest, stdin, running>>

Ready == stage = "ready" /\ running

(* gvd_common_init().                                                      *)
StartUp ==
  /\ TreeNext
  /\ UNCHANGED <<parserVars, cmd, autotest, stdin, running>>

-----------------------------------------------------------------------------
(* Keys.                                                                   *)

InputProcessText(text) ==
  /\ Ready /\ ~autotest /\ pc = "idle"
  /\ cmd = <<>> \/ (Len(cmd \o text) <= MaxTyped /\ ~leaked)
  /\ Len(cmd \o text) <= CMD_MAX_LEN
  /\ cmd' = cmd \o text
  /\ UNCHANGED <<treeVars, parserVars, autotest, stdin, running>>

(* Enter, `?' and Tab hand the line to the parser.                         *)
Ask(req) ==
  /\ Ready /\ ~autotest /\ pc = "idle"
  /\ Request(req, cmd)
  /\ UNCHANGED <<treeVars, cmd, autotest, stdin, running>>

InputProcessCtrlC ==
  /\ Ready /\ ~autotest /\ pc = "idle"
  /\ cmd' = <<>>
  /\ UNCHANGED <<treeVars, parserVars, autotest, stdin, running>>

(* Ctrl-Z also returns to the top mode.                                    *)
InputProcessCtrlZ ==
  /\ Ready /\ ~autotest /\ pc = "idle"
  /\ cmd' = <<>> /\ mode' = "exec"
  /\ UNCHANGED <<treeVars, pc, cpi, output, process_result, ran, links,
                 autotest, stdin, running>>

Parse ==
  /\ stage = "ready"
  /\ ParserStep
  /\ UNCHANGED <<treeVars, cmd, autotest, stdin, running>>

(* cli_parser_request() returns.                                           *)
CleanCliParserInfo ==
  /\ pc = "done" /\ pc' = "idle"
  /\ cpi' = NoRequest /\ output' = <<>> /\ ran' = NULL /\ process_result' = FALSE
  /\ UNCHANGED <<mode, links>>

(* The rest of input_process_enter(), and of the loop of autotest_mode().  *)
ExecReturns ==
  /\ cpi.req = "exec" /\ CleanCliParserInfo
  /\ cmd' = <<>>
  /\ running' = ~process_result
  /\ UNCHANGED <<treeVars, autotest, stdin>>

(* The rest of input_process_question_mark().                              *)
QueryReturns ==
  /\ cpi.req = "query" /\ CleanCliParserInfo
  /\ UNCHANGED <<treeVars, cmd, autotest, stdin, running>>

(* Mutant: of a long answer the end is kept.                               *)
KeepsTheEnd(text) ==
  cmd' = SubSeq(text, IF Len(text) > CMD_MAX_LEN THEN Len(text) - CMD_MAX_LEN + 1 ELSE 1,
                Len(text))

(* replace_parser_cmd().                                                   *)
ReplaceParserCmd(text) ==
  cmd' = SubSeq(text, 1, IF Len(text) > CMD_MAX_LEN THEN CMD_MAX_LEN ELSE Len(text))

(* The rest of input_process_tab(): the first line of the answer replaces
   the command, if there is an answer and its copy could be allocated.     *)
AutoFillReturns ==
  /\ cpi.req = "auto_fill" /\ CleanCliParserInfo
  /\ \/ UNCHANGED cmd
     \/ output # <<>> /\ ReplaceParserCmd(output[1])
  /\ UNCHANGED <<treeVars, autotest, stdin, running>>

-----------------------------------------------------------------------------
(* autotest_mode().                                                        *)

(* The test in autotest_read_in_cmd().                                     *)
Stores == Len(cmd) <= CMD_MAX_LEN

(* Mutant: what does not fit stays in the input.                           *)
ReadsWhatFits ==
  /\ Ready /\ autotest /\ pc = "idle"
  /\ stdin # <<>> /\ Head(stdin) # Newline
  /\ stdin' = IF Stores THEN Tail(stdin) ELSE stdin
  /\ cmd' = IF Stores THEN Append(cmd, Head(stdin)) ELSE cmd
  /\ UNCHANGED <<treeVars, parserVars, autotest, running>>

AutotestReadChar ==
  /\ Ready /\ autotest /\ pc = "idle"
  /\ stdin # <<>> /\ Head(stdin) # Newline
  /\ stdin' = Tail(stdin)
  /\ cmd' = IF Stores THEN Append(cmd, Head(stdin)) ELSE cmd
  /\ UNCHANGED <<treeVars, parserVars, autotest, running>>

(* At the end of a line, or of the input, what was read is run.            *)
AutotestRunLine ==
  /\ Ready /\ autotest /\ pc = "idle"
  /\ stdin # <<>> => Head(stdin) = Newline
  /\ stdin' = IF stdin = <<>> THEN <<>> ELSE Tail(stdin)
  /\ Request("exec", cmd)
  /\ UNCHANGED <<treeVars, cmd, autotest, running>>

-----------------------------------------------------------------------------

Init ==
  /\ TreeInit /\ ParserInit
  /\ cmd = <<>> /\ running = TRUE
  /\ autotest \in BOOLEAN
  /\ stdin \in IF autotest THEN Script ELSE {<<>>}

(* What the program does by itself, without waiting for a key.             *)
Computes ==
  \/ StartUp
  \/ Parse
  \/ ExecReturns
  \/ QueryReturns
  \/ AutoFillReturns
  \/ AutotestReadChar
  \/ AutotestRunLine

Next ==
  \/ Computes
  \/ \E text \in Typed : InputProcessText(text)
  \/ \E req \in {"exec", "query", "auto_fill"} : Ask(req)
  \/ InputProcessCtrlC
  \/ InputProcessCtrlZ

Spec == Init /\ [][Next]_sessionVars /\ WF_sessionVars(Computes)

-----------------------------------------------------------------------------

(* A command line fits its array; one read in autotest mode may be one
   character longer than one that was typed, and its end is then written
   behind the array.                                                       *)
CmdFits ==
  Len(cmd) <= IF autotest THEN CMD_MAX_LEN + 1 ELSE CMD_MAX_LEN

(* Tokens and characters fit their arrays up to the one element that each of
   the two loops stores behind the end of its array.                       *)
ArraysFit == TokenOverrun /\ CmdFits

(* input_process_tab(): Tab keeps the line or extends it (as far as it
   fits), unless the parser refused it, or calloc() failed: then what is
   left of the user's text is a caret, a message, a blank or nothing.      *)
TabReplaces ==
  [][cpi.req = "auto_fill" /\ cmd' # cmd =>
       \/ IsPrefix(cmd, cmd')
       \/ cmd' \in {MarkFailToken, <<"Invalid command.">>, <<Blank>>, <<>>}]_sessionVars

(* Both loops end by `quit' alone, so autotest mode does not end with its input, and
   only where the tree has it: not inside a configuration mode without `do'. *)
EndsByQuit ==
  [][running' # running =>
       /\ Def[ran].handler = "exec_quit"
       /\ mode = "exec" \/ StartWithDo(cmd)]_sessionVars

(* cli_parser_request() returns: no walk of the tree or of the candidates goes on for
   ever, whatever links are left in the nodes.                             *)
RequestReturns == pc # "idle" ~> pc \in {"idle", "fault"}

(* autotest_mode() reads all of its input, or leaves by `quit'.            *)
ScriptRuns == (autotest /\ stage = "ready") ~> (stdin = <<>> \/ ~running)
=============================================================================
