------------------------------ MODULE CliParser ------------------------------
(***************************************************************************)
(* The parser of GVD (gvd_cli_parser.c): a request to run a command line,  *)
(* to list what can follow it (`?') or to complete it (Tab).               *)
(*                                                                         *)
(* A command line is a sequence of pieces of words, blanks, quotes and     *)
(* escapes.  The list of candidates for `?' and Tab is threaded through    *)
(* the nodes of the tree, which all requests share, by two more pointers.  *)
(* One token and one candidate are handled at a time; calloc() may fail    *)
(* wherever it is called.  What a command prints is left out.              *)
(***************************************************************************)
EXTENDS CliTree

CONSTANTS
  Char,                 (* the pieces text is made of                      *)
  CLI_TOKEN_MAX_CNT     (* the size of the array of tokens                 *)

Blank  == " "
Quote  == "\""
Escape == "\\"

(* No command has as many words, a prefix included, as there is room for.  *)
ASSUME TokenAssumption ==
  /\ CLI_TOKEN_MAX_CNT \in Nat /\ CLI_TOKEN_MAX_CNT > 1
  /\ \A n \in Chained : Len(Path(n)) + 1 < CLI_TOKEN_MAX_CNT

(* The words of the tree are text without blanks, quotes and escapes; what
   Tab may leave of a command is text too.                                 *)
ASSUME CharAssumption ==
  /\ {Blank, Quote, Escape, "^", "Invalid command."} \subseteq Char
  /\ \A i \in DOMAIN Spelling :
       Spelling[i][2] \in Seq(Char \ {Blank, Quote, Escape}) /\ Spelling[i][2] # <<>>

(* A parameter is the only thing that can follow, and never the first word;
   no command is declared twice or is the beginning of another one.        *)
ASSUME LevelAssumption ==
  \A file \in ExampleLinks : LET links == LinksWith(file) IN
    /\ Apart(links)
    /\ \A n \in LinkedBy(links, Len(links)) : Type[n] = "STRING" =>
         /\ Path(n) # <<>>
         /\ \A k \in LinkedBy(links, Len(links)) :
              Meet(links, n, k) => Def[k].keyword = Def[n].keyword

(* The commands that leave a mode are the built-in ones, `quit' ends the
   program, and a command enters the mode that bears its name.             *)
ASSUME HandlerAssumption ==
  /\ Def["node_exit_end"].handler = "exec_exit" /\ Def["node_end_end"].handler = "exec_end"
  /\ \A n \in {"node_exit_end", "node_end_end"} : Def[n].submode = CLI_MODE_NONE /\ n \notin Chained
  /\ \A n \in Chained : Type[n] = "END" =>
       /\ Def[n].handler \notin {"exec_exit", "exec_end"}
       /\ Def[n].handler = "exec_quit" => Path(n) = WordsOf["quit"]
       /\ Def[n].submode # "exec"
       /\ \A m \in Mode \ {"exec"} : Def[n].submode = m <=> Path(n) = WordsOf[m]

VARIABLES
  mode,            \* the mode of the TTY
  pc,              \* what the parser is doing
  cpi,             \* cli_parser_info_t and the tokens: the request
  output,          \* the lines of the answer
  process_result,  \* TRUE if the program is to exit
  ran,             \* the END node whose handler the last request called
  head,            \* the first candidate
  help_prev, help_next,  \* the links of the candidates
  walk,            \* the node collect_help_node() looks at next
  leaked           \* did completion ever return without clearing the links?

links == <<head, help_prev, help_next, walk, leaked>>
parserVars == <<mode, pc, cpi, output, process_result, ran, links>>

NoRequest ==
  [req |-> "none", cli_org |-> <<>>, root |-> NULL, cur |-> NULL, tokens |-> <<>>,
   last |-> <<>>, set_no |-> FALSE, set_default |-> FALSE]

-----------------------------------------------------------------------------
(* Text.                                                                   *)

SkipSpaces(text) ==
  SubSeq(text, SelectInSeq(text \o <<NULL>>, LAMBDA c : c # Blank), Len(text))

RemoveTrailingSpaces(text) ==
  SubSeq(text, 1, SelectLastInSeq(text, LAMBDA c : c # Blank))

(* preprocess_cli().                                                       *)
PreprocessCli(text) == SkipSpaces(RemoveTrailingSpaces(text))

EndsInBlank(text) == text # <<>> /\ Last(text) = Blank

(* cli_start_with_do().                                                    *)
StartWithDo(text) ==
  LET cli == SkipSpaces(text)
  IN  cli # <<>> /\ cli[1] = "do" /\ (Len(cli) > 1 => cli[2] = Blank)

(* skip_first_token() puts blanks in its place.                            *)
SkipDo(text) ==
  IF StartWithDo(text)
  THEN [text EXCEPT ![SelectInSeq(text, LAMBDA c : c # Blank)] = Blank]
  ELSE text

(* Mutant: any number of tokens is stored.                                 *)
TooManyNever(cnt) == FALSE

(* The test of split_cli() before it stores token cnt + 1.                 *)
TooMany(cnt) == cnt > CLI_TOKEN_MAX_CNT

SplitState ==
  [tokens : Seq(Seq(Char)) \ {<<>>}, quoted : BOOLEAN, escaped : BOOLEAN,
   err : {NULL, "many", "quote"}]

(* One round of the loop of split_cli(), at character i.                   *)
SplitStep(text, i) ==
  [s \in SplitState |->
     LET c     == text[i]
         grown == [s EXCEPT !.tokens = Append(Front(@), Append(Last(@), c))]
     IN  IF s.err # NULL THEN s
         ELSE IF s.escaped THEN [grown EXCEPT !.escaped = FALSE]
         ELSE IF c = Blank /\ ~s.quoted
              THEN IF Last(s.tokens) = <<>> THEN s
                   ELSE IF TooMany(Len(s.tokens)) THEN [s EXCEPT !.err = "many"]
                   ELSE [s EXCEPT !.tokens = Append(@, <<>>)]
         ELSE IF c = Escape THEN [grown EXCEPT !.escaped = TRUE]
         ELSE IF c # Quote THEN grown
         ELSE IF s.quoted /\ i < Len(text) /\ text[i + 1] # Blank
              THEN [s EXCEPT !.err = "quote"]
         ELSE [grown EXCEPT !.quoted = ~@]]

SplitStart == [tokens |-> <<<<>>>>, quoted |-> FALSE, escaped |-> FALSE, err |-> NULL]

(* The loop of split_cli() after so many characters.                       *)
SplitAfter(text) ==
  LET after[n \in 0 .. Len(text)] ==
        IF n = 0 THEN SplitStart ELSE SplitStep(text, n)[after[n - 1]]
  IN  after

(* split_cli(): the tokens, quotes included, and what was wrong.           *)
SplitCli(text) ==
  LET s == SplitAfter(text)[Len(text)]
  IN  [tokens |-> s.tokens,
       err    |-> IF s.err = NULL /\ s.quoted THEN "quote" ELSE s.err]

-----------------------------------------------------------------------------
(* The answer to a command line the parser cannot use: a line that points at
   the token, if it knows which one, and a message.                        *)

MarkFailToken == <<Blank, "^">>
ParserErr(message) == <<MarkFailToken, <<message>>>>

Answer(lines) == pc' = "done" /\ output' = lines

(* The command line without `do' and the blanks around it.                 *)
Bare(text) == PreprocessCli(SkipDo(text))

(* cli_parser_exec() and its like: there may be nothing to split.          *)
SplitBare ==
  [bare \in Seq(Char) |->
     IF bare = <<>> THEN [tokens |-> <<>>, err |-> NULL] ELSE SplitCli(bare)]

Split(text) == SplitBare[Bare(text)]

RootOf(text) == IF StartWithDo(text) THEN root["exec"] ELSE root[mode]

(* What is asked, and how its command line splits.                         *)
Asked(req, text) ==
  [req |-> req, cli_org |-> text, split |-> Split(text), open |-> EndsInBlank(SkipDo(text))]

(* `?' behind a blank asks for what may follow; otherwise `?' and Tab are
   about the last token.                                                   *)
TakesLast(a) ==
  /\ a.split.tokens # <<>>
  /\ a.req = "auto_fill" \/ (a.req = "query" /\ ~a.open)

(* The token behind the end of the array lies over token_cnt, which is
   written last: what is read back is no pointer to the text.              *)
LastTokenLost(a) == TakesLast(a) /\ Len(a.split.tokens) > CLI_TOKEN_MAX_CNT

(* Nothing to run or to complete, or no tree to look at.                   *)
NothingAsked(a) ==
  \/ RootOf(a.cli_org) = NULL
  \/ a.split.tokens = <<>> /\ a.req # "query"
  \/ a.open /\ a.req = "auto_fill"

(* init_cli_parser_info().                                                 *)
InitCliParserInfo(a) ==
  /\ cpi' = [NoRequest EXCEPT
               !.req = a.req, !.cli_org = a.cli_org,
               !.root = RootOf(a.cli_org), !.cur = RootOf(a.cli_org),
               !.tokens = IF TakesLast(a) THEN Front(a.split.tokens) ELSE a.split.tokens,
               !.last = IF TakesLast(a) THEN Last(a.split.tokens) ELSE <<>>]
  /\ ran' = NULL /\ process_result' = FALSE
  /\ UNCHANGED <<mode, links>>

(* There is nothing to do, or a call of calloc() fails.                    *)
RequestIgnored(a) ==
  /\ InitCliParserInfo(a)
  /\ Answer(<<>>)

(* The quotes are wrong, or there are too many tokens.                     *)
RequestInvalid(a) ==
  /\ ~NothingAsked(a) /\ a.split.err # NULL
  /\ InitCliParserInfo(a)
  /\ Answer(IF a.split.err = "many" THEN <<<<"Invalid command.">>>>
            ELSE ParserErr("Invalid command."))

(* The last token is not where it is looked for.                           *)
RequestFaults(a) ==
  /\ ~NothingAsked(a) /\ a.split.err = NULL /\ LastTokenLost(a)
  /\ InitCliParserInfo(a)
  /\ pc' = "fault" /\ output' = <<>>

(* Neither `?' nor Tab helps inside quotes.                                *)
RequestParses(a) ==
  /\ ~NothingAsked(a) /\ a.split.err = NULL /\ ~LastTokenLost(a)
  /\ InitCliParserInfo(a)
  /\ IF TakesLast(a) /\ Last(a.split.tokens)[1] = Quote
     THEN Answer(<<>>)
     ELSE pc' = "parse" /\ output' = <<>>

Request(req, text) ==
  /\ pc = "idle"
  /\ \E a \in {Asked(req, text)} : \/ RequestIgnored(a)
                                   \/ RequestInvalid(a)
                                   \/ RequestFaults(a)
                                   \/ RequestParses(a)

-----------------------------------------------------------------------------
(* parse_cli().                                                            *)

Keyword(n) == Spell[Def[n].keyword]

(* Mutant: the beginning of the token is compared.                         *)
MatchesFirst(token, n) == Type[n] \in KeywordType /\ Keyword(n)[1] = token[1]

(* strncasecmp() of as many characters as the token has.                   *)
Matches(token, n) == Type[n] \in KeywordType /\ IsPrefix(token, Keyword(n))

(* get_match_node() and get_string_node(), over the alternatives of a level:
   the last node that matches, or else the last one that takes a parameter;
   and how many keywords match.                                            *)
MatchIn(token) ==
  [level \in Seq(Node) |->
     LET words  == {i \in DOMAIN level : Matches(token, level[i])}
         params == {i \in DOMAIN level : Type[level[i]] \in ParamType}
     IN  IF token[1] = Quote
         THEN [cnt |-> 0, node |-> IF params = {} THEN NULL ELSE level[Min(params)]]
         ELSE [cnt |-> Cardinality(words),
               node |-> IF words # {} THEN level[Max(words)]
                        ELSE IF params # {} THEN level[Max(params)] ELSE NULL]]

GetMatchNode(n, token) == MatchIn(token)[Level(n)]

(* The token at hand is no word of the tree, or of more than one.          *)
TokenFails ==
  /\ pc = "parse" /\ cpi.tokens # <<>>
  /\ \E m \in {GetMatchNode(cpi.cur, Head(cpi.tokens))} :
       \/ m.node = NULL /\ Answer(ParserErr("Unrecognized command."))
       \/ m.cnt > 1 /\ Answer(ParserErr("Ambiguous command."))
  /\ UNCHANGED <<mode, cpi, process_result, ran, links>>

(* node_str_param_handler() when calloc() fails.                           *)
ParamFails ==
  /\ pc = "parse" /\ cpi.tokens # <<>>
  /\ \E m \in {GetMatchNode(cpi.cur, Head(cpi.tokens))} :
       m.node # NULL /\ m.cnt <= 1 /\ Type[m.node] \in ParamType
  /\ Answer(ParserErr("Invalid parameter."))
  /\ UNCHANGED <<mode, cpi, process_result, ran, links>>

(* Mutant: the last match is taken.                                        *)
TokenMatchesAny ==
  /\ pc = "parse" /\ cpi.tokens # <<>>
  /\ \E m \in {GetMatchNode(cpi.cur, Head(cpi.tokens))} :
       /\ m.node # NULL
       /\ cpi' = [cpi EXCEPT !.cur = acc[m.node], !.tokens = Tail(@),
                             !.set_no = @ \/ Type[m.node] = "NO",
                             !.set_default = @ \/ Type[m.node] = "DEFAULT"]
  /\ UNCHANGED <<mode, pc, output, process_result, ran, links>>

TokenMatches ==
  /\ pc = "parse" /\ cpi.tokens # <<>>
  /\ \E m \in {GetMatchNode(cpi.cur, Head(cpi.tokens))} :
       /\ m.node # NULL /\ m.cnt <= 1
       /\ cpi' = [cpi EXCEPT !.cur = acc[m.node], !.tokens = Tail(@),
                             !.set_no = @ \/ Type[m.node] = "NO",
                             !.set_default = @ \/ Type[m.node] = "DEFAULT"]
  /\ UNCHANGED <<mode, pc, output, process_result, ran, links>>

-----------------------------------------------------------------------------
(* exec_cli().                                                             *)

(* The END node among the alternatives.                                    *)
EndNode(n) ==
  LET i == SelectInSeq(Level(n), LAMBDA x : Type[x] = "END")
  IN  IF i = 0 THEN NULL ELSE Level(n)[i]

ExecIncomplete ==
  /\ pc = "parse" /\ cpi.req = "exec" /\ cpi.tokens = <<>>
  /\ EndNode(cpi.cur) = NULL
  /\ Answer(<<<<"Incomplete command.">>>>)
  /\ UNCHANGED <<mode, cpi, process_result, ran, links>>

(* The mode of the TTY after the handler returned.                         *)
HandlerMode(n) == CASE Def[n].handler = "exec_exit" -> ReturnUpper(mode)
                    [] Def[n].handler = "exec_end"  -> "exec"
                    [] OTHER -> mode

(* Mutant: a command that is negated enters its mode.                      *)
EntersAlways(n) == Def[n].submode # CLI_MODE_NONE

EntersSubmode(n) ==
  Def[n].submode # CLI_MODE_NONE /\ ~cpi.set_no /\ ~cpi.set_default

(* Mutant: `exit' ends the program too.                                    *)
QuitsOnExit(n) == Def[n].handler \in {"exec_quit", "exec_exit"}

Quits(n) == Def[n].handler = "exec_quit"

ExecCli ==
  /\ pc = "parse" /\ cpi.req = "exec" /\ cpi.tokens = <<>>
  /\ EndNode(cpi.cur) # NULL
  /\ LET n == EndNode(cpi.cur) IN
       /\ ran' = n
       /\ process_result' = Quits(n)
       /\ mode' = IF EntersSubmode(n) THEN Def[n].submode ELSE HandlerMode(n)
  /\ Answer(<<>>)
  /\ UNCHANGED <<cpi, links>>

-----------------------------------------------------------------------------
(* The candidates for `?' and Tab.                                         *)

StartCollect ==
  /\ pc = "parse" /\ cpi.req # "exec" /\ cpi.tokens = <<>>
  /\ pc' = "collect"
  /\ walk' = cpi.cur /\ head' = NULL
  /\ UNCHANGED <<mode, cpi, output, process_result, ran, help_prev, help_next, leaked>>

(* The list of candidates, in its order.                                   *)
HelpList == ListFrom(head, help_next)

IsNodeHelp(n) == Type[n] # "DEAD" /\ (cpi.last = <<>> \/ Matches(cpi.last, n))

(* insert_help_node_list(): how many candidates come before n.             *)
PlaceOf(n) ==
  LET later(x) == Type[x] = "END" \/ Rank[Def[n].keyword] < Rank[Def[x].keyword]
  IN  IF Type[n] = "END" \/ ~\E i \in DOMAIN HelpList : later(HelpList[i])
      THEN Len(HelpList)
      ELSE SelectInSeq(HelpList, later) - 1

(* Mutant: the links of the node itself are only written if there is a
   neighbour.                                                              *)
InsertTrustsLinks(n, prev, next) ==
  /\ help_prev' = [x \in Node |-> IF x = n /\ prev # NULL THEN prev
                                   ELSE IF x = next THEN n ELSE help_prev[x]]
  /\ help_next' = [x \in Node |-> IF x = n /\ next # NULL THEN next
                                   ELSE IF x = prev THEN n ELSE help_next[x]]
  /\ head' = IF prev = NULL THEN n ELSE head

(* insert_help_node().                                                     *)
InsertHelpNode(n, prev, next) ==
  /\ help_prev' = [x \in Node |-> IF x = n THEN prev
                                   ELSE IF x = next THEN n ELSE help_prev[x]]
  /\ help_next' = [x \in Node |-> IF x = n THEN next
                                   ELSE IF x = prev THEN n ELSE help_next[x]]
  /\ head' = IF prev = NULL THEN n ELSE head

CandidateAt(i) == IF i \in DOMAIN HelpList THEN HelpList[i] ELSE NULL

(* insert_help_node_list(), the rest.                                      *)
InsertCandidate(n) ==
  \E i \in {PlaceOf(n)} :
    \E prev \in {CandidateAt(i)}, next \in {CandidateAt(i + 1)} : InsertHelpNode(n, prev, next)

(* Mutant: the walk stops at an alternative that is no candidate.          *)
CollectStays ==
  /\ pc = "collect" /\ walk # NULL
  /\ IF IsNodeHelp(walk)
     THEN /\ InsertCandidate(walk)
          /\ walk' = GetNextNode(alter, walk)
     ELSE UNCHANGED <<walk, head, help_prev, help_next>>
  /\ UNCHANGED <<mode, cpi, pc, output, process_result, ran, leaked>>

(* collect_help_node().                                                    *)
CollectHelpNode ==
  /\ pc = "collect" /\ walk # NULL
  /\ IF IsNodeHelp(walk)
     THEN InsertCandidate(walk)
     ELSE UNCHANGED <<head, help_prev, help_next>>
  /\ walk' = GetNextNode(alter, walk)
  /\ UNCHANGED <<mode, cpi, pc, output, process_result, ran, leaked>>

(* clean_help_node_list().                                                 *)
CleanHelpNodeList ==
  LET listed == ToSet(HelpList)
  IN  /\ help_prev' = [x \in Node |-> IF x \in listed THEN NULL ELSE help_prev[x]]
      /\ help_next' = [x \in Node |-> IF x \in listed THEN NULL ELSE help_next[x]]
      /\ head' = NULL

Listed == [i \in DOMAIN HelpList |-> Def[HelpList[i]].keyword]

(* Nothing can follow.                                                     *)
NoCandidate ==
  /\ pc = "collect" /\ walk = NULL /\ head = NULL
  /\ Answer(<<>>)
  /\ UNCHANGED <<mode, cpi, process_result, ran, links>>

(* cli_query_print_help().                                                 *)
PrintHelp ==
  /\ pc = "collect" /\ walk = NULL /\ head # NULL /\ cpi.req = "query"
  /\ Answer(<<Listed>>)
  /\ CleanHelpNodeList
  /\ UNCHANGED <<mode, cpi, process_result, ran, walk, leaked>>

-----------------------------------------------------------------------------
(* Completion.                                                             *)

(* autofill_cli(): the text up to its last blank, then the word.           *)
Filled(word) ==
  SubSeq(cpi.cli_org, 1, SelectLastInSeq(cpi.cli_org, LAMBDA c : c = Blank)) \o word

(* One candidate: it is filled in.  Its links are clear, so the list is left
   as it is.  Only the blank is printed when calloc() fails.               *)
AutoFillOne ==
  /\ pc = "collect" /\ walk = NULL /\ head # NULL /\ cpi.req = "auto_fill"
  /\ help_next[head] = NULL
  /\ \/ Answer(<<Append(Filled(Keyword(head)), Blank)>>)
     \/ Answer(<<<<Blank>>>>)
  /\ head' = NULL
  /\ UNCHANGED <<mode, cpi, process_result, ran, help_prev, help_next, walk, leaked>>

(* Mutant: the first candidate is filled in.                               *)
FirstKeyword == Keyword(head)

(* make_last_fill_token(): what all the keywords begin with.  safe_clone() takes
   a length of 0 for the whole keyword.                                    *)
MakeLastFillToken ==
  LET common == LongestCommonPrefix({Keyword(n) : n \in ToSet(HelpList)})
  IN  IF common = <<>> THEN Keyword(head) ELSE common

(* More candidates: what they share is filled in and all are listed.  The
   first line is empty when the second calloc() fails.                     *)
AutoFillCommon ==
  /\ pc = "collect" /\ walk = NULL /\ head # NULL /\ cpi.req = "auto_fill"
  /\ help_next[head] # NULL
  /\ \/ Answer(<<Filled(MakeLastFillToken), Listed>>)
     \/ Answer(<<<<>>, Listed>>)
  /\ CleanHelpNodeList
  /\ UNCHANGED <<mode, cpi, process_result, ran, walk, leaked>>

(* The first calloc() fails: the links stay.  Once is enough (a bound).    *)
AutoFillFails ==
  /\ pc = "collect" /\ walk = NULL /\ head # NULL /\ cpi.req = "auto_fill"
  /\ help_next[head] # NULL /\ ~leaked
  /\ Answer(<<>>)
  /\ leaked' = TRUE /\ head' = NULL
  /\ UNCHANGED <<mode, cpi, process_result, ran, help_prev, help_next, walk>>

-----------------------------------------------------------------------------

NoLinks == [n \in Node |-> NULL]

ParserInit ==
  /\ mode = "exec" /\ pc = "idle" /\ cpi = NoRequest /\ output = <<>>
  /\ process_result = FALSE /\ ran = NULL
  /\ head = NULL /\ walk = NULL /\ leaked = FALSE
  /\ help_prev = NoLinks /\ help_next = NoLinks

(* A request that is under way.                                            *)
ParserStep ==
  \/ TokenFails
  \/ ParamFails
  \/ TokenMatches
  \/ ExecIncomplete
  \/ ExecCli
  \/ StartCollect
  \/ CollectHelpNode
  \/ NoCandidate
  \/ PrintHelp
  \/ AutoFillOne
  \/ AutoFillCommon
  \/ AutoFillFails

-----------------------------------------------------------------------------
(* Properties.                                                             *)

(* Every variable has its type, and a request only looks at real nodes.    *)
ParserTypeOK ==
  /\ mode \in Mode
  /\ pc \in {"idle", "parse", "collect", "done", "fault"}
  /\ cpi.req \in {"none", "exec", "query", "auto_fill"}
  /\ {cpi.root, cpi.cur} \subseteq Node \cup {NULL}
  /\ pc \in {"parse", "collect"} => cpi.cur \in Node
  /\ \A i \in DOMAIN cpi.tokens : cpi.tokens[i] # <<>>
  /\ process_result \in BOOLEAN /\ leaked \in BOOLEAN
  /\ {ran, head, walk} \subseteq Node \cup {NULL}
  /\ help_prev \in [Node -> Node \cup {NULL}]
  /\ help_next \in [Node -> Node \cup {NULL}]

Offered == Commands(acc, alter, cpi.root)

(* A token may stand for a word: an abbreviation, or any parameter.        *)
StandsFor(token, word) == word = "WORD" \/ IsPrefix(token, Spell[word])

(* The commands of which the tokens may be the first words.                *)
Candidates(tokens) ==
  {c \in Offered : /\ Len(tokens) < Len(c)
                   /\ \A i \in DOMAIN tokens : StandsFor(tokens[i], c[i])}

(* The command c typed in full.                                            *)
InFull(c) ==
  LET typed[k \in 0 .. Len(c) - 1] ==
        IF k = 0 THEN <<>>
        ELSE typed[k - 1] \o (IF k = 1 THEN <<>> ELSE <<Blank>>) \o Spell[c[k]]
  IN  typed[Len(c) - 1]

Refusal == {ParserErr("Unrecognized command."), ParserErr("Ambiguous command."),
            ParserErr("Invalid command."), <<<<"Incomplete command.">>>>}

(* A word of the command c is the beginning of another word that may stand at
   its place: a token is compared over its own length only.                *)
BeginsAnother(c) ==
  \E d \in Offered : \E i \in 1 .. Len(c) - 1 :
    /\ i < Len(d) /\ \A k \in 1 .. i - 1 : d[k] = c[k]
    /\ d[i] # c[i] /\ IsPrefix(Spell[c[i]], Spell[d[i]])

(* split_cli(), parse_cli(), exec_cli(): a command typed in full is never refused, in
   whatever mode, with `no', `default' or `do' before it, and although some
   keywords begin alike, unless a word of it is the beginning of another.  *)
FullCommandAccepted ==
  pc = "done" /\ cpi.req = "exec" /\ output \in Refusal =>
    \A c \in Offered : Bare(cpi.cli_org) = InFull(c) => BeginsAnother(c)

(* The handler that runs is that of the only command the tokens can stand
   for: no abbreviation ever runs a command when another was possible.     *)
RunsTheOneMeant ==
  ran # NULL =>
    LET tokens == Split(cpi.cli_org).tokens
        meant  == {c \in Candidates(tokens) : Len(c) = Len(tokens) + 1}
    IN  {Last(c) : c \in meant} = {ran}

(* autofill_cli(): when Tab extends the text, all commands that could be
   meant before still can be, and no others; and the text is extended
   unless the answer is an error or calloc() failed.                       *)
TabKeepsCandidates ==
  pc = "done" /\ cpi.req = "auto_fill" /\ output # <<>> =>
    IF IsPrefix(cpi.cli_org, output[1])
    THEN Candidates(Split(output[1]).tokens) = Candidates(Split(cpi.cli_org).tokens)
    ELSE \/ output \in Refusal \cup {ParserErr("Invalid parameter."),
                                     <<<<"Invalid command.">>>>, <<<<Blank>>>>}
         \/ output[1] = <<>>

(* collect_help_node(): the list threaded through the tree holds exactly the candidates
   among the alternatives looked at, sorted and linked both ways, whatever
   links an earlier request left behind in the nodes.                      *)
ListInOrder ==
  pc = "collect" =>
    LET seen == SubSeq(Level(cpi.cur), 1, Len(Level(cpi.cur)) - Len(Level(walk)))
        list == HelpList
    IN  /\ ToSet(list) = {n \in ToSet(seen) : IsNodeHelp(n)}
        /\ \A i, j \in DOMAIN list : i < j =>
             /\ list[i] # list[j] /\ Type[list[i]] # "END"
             /\ Type[list[j]] # "END" => Rank[Def[list[i]].keyword] <= Rank[Def[list[j]].keyword]
        /\ \A i \in DOMAIN list : help_prev[list[i]] = IF i = 1 THEN NULL ELSE list[i - 1]

(* clean_help_node_list(): between requests no node is linked, unless a completion
   ran out of memory.                                                      *)
LinksCleared ==
  pc \in {"idle", "done"} /\ ~leaked => help_prev = NoLinks /\ help_next = NoLinks

(* Types and candidate list are sound at every step of every request,
   whatever the requests before left behind.                               *)
ParserConsistent == ParserTypeOK /\ ListInOrder /\ LinksCleared

(* split_cli() lets one token more than its array has room for pass, never two;
   reading it back is a fault of `?' and Tab alone, which happens whenever
   they come to it.                                                        *)
TokenOverrun ==
  pc \in {"parse", "collect", "fault"} =>
    LET tokens == Split(cpi.cli_org).tokens
    IN  /\ Len(tokens) <= CLI_TOKEN_MAX_CNT + 1
        /\ pc = "fault" => Len(tokens) = CLI_TOKEN_MAX_CNT + 1 /\ cpi.req # "exec"
        /\ pc # "fault" /\ cpi.last # <<>> => Len(tokens) <= CLI_TOKEN_MAX_CNT

(* parse_cli(): a command that has that token is refused before the parser comes
   to it.                                                                  *)
OverrunUnread ==
  pc \in {"parse", "collect"} /\ Len(Split(cpi.cli_org).tokens) > CLI_TOKEN_MAX_CNT =>
    Len(cpi.tokens) > 1

(* What runs was read from inside the array of tokens, and is what they say. *)
RunsWhatWasRead == RunsTheOneMeant /\ OverrunUnread

(* What a command line is to module CliModes.                              *)
AsCli(text, n) ==
  [do   |-> StartWithDo(text),
   word |-> LET w == {x \in DOMAIN WordsOf : \E c \in Offered :
                        Last(c) = n /\ Front(c) = WordsOf[x]}
            IN  IF w = {} \/ cpi.set_no \/ cpi.set_default THEN "other"
                ELSE CHOOSE x \in w : TRUE]

(* exec_cli(): what a command does to the mode of its TTY is what module CliModes, on
   which the registry of TTYs is built, says of the command; `no' and
   `default' never change it.                                              *)
ModeAsPromised ==
  [][ran' # ran /\ ran' # NULL => mode' = ModeAfter(AsCli(cpi.cli_org, ran'), mode)]_parserVars
=============================================================================
