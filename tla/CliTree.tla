------------------------------- MODULE CliTree -------------------------------
(***************************************************************************)
(* How GVD builds the command tree of each mode when it starts             *)
(* (gvd_cli_tree.c): chains of static nodes are linked to the mode they    *)
(* name, merged into the tree that is there already, and every mode but    *)
(* the top one gets its built-in commands.                                 *)
(*                                                                         *)
(* A node has two pointers: acc leads to what may follow its word, alter   *)
(* to the next alternative.  All lists of alternatives share the node      *)
(* node_dead at their end.  Merging re-links the static nodes themselves,  *)
(* and the example file is linked twice.  The examples are meant to be     *)
(* changed, so each of a set of example files may be the one that is       *)
(* there.  merge_cli_tree() is recursive: `stack' holds its calls.         *)
(***************************************************************************)
EXTENDS CliBase, CliModes, Integers, Sequences, FiniteSets, SequencesExt

CONSTANTS
  StaticNode,    (* the static nodes: a function from names to nodes       *)
  DefaultLinks,  (* tree_root_links of gvd_cli_tree.c                      *)
  ExampleLinks,  (* for each example file, tree_root_links of it           *)
  Clone,         (* the names of the copies of the templates for each mode  *)
  MayLack,       (* the modes whose copies calloc() may fail for (a bound)  *)
  Spelling       (* the words in the order of strcmp(), each with its
                    pieces                                                 *)

CliModeDefs == <<"exec", "shell", "config", "gvd">>

Template == {"node_exit", "node_end", "node_no", "node_default"}

CloneName == {Clone[m][t] : m \in Mode, t \in Template}
Node == DOMAIN StaticNode \cup CloneName

(* What is declared of a node; a copy has the fields of its template.      *)
Def ==
  [n \in Node |->
     IF n \in DOMAIN StaticNode THEN StaticNode[n]
     ELSE StaticNode[CHOOSE t \in Template : \E m \in Mode : n = Clone[m][t]]]

Type == [n \in Node |-> Def[n].type]

LinkSeq == Seq([root : DOMAIN StaticNode, mode : Mode])

(* Only a node that nothing can follow has a NULL acc: the other macros take
   the address of what follows.  A copy is a block of its own.             *)
ASSUME NodeAssumption ==
  /\ IsFiniteSet(DOMAIN StaticNode) /\ NULL \notin Node
  /\ Template \cup {NO_ALT, "node_exit_end", "node_end_end"} \subseteq DOMAIN StaticNode
  /\ \A n \in DOMAIN StaticNode :
       /\ {StaticNode[n].acc, StaticNode[n].alter} \subseteq DOMAIN StaticNode \cup {NULL}
       /\ StaticNode[n].acc = NULL <=> StaticNode[n].type \in EndType
       /\ StaticNode[n].submode \in Mode \cup {CLI_MODE_NONE}
  /\ Clone \in [Mode -> [Template -> CloneName]]
  /\ \A m, k \in Mode, t, u \in Template : Clone[m][t] = Clone[k][u] => m = k /\ t = u
  /\ CloneName \cap DOMAIN StaticNode = {}
  /\ \A links \in ExampleLinks \cup {DefaultLinks} : links \in LinkSeq

VARIABLES
  acc, alter,  \* the pointers of every node
  root,        \* root_node_p of each mode
  example,     \* the example file that is linked
  stage,       \* how far gvd_init_cli_tree() is
  link,        \* the entry of the links that is next
  stack,       \* the calls of merge_cli_tree(), innermost last
  buildin      \* the mode in CliModeDefs that add_buildin_nodes() is next for

pointers == <<acc, alter>>
treeVars == <<acc, alter, root, example, stage, link, stack, buildin>>

(* No command has more words, a prefix included.                           *)
MaxWords == 5

(* The calls of merge_cli_tree() that have room on the stack (a bound).    *)
MaxCalls == MaxWords + 1

(* cli_link_default_root_nodes(), then gvd_init_example_cli_tree() twice.  *)
LinksWith(file) == DefaultLinks \o file \o file
Links == LinksWith(example)

-----------------------------------------------------------------------------
(* Reading a tree.                                                         *)

(* The nodes from n on, by the links step; a list that does not end is
   cut.                                                                    *)
ListFrom(n, step) ==
  LET list[k \in Nat] ==
        [x \in Node \cup {NULL} |->
           IF k = 0 \/ x = NULL THEN <<>> ELSE <<x>> \o list[k - 1][step[x]]]
  IN  list[Cardinality(Node)][n]

(* The list of alternatives from n on has an end.                          *)
ListEnds(n, step) == step[Last(ListFrom(n, step))] = NULL

(* A node is initialised with the addresses of nodes declared before it.   *)
ASSUME ListAssumption ==
  \A n \in DOMAIN StaticNode : ListEnds(n, [x \in Node |-> Def[x].alter])

(* get_next_node() of the parser, for the node types in use, where al is
   the pointer to the next alternative.                                    *)
GetNextNode(al, n) == IF Type[n] \in EndType THEN NULL ELSE al[n]

(* The alternatives the parser sees from n on.                             *)
LevelIn(al, n) == ListFrom(n, [x \in Node |-> GetNextNode(al, x)])
Level(n) == LevelIn(alter, n)

-----------------------------------------------------------------------------
(* How chains of nodes are declared.                                       *)

Static == DOMAIN StaticNode
IsWord(n) == Type[n] \notin EndType

(* The first nodes of the chains that may be linked.                       *)
Linkable ==
  UNION {{links[i].root : i \in DOMAIN links} : links \in ExampleLinks \cup {DefaultLinks}}

(* Where a node is declared: the chain, known by its first node, and the
   words that lead to the node.                                            *)
Spot ==
  LET before(n) == {m \in Static : n \in {StaticNode[m].acc, StaticNode[m].alter}}
      at[k \in Nat] ==
        [n \in Static |->
           IF k = 0 \/ before(n) = {} THEN [chain |-> n, path |-> <<>>]
           ELSE LET m == CHOOSE x \in before(n) : TRUE
                IN  IF StaticNode[m].alter = n THEN at[k - 1][m]
                    ELSE [at[k - 1][m] EXCEPT !.path = Append(@, StaticNode[m].keyword)]]
  IN  at[Cardinality(Static)]

Path(n)  == Spot[n].path
Chain(n) == Spot[n].chain

(* The words that lead to what follows n.                                  *)
PathBehind(n) == Append(Path(n), Def[n].keyword)

Keywords == {Def[n].keyword : n \in Static}
Chained == {n \in Static \ {NO_ALT} : Chain(n) \in Linkable}

DeclaredAcc   == [n \in Node |-> Def[n].acc]
DeclaredAlter == [n \in Node |-> Def[n].alter]

DeclaredAt(chain, path) == {n \in Static \ {NO_ALT} : Chain(n) = chain /\ Path(n) = path}

(* n is the first of the alternatives that are declared there.             *)
Declares(n, chain, path) ==
  n \in Static /\ ToSet(ListFrom(n, DeclaredAlter)) \ {NO_ALT} = DeclaredAt(chain, path)

(* The macros name what follows a word and its next alternative: a chain is
   a tree, whose levels end in node_dead or are an END node.               *)
ASSUME ChainAssumption ==
  /\ \A n \in Static : /\ Type[n] = "DEAD" <=> n = NO_ALT
                       /\ Type[n] \in EndType => StaticNode[n].alter = NULL
  /\ \A r \in Linkable : r # NO_ALT /\ Declares(r, r, <<>>) /\ Chain(r) = r /\ Path(r) = <<>>
  /\ \A n \in Chained :
       /\ Path(n) \in Seq(Keywords) /\ Len(Path(n)) < MaxWords
       /\ Type[n] \in {"KEYWORD", "STRING", "END"}
       /\ IsWord(n) => (Type[n] = "STRING" <=> Def[n].keyword = "WORD")
       /\ Path(n) = <<>> => IsWord(n)
       /\ \A i \in DOMAIN Path(n) : \E k \in Chained :
            IsWord(k) /\ Chain(k) = Chain(n) /\ PathBehind(k) = SubSeq(Path(n), 1, i)
       /\ \A k \in DeclaredAt(Chain(n), Path(n)) : Def[k].keyword = Def[n].keyword => k = n
       /\ IsWord(n) => /\ StaticNode[n].alter \in DeclaredAt(Chain(n), Path(n)) \cup {NO_ALT}
                       /\ StaticNode[n].acc # NO_ALT
                       /\ Declares(StaticNode[n].acc, Chain(n), PathBehind(n))

(* The mode that a chain is linked to, and that of a node of it.           *)
ChainMode(links, r) ==
  CHOOSE m \in Mode : \E i \in DOMAIN links : links[i].root = r /\ links[i].mode = m

ModeOf(links, n) == ChainMode(links, Chain(n))

(* The nodes of the chains that the links up to one of them take.          *)
LinkedBy(links, upto) == {n \in Chained : \E i \in 1 .. upto : links[i].root = Chain(n)}

(* Nodes that belong on the same list once their chains are merged.        *)
Meet(links, n, k) == ModeOf(links, n) = ModeOf(links, k) /\ Path(n) = Path(k)

(* A chain belongs to one mode.                                            *)
ASSUME MergeAssumption ==
  \A file \in ExampleLinks : LET links == LinksWith(file) IN
    \A i, j \in DOMAIN links :
      links[i].root = links[j].root => links[i].mode = links[j].mode

(* In a mode nothing else is declared where a command ends: no command is
   declared twice, or is the beginning of another one.                     *)
Apart(links) ==
  \A n, k \in LinkedBy(links, Len(links)) :
    Meet(links, n, k) /\ Type[n] = "END" => k = n

EndsApart == Apart(Links)

(* The built-in commands, which no chain declares.                         *)
ASSUME BuildinAssumption ==
  LET says(t, type, word) == Def[t].type = type /\ Def[t].keyword = word
  IN  /\ says("node_exit", "KEYWORD", "exit") /\ says("node_end", "KEYWORD", "end")
      /\ says("node_no", "NO", "no") /\ says("node_default", "DEFAULT", "default")
      /\ Type["node_exit_end"] = "END" /\ Type["node_end_end"] = "END"
      /\ \A n \in Chained :
           Path(n) = <<>> => Def[n].keyword \notin {Def[t].keyword : t \in Template}

-----------------------------------------------------------------------------
(* Start-up.                                                               *)

(* init_cli_mode(), whose calloc() may fail.                               *)
InitCliMode(ok) ==
  /\ stage = "start"
  /\ stage' = IF ok THEN "links" ELSE "failed"
  /\ UNCHANGED <<acc, alter, root, example, link, stack, buildin>>

(* link_one_root_node(): the first chain of a mode is its tree.            *)
LinkRoot ==
  /\ stage = "links" /\ stack = <<>> /\ link <= Len(Links)
  /\ root[Links[link].mode] = NULL
  /\ root' = [root EXCEPT ![Links[link].mode] = Links[link].root]
  /\ link' = link + 1
  /\ UNCHANGED <<acc, alter, example, stage, stack, buildin>>

(* link_one_root_node(): another chain is merged into it.                  *)
LinkMerge ==
  /\ stage = "links" /\ stack = <<>> /\ link <= Len(Links)
  /\ root[Links[link].mode] # NULL
  /\ stack' = <<[org |-> root[Links[link].mode], node |-> Links[link].root]>>
  /\ link' = link + 1
  /\ UNCHANGED <<acc, alter, root, example, stage, buildin>>

Top == Last(stack)
Below == Front(stack)

(* is_node_same(): only words are told apart by what they say.             *)
IsNodeSame(m, n) ==
  /\ Type[m] = Type[n]
  /\ Type[m] = "KEYWORD" => Def[m].keyword = Def[n].keyword

(* find_node_in_org_root().                                                *)
FindNodeInOrgRoot(org, n) ==
  LET list == ListFrom(org, alter)
      i    == SelectInSeq(list, LAMBDA m : IsNodeSame(m, n))
  IN  IF i = 0 THEN NULL ELSE list[i]

(* merge_cli_tree() returns at the end of the added list, or at an END.    *)
MergeReturns ==
  /\ stack # <<>>
  /\ Top.node # NULL => Type[Top.node] = "END"
  /\ stack' = Below
  /\ UNCHANGED <<acc, alter, root, example, stage, link, buildin>>

(* Mutant: the old alternatives of the first node are forgotten.           *)
InsertedCuts(org, add) == [alter EXCEPT ![org] = add]

(* Mutant: the node goes to the end of the list, with its alternatives.    *)
InsertedLast(org, add) == [alter EXCEPT ![Last(ListFrom(org, alter))] = add]

(* add_node_to_org(): behind the first node.                               *)
AddNodeToOrg(org, add) == [alter EXCEPT ![org] = add, ![add] = alter[org]]

(* An alternative the tree does not have is added with all that follows
   it; the next one was read before.                                       *)
MergeAdds ==
  /\ stack # <<>>
  /\ Top.node # NULL /\ Type[Top.node] # "END"
  /\ FindNodeInOrgRoot(Top.org, Top.node) = NULL
  /\ alter' = AddNodeToOrg(Top.org, Top.node)
  /\ stack' = Append(Below, [Top EXCEPT !.node = alter[Top.node]])
  /\ UNCHANGED <<acc, root, example, stage, link, buildin>>

(* Mutant: what follows the word is not merged.                            *)
MergeStays ==
  /\ stack # <<>>
  /\ Top.node # NULL /\ Type[Top.node] # "END"
  /\ FindNodeInOrgRoot(Top.org, Top.node) # NULL
  /\ stack' = Append(Below, [Top EXCEPT !.node = alter[Top.node]])
  /\ UNCHANGED <<acc, alter, root, example, stage, link, buildin>>

(* Mutant: the loop does not go on to the next alternative.                *)
MergeLoops ==
  /\ stack # <<>> /\ Len(stack) < MaxCalls
  /\ Top.node # NULL /\ Type[Top.node] # "END"
  /\ FindNodeInOrgRoot(Top.org, Top.node) # NULL
  /\ stack' = Append(stack, [org |-> acc[FindNodeInOrgRoot(Top.org, Top.node)],
                             node |-> acc[Top.node]])
  /\ UNCHANGED <<acc, alter, root, example, stage, link, buildin>>

(* An alternative the tree has: what follows it is merged first.  A process
   whose calls have no more room dies: there is no further step.           *)
MergeDescends ==
  /\ stack # <<>> /\ Len(stack) < MaxCalls
  /\ Top.node # NULL /\ Type[Top.node] # "END"
  /\ FindNodeInOrgRoot(Top.org, Top.node) # NULL
  /\ stack' = Below \o <<[Top EXCEPT !.node = alter[Top.node]],
                         [org  |-> acc[FindNodeInOrgRoot(Top.org, Top.node)],
                          node |-> acc[Top.node]]>>
  /\ UNCHANGED <<acc, alter, root, example, stage, link, buildin>>

(* change_all_num_node_keyword() finds no numbers to rename.               *)
LinksDone ==
  /\ stage = "links" /\ stack = <<>> /\ link > Len(Links)
  /\ stage' = "buildin"
  /\ UNCHANGED <<acc, alter, root, example, link, stack, buildin>>

-----------------------------------------------------------------------------
(* The built-in commands.                                                  *)

IsCliModeInConfig(m) == m \notin {"exec", "shell"}

(* The pointers once `exit' and `end' lead the list of mode m, followed by
   rest.                                                                   *)
WithExit(m, rest) ==
  /\ acc' = [acc EXCEPT ![Clone[m]["node_exit"]] = "node_exit_end",
                        ![Clone[m]["node_end"]]  = "node_end_end"]
  /\ alter' = [alter EXCEPT ![Clone[m]["node_exit"]] = Clone[m]["node_end"],
                            ![Clone[m]["node_end"]]  = rest]

(* Mutant: `no' takes the built-in commands too.                           *)
NoLoops(m) ==
  /\ acc' = [acc EXCEPT ![Clone[m]["node_exit"]]    = "node_exit_end",
                        ![Clone[m]["node_end"]]     = "node_end_end",
                        ![Clone[m]["node_no"]]      = Clone[m]["node_exit"],
                        ![Clone[m]["node_default"]] = root[m]]
  /\ alter' = [alter EXCEPT ![Clone[m]["node_exit"]]    = Clone[m]["node_end"],
                            ![Clone[m]["node_end"]]     = Clone[m]["node_no"],
                            ![Clone[m]["node_no"]]      = Clone[m]["node_default"],
                            ![Clone[m]["node_default"]] = root[m]]

(* The same with `no' and `default', which are followed by the commands the
   mode had.                                                               *)
WithAll(m) ==
  /\ acc' = [acc EXCEPT ![Clone[m]["node_exit"]]    = "node_exit_end",
                        ![Clone[m]["node_end"]]     = "node_end_end",
                        ![Clone[m]["node_no"]]      = root[m],
                        ![Clone[m]["node_default"]] = root[m]]
  /\ alter' = [alter EXCEPT ![Clone[m]["node_exit"]]    = Clone[m]["node_end"],
                            ![Clone[m]["node_end"]]     = Clone[m]["node_no"],
                            ![Clone[m]["node_no"]]      = Clone[m]["node_default"],
                            ![Clone[m]["node_default"]] = root[m]]

(* add_buildin_nodes() for one mode.                                       *)
AddBuildinNodes ==
  /\ stage = "buildin" /\ buildin <= Len(CliModeDefs)
  /\ buildin' = buildin + 1
  /\ LET m == CliModeDefs[buildin] IN
       /\ m # "exec"
       /\ root' = [root EXCEPT ![m] = Clone[m]["node_exit"]]
       /\ IF root[m] # NULL /\ IsCliModeInConfig(m) THEN WithAll(m)
                                                    ELSE WithExit(m, root[m])
  /\ UNCHANGED <<example, stage, link, stack>>

(* The same for the top mode, or when one of the calls of calloc() fails: the
   blocks that the calls before it returned are freed and nothing is linked,
   so which of them fails makes no difference.                             *)
SkipBuildinNodes ==
  /\ stage = "buildin" /\ buildin <= Len(CliModeDefs)
  /\ CliModeDefs[buildin] \in MayLack \cup {"exec"}
  /\ buildin' = buildin + 1
  /\ UNCHANGED <<acc, alter, root, example, stage, link, stack>>

InitCliTreeReturns ==
  /\ stage = "buildin" /\ buildin > Len(CliModeDefs)
  /\ stage' = "ready"
  /\ UNCHANGED <<acc, alter, root, example, link, stack, buildin>>

-----------------------------------------------------------------------------

TreeInit ==
  /\ acc   = [n \in Node |-> IF n \in CloneName THEN NULL ELSE Def[n].acc]
  /\ alter = [n \in Node |-> IF n \in CloneName THEN NULL ELSE Def[n].alter]
  /\ root  = [m \in Mode |-> NULL]
  /\ example \in ExampleLinks
  /\ stage = "start" /\ link = 1 /\ stack = <<>> /\ buildin = 1

TreeNext ==
  \/ \E ok \in BOOLEAN : InitCliMode(ok)
  \/ LinkRoot
  \/ LinkMerge
  \/ MergeReturns
  \/ MergeAdds
  \/ MergeDescends
  \/ LinksDone
  \/ AddBuildinNodes
  \/ SkipBuildinNodes
  \/ InitCliTreeReturns

TreeSpec == TreeInit /\ [][TreeNext]_treeVars /\ WF_treeVars(TreeNext)

-----------------------------------------------------------------------------
(* Properties.                                                             *)

Rank ==
  [word \in {Spelling[i][1] : i \in DOMAIN Spelling} |->
     CHOOSE i \in DOMAIN Spelling : Spelling[i][1] = word]
Spell == [word \in DOMAIN Rank |-> Spelling[Rank[word]][2]]

(* Whatever can be typed has a place in the order.                         *)
ASSUME WordAssumption ==
  /\ DOMAIN Spelling \subseteq Nat
  /\ \A n \in DOMAIN StaticNode : StaticNode[n].type \notin EndType =>
       StaticNode[n].keyword \in DOMAIN Rank

(* The commands that can be typed at the list of alternatives n: the words
   of each, and the END node it leads to.                                  *)
Commands(ac, al, n) ==
  LET from[d \in Nat] ==
        [x \in Node \cup {NULL} |->
           UNION {IF d = 0 \/ Type[y] = "DEAD" THEN {}
                  ELSE IF Type[y] = "END" THEN {<<y>>}
                  ELSE {<<Def[y].keyword>> \o c : c \in from[d - 1][ac[y]]} :
                    y \in ToSet(LevelIn(al, x))}]
  IN  from[MaxWords + 1][n]

CommandsOf(m) == Commands(acc, alter, root[m])

(* What the chains that were linked to mode m were declared with.          *)
Declared(m, upto) ==
  UNION {IF Links[i].mode # m THEN {}
         ELSE Commands(DeclaredAcc, DeclaredAlter, Links[i].root) : i \in 1 .. upto}

(* The words of the commands that change the mode or reach the log file, as
   module CliModes calls them.                                             *)
WordsOf ==
  [quit |-> <<"quit">>, config |-> <<"configure", "terminal">>, shell |-> <<"shell">>,
   flush |-> <<"logfile", "flush">>, exec_cmd |-> <<"exec", "WORD">>,
   exit |-> <<"exit">>, end |-> <<"end">>, gvd |-> <<"gvd-config">>]

(* The chains declare them for no mode that module CliModes does not give
   them to.                                                                *)
ASSUME WordsAssumption ==
  \A file \in ExampleLinks : LET links == LinksWith(file) IN
    \A n \in LinkedBy(links, Len(links)), w \in DOMAIN WordsOf :
      Type[n] = "END" /\ Path(n) = WordsOf[w] => w \in Tree[ModeOf(links, n)]

(* Every variable has its type; a call of merge_cli_tree() never meets a
   list to add to that is not there.                                       *)
TreeTypeOK ==
  /\ acc \in [Node -> Node \cup {NULL}]
  /\ alter \in [Node -> Node \cup {NULL}]
  /\ root \in [Mode -> Node \cup {NULL}]
  /\ example \in ExampleLinks
  /\ stage \in {"start", "links", "buildin", "ready", "failed"}
  /\ link \in 1 .. Len(Links) + 1
  /\ stack \in Seq([org : Node \cup {NULL}, node : Node \cup {NULL}])
  /\ \A i \in DOMAIN stack : stack[i].org = NULL => stack[i].node = NULL
  /\ buildin \in 1 .. Len(CliModeDefs) + 1

(* merge_cli_tree(): when no merge is under way, a mode has exactly the commands
   of the chains that were linked to it, whatever they share and although
   the examples are linked twice; the built-in ones only add to them.      *)
MergedIsUnion ==
  stage # "failed" /\ stack = <<>> =>
    \A m \in Mode : /\ Declared(m, link - 1) \subseteq CommandsOf(m)
                    /\ stage = "links" => CommandsOf(m) \subseteq Declared(m, link - 1)

(* add_node_to_org(), add_buildin_nodes(): at every write of a pointer each
   mode keeps the commands it has, those of other modes too, unless a command
   is the beginning of another one: nodes are re-linked in place and
   node_dead is part of all lists.                                         *)
KeepsCommands ==
  [][EndsApart => \A m \in Mode : CommandsOf(m) \subseteq CommandsOf(m)']_treeVars

(* The parser stops at an END and at node_dead, so merging must leave
   nothing behind them.                                                    *)
NothingBehindEnd == \A n \in Node : Type[n] \in EndType => alter[n] = NULL

(* merge_cli_tree(): merging leaves each mode all of the commands declared for
   it, and none where the parser does not look, unless a command is the
   beginning of another one: the END of the first hides what comes behind it
   on its list, or is itself skipped when it is merged.                    *)
MergesWhole == EndsApart => MergedIsUnion /\ NothingBehindEnd

(* add_node_to_org(), add_buildin_nodes(): no list of alternatives becomes a
   ring, though lists are merged with themselves and nodes re-linked while
   a loop over them goes on; find_node_in_org_root() would not return.     *)
NoRing == \A n \in Node : ListEnds(n, alter)

(* The pointers of all nodes are sound at every step of start-up.          *)
TreeConsistent == TreeTypeOK /\ NoRing

(* add_buildin_nodes(): whichever call of calloc() fails, a mode gets `exit' and
   `end' or neither; with them and the commands declared for it, its tree is
   the one module CliModes gives it.                                       *)
TreeAsPromised ==
  stage = "ready" =>
    \A m \in Mode :
      LET words    == {w \in DOMAIN WordsOf : \E c \in CommandsOf(m) : Front(c) = WordsOf[w]}
          declared == {w \in Tree[m] :
                         \E c \in Declared(m, Len(Links)) : Front(c) = WordsOf[w]}
      IN  words \in {declared, declared \cup (Tree[m] \cap {"exit", "end"})}

(* `no' and `default' take the commands a configuration mode was linked
   with, and neither the built-in ones nor each other.                     *)
PrefixTakesLinked ==
  stage = "ready" =>
    \A m \in Mode, prefix \in {"no", "default"} :
      {Tail(c) : c \in {d \in CommandsOf(m) : d[1] = prefix}}
        \in {{}, IF IsCliModeInConfig(m) THEN Declared(m, Len(Links)) ELSE {}}

(* The built-in commands that a mode gets are those it should have, and its
   prefixes take what they should take, where merging has lost no command. *)
BuildinsAsPromised == EndsApart => TreeAsPromised /\ PrefixTakesLinked

(* gvd_init_cli_tree() returns, and merge_cli_tree() calls itself no deeper than
   a command has words, unless a command is the beginning of another one:
   the second linking of the examples merges lists with themselves, and then
   the alternative that node_dead was given leads back to the same list.   *)
StartsUp == EndsApart ~> stage \in {"ready", "failed"}
=============================================================================
