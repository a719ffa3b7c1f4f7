---- MODULE MCMca ----
(***************************************************************************)
(* The Modular Component Architecture for model checking: the repository,  *)
(* the search for components, the framework, its variables and performance *)
(* variables, the command line that sets them and the argument vectors     *)
(* they are passed on in.  Each part is checked with what it needs of the  *)
(* others in its own state, so one run checks them side by side: `which'   *)
(* is the part that moves, chosen at first.                                *)
(***************************************************************************)
EXTENDS Framework, ComponentRepository, ComponentFind, McaVar, Pvar

CONSTANTS Options, CommandLines, LaterLines, Integer, McaOptions
CONSTANTS Delimiter, Strings, ArgvBound, EnvNames, EnvValues

VARIABLES which
VARIABLES given, ignore_unknown, argv, at, params, tail, status, dest,
          environment
VARIABLES cells, argc, contents, counted, missed, env, setting, doubled

frameworkVars == vars
cmdVars == <<given, ignore_unknown, argv, at, params, tail, status, dest,
             environment>>
argvVars == <<cells, argc, contents, counted, missed, env, setting, doubled>>
allVars == <<which, repositoryVars, findVars, frameworkVars, varVars, pvarVars,
             cmdVars, argvVars>>

CommandLine == INSTANCE CommandLine
Argv == INSTANCE Argv WITH Names <- EnvNames, Values <- EnvValues

-----------------------------------------------------------------------------
(* Directories that list dependencies first, with up to two of them, and   *)
(* any dependencies, cyclic ones included, up to one for each file.        *)
MCOrderedDisks ==
  {<<<<>>, b, c>> : b \in BoundedSeq({1, 2, Missing}, 1),
                    c \in BoundedSeq({1, 2, 3, Missing}, 2)}
MCSparseDisks == [1..3 -> BoundedSeq({1, 2, 3, Missing}, 1)]
MCDisks == MCOrderedDisks \cup MCSparseDisks
MCSelections ==
  {[include_mode |-> TRUE, names |-> {}],
   [include_mode |-> TRUE, names |-> {2, 3}],
   [include_mode |-> FALSE, names |-> {2}]}

MCInitialFlags == {{}, {"NOREGISTER"}, {"NOREGISTER", "REGISTERED"}}

(* Variables, as in McaVar: the same name with two components, and a       *)
(* synonym.                                                                *)
MCFrameworkOf == [c \in VarComponents |-> "f"]
Decl(o, n, t, fs, d, s) ==
    [owner |-> o, name |-> n, type |-> t, flags |-> fs, default |-> d, synonymFor |-> s]
MCDeclarations ==
    {Decl("c1", "x", "enum", {"DWG", "SETTABLE"}, <<"num", 0>>, ""),
     Decl("c1", "s", "string", {"DWG", "SETTABLE"}, NullText, ""),
     Decl("c1", "verbose", "int", {"DWG", "SETTABLE"}, <<"num", 0>>, ""),
     Decl("c2", "y", "enum", {}, <<"num", 0>>, "x"),
     Decl("c2", "verbose", "int", {"DWG", "READONLY"}, <<"num", 1>>, ""),
     Decl("c1", "on", "bool", {"DWG", "SETTABLE"}, <<"num", 1>>, ""),
     Decl("c1", "k", "int", {"DWG", "DEFAULT_ONLY"}, <<"num", 1>>, ""),
     Decl("c2", "k", "int", {"DWG", "DEFAULT_ONLY", "SETTABLE"}, <<"num", 0>>, "")}
MCEnumerator == <<[value |-> 0, string |-> "low"], [value |-> 1, string |-> "mid"],
                  [value |-> 3, string |-> "high"]>>

Nothing == [env |-> [n \in VarNames |-> NoText], source |-> [n \in VarNames |-> "none"],
            file |-> <<>>, override |-> <<>>, declared |-> {}, beside |-> FALSE]
Declaring(w, ns) == [w EXCEPT !.declared = {d \in Declarations : d.name \in ns}]
Env(w, n, t, s) == [w EXCEPT !.env[n] = t, !.source[n] = s]
File(w, k, t) == [w EXCEPT !.file = Append(@, [key |-> k, text |-> t])]
Over(w, k, t) == [w EXCEPT !.override = Append(@, [key |-> k, text |-> t])]
High == <<"word", "high">>
Mid == <<"num", 1>>
Bad == <<"num", 7>>
Paths == <<"path", <<<<"plain", "a">>, <<"home", "b">>>>>>

\* The enumerated variable in up to three places, with a good and a bad text;
\* its synonym as well as itself; the string; "verbose", also by the long name
\* it has with c1; a constant; and a bool with and without data behind it.
MCSettings ==
    LET xs == {Nothing, Env(Nothing, "x", High, "none"), Env(Nothing, "x", Bad, "none")}
        fs == xs \cup {File(w, "f_c1_x", Mid) : w \in xs}
        os == fs \cup {Over(w, "x", Mid) : w \in fs} \cup {Over(w, "x", Bad) : w \in fs}
        ys == {Env(Env(Nothing, "x", Mid, s), "y", High, "none") : s \in {"override", "command"}}
              \cup {Over(File(Nothing, "x", Mid), "y", High),
                    File(Nothing, "y", High)}
        ss == {Env(File(Nothing, "s", Paths), "s", EmptyText, "none"),
               Env(Nothing, "s", Paths, "file")}
        vs == {Env(Nothing, "verbose", <<"num", -1>>, "none"),
               Env(Nothing, "verbose", <<"scaled", 1, 1>>, "none"),
               File(Nothing, "f_c1_verbose", <<"word", "loud">>)} IN
    {Declaring(w, {"x", "y"}) : w \in os \cup ys}
    \cup {Declaring(w, {"s", "verbose"}) : w \in ss \cup vs}
    \cup {Declaring([Env(Nothing, "k", Mid, "none") EXCEPT !.beside = b], {"k", "on"}) :
            b \in BOOLEAN}
MCSetValues == [int |-> {<<"num", 2>>, <<"num", -1>>}, enum |-> {<<"num", 3>>, <<"num", 5>>},
                bool |-> {<<"num", 0>>}, string |-> {<<"path", <<<<"home", "c">>>>>>}]

PDecl(o, n, c, k, r) == [owner |-> o, name |-> n, class |-> c, continuous |-> k, readonly |-> r]
MCPvarDeclarations ==
    {PDecl("c1", "sent", "COUNTER", FALSE, FALSE), PDecl("c1", "peak", "HIGHWATERMARK", TRUE, FALSE)}

(* Tokens, as in CommandLine.                                              *)
NoToken == [kind |-> "empty"]
EndToken == [kind |-> "end"]
Word(w) == [kind |-> "word", word |-> w]
Dash(n) == [kind |-> "dash", name |-> n]
MCOpt(s, d, l, n, t, e) ==
    [short |-> s, single_dash |-> d, long |-> l, num_params |-> n, type |-> t, env |-> e,
     dest |-> t # "null"]
MCOptions == <<MCOpt(<<"v">>, <<>>, <<"verbose">>, 0, "bool", NoToken), MCOpt(<<"n">>, <<>>, <<"np">>, 1, "int", Word("x")),
               MCOpt(<<"p">>, <<>>, <<"pair">>, 2, "string", NoToken),
               MCOpt(<<>>, <<"m", "c">>, <<"m", "c">>, 2, "null", NoToken)>>
MCTokens == {Dash(<<"p">>), Dash(<<"v", "p">>), Dash(<<"v">>), Dash(<<"v", "n">>), Dash(<<"n", "n">>), Dash(<<"v", "q">>), Dash(<<"m", "c">>),
             Word("1"), Word("x"), EndToken}
MCInteger == {Word("1"), EndToken}
MCMcaOptions == {<<"m", "c">>}
MCMca(w) == <<Dash(<<"m", "c">>), Word(w[1]), Word(w[2])>>
MCMcas == {"1", "x"} \X {"1", "x"}
MCCommandLines == BoundedSeq(MCTokens, 3) \cup {MCMca(a) \o MCMca(b) : a, b \in MCMcas}
    \cup {MCMca(a) \o <<t>> \o MCMca(b) : a, b \in MCMcas, t \in MCTokens}
    \cup {MCMca(a) \o MCMca(b) \o MCMca(c) : a, b, c \in MCMcas}

MCLaterLines == {<<Dash(<<"n">>), Word("1"), EndToken>>, <<Word("x")>>} \cup {MCMca(<<"1", "x">>)}

MCStrings == {<<"a">>, <<>>, <<"b", ",", "c">>}
MCEnvNames == {<<"a">>, <<"a", "b">>}
MCEnvValues == {<<>>, <<"1">>, <<"b", "=">>}

-----------------------------------------------------------------------------
(* The part that moves starts in any of its initial states, the others in  *)
(* one of theirs.                                                          *)
FirstDisk == CHOOSE d \in Disks : TRUE
FirstSelection == CHOOSE s \in Selections : TRUE
FirstOptions == [include_mode |-> TRUE, names |-> {}, valid |-> TRUE]
FirstWorld == CHOOSE w \in Settings : TRUE

MCInit ==
  /\ which \in {"repository", "find", "framework", "variables", "pvars",
                "command line", "argv", "environ"}
  /\ which # "find" => /\ depends = FirstDisk
                       /\ kind = [f \in 1..NumFiles |-> "good"]
                       /\ include = FirstSelection
  /\ which # "variables" => world = FirstWorld
  /\ RepositoryAtFirst /\ PvarInit /\ CommandLine!CmdInit /\ Argv!ArgvInit
  /\ VarInit /\ Init
  /\ which # "framework" => /\ selection = FirstOptions
                            /\ framework.flags = {}
  /\ FindInit

RepositoryMoves ==
  which = "repository" /\ RepositoryNext
    /\ UNCHANGED <<which, findVars, frameworkVars, varVars, pvarVars, cmdVars,
                   argvVars>>
FindMoves ==
  which = "find" /\ FindNext
    /\ UNCHANGED <<which, repositoryVars, frameworkVars, varVars, pvarVars,
                   cmdVars, argvVars>>
FrameworkNext ==
  which = "framework" /\ Next
    /\ UNCHANGED <<which, repositoryVars, findVars, varVars, pvarVars, cmdVars,
                   argvVars>>
VarMoves ==
  which = "variables" /\ VarNext
    /\ UNCHANGED <<which, repositoryVars, findVars, frameworkVars, pvarVars,
                   cmdVars, argvVars>>
PvarMoves ==
  which = "pvars" /\ PvarNext
    /\ UNCHANGED <<which, repositoryVars, findVars, frameworkVars, varVars,
                   cmdVars, argvVars>>
CmdNext ==
  which = "command line" /\ CommandLine!CmdNext
    /\ UNCHANGED <<which, repositoryVars, findVars, frameworkVars, varVars,
                   pvarVars, argvVars>>
(* A vector and an environment are two blocks that do not share anything.  *)
ArgvNext ==
  /\ \/ which = "argv" /\ Argv!ArgvNext
     \/ which = "environ" /\ Argv!EnvNext
  /\ UNCHANGED <<which, repositoryVars, findVars, frameworkVars, varVars,
                 pvarVars, cmdVars>>

MCNext == \/ RepositoryMoves \/ FindMoves \/ FrameworkNext \/ VarMoves
          \/ PvarMoves \/ CmdNext \/ ArgvNext

(* A call that has begun runs on: the destructors of the repository and    *)
(* the whole of a search for components.                                   *)
MCSpec ==
  /\ MCInit /\ [][MCNext]_allVars
  /\ WF_repositoryVars(which = "repository" /\ RepositoryStep)
  /\ WF_findVars(which = "find" /\ FindNext)

-----------------------------------------------------------------------------
(* The recursion over dependencies ends, whatever the files say, and so do *)
(* the destructors that release dependencies in turn.                      *)
CallsReturn == /\ DestructorsEnd
               /\ which = "find" => Terminates

(* Each token becomes an option, a parameter or part of the tail, and the  *)
(* values of a parameter stay in order.                                    *)
CommandLineIsParsed ==
  which = "command line" => /\ CommandLine!TokensAreAccountedFor
                            /\ CommandLine!McaValuesInOrder

(* A vector holds its strings and its NULL, joining and splitting undo     *)
(* each other, and an environment has one entry for a name.                *)
ArgvIsSound == /\ which = "argv" => /\ Argv!VectorIsTerminated
                                    /\ Argv!SplitUndoesJoin
               /\ which = "environ" => Argv!OneEntryPerName
====
