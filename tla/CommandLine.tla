---------------------------- MODULE CommandLine ----------------------------
(***************************************************************************)
(* The command line parser (ocoms/util/cmd_line.c) and the MCA options it  *)
(* is given (ocoms/mca/base/mca_base_cmd_line.c).                          *)
(*                                                                         *)
(* A token is a word, "--", a long option --name, or -letters, which is a  *)
(* name, one short option or several that are split.  Splitting rewrites   *)
(* the argv while it is parsed.  A turn of the parser's loop is one action.*)
(* Names are sequences of letters; a name an option lacks is <<>>.  A      *)
(* handle is parsed again with a line of LaterLines, which bounds the run. *)
(***************************************************************************)
EXTENDS Integers, Sequences, FiniteSets, SequencesExt, Bags

CONSTANTS Options,      \* sequence of [short, single_dash, long, num_params, type, env, dest]
          CommandLines, \* the sequences of tokens that are parsed first
          LaterLines,   \* those that are parsed with a handle that was used
          Integer,      \* the tokens of digits and dashes
          McaOptions    \* the names "mca" and "gmca" of the two MCA options

VARIABLES
    given,        \* the argv of the caller, without the program name
    ignore_unknown,
    argv, at,     \* lcl_argv and i
    params,       \* lcl_params, [option, args]
    tail,         \* lcl_tail_argv
    status,       \* "idle", "parsing", "done", "error", "bad_value", "double_free"
    dest,         \* option -> what clo_variable_dest points to holds
    environment   \* parameter -> the values that were set for it

cmdVars == <<given, ignore_unknown, argv, at, params, tail, status, dest, environment>>

Empty == [kind |-> "empty"]     \* special_empty_token
End == [kind |-> "end"]         \* --
Word(w) == [kind |-> "word", word |-> w]
Long(n) == [kind |-> "long", name |-> n]
Dash(n) == [kind |-> "dash", name |-> n]

OptionIds == DOMAIN Options
NoOption == 0

\* find_option: the first option one of whose names it is
FindOption(name) ==
    LET named == {o \in OptionIds :
                    name \in {Options[o].short, Options[o].single_dash, Options[o].long}
                             \ {<<>>}} IN
    IF named = {} THEN NoOption ELSE Min(named)

\* ocoms_cmd_line_create with make_opt: the options never change after it.
CmdInit ==
    /\ given = <<>> /\ ignore_unknown = FALSE
    /\ argv = <<>> /\ at = 1 /\ params = <<>> /\ tail = <<>>
    /\ status = "idle"
    /\ dest = [o \in OptionIds |-> Empty]
    /\ environment = [p \in {} |-> <<>>]

\* free_parse_results: a handle forgets what it parsed before.
FreeParseResults == params' = <<>> /\ tail' = <<>>

\* ocoms_cmd_line_parse up to its loop, of a handle that no parse is using.
ParseStart(tokens, ignore) ==
    /\ status \notin {"parsing", "double_free"} /\ tokens # <<>>
    /\ FreeParseResults
    /\ given' = tokens /\ argv' = tokens /\ ignore_unknown' = ignore
    /\ at' = 1 /\ status' = "parsing"
    /\ UNCHANGED <<dest, environment>>

\* Mutant: every option starts again with the first argument.
SplitShortsAgain(letters, args) ==
    FoldLeft(LAMBDA acc, c :
        LET o == FindOption(<<c>>)
            n == IF o = NoOption THEN 0 ELSE Options[o].num_params IN
        [out |-> acc.out \o <<Dash(<<c>>)>>
                 \o [j \in 1..n |-> IF j <= Len(args) THEN args[j] ELSE Empty],
         used |-> Max({acc.used, Min({n, Len(args)})})],
      [out |-> <<>>, used |-> 0], letters)

\* split_shorts: each letter with the arguments that are its parameters, taken
\* from the tokens that follow; a special token where they run out.
SplitShorts(letters, args) ==
    FoldLeft(LAMBDA acc, c :
        LET o == FindOption(<<c>>)
            n == IF o = NoOption THEN 0 ELSE Options[o].num_params IN
        [out |-> acc.out \o <<Dash(<<c>>)>>
                 \o [j \in 1..n |-> IF acc.used + j <= Len(args) THEN args[acc.used + j]
                                    ELSE Empty],
         used |-> Min({acc.used + n, Len(args)})],
      [out |-> <<>>, used |-> 0], letters)

\* split_shorts succeeds, and its first letter is an option.
Splits(letters) ==
    /\ letters # <<>>
    /\ ignore_unknown \/ \A k \in DOMAIN letters : FindOption(<<letters[k]>>) # NoOption
    /\ FindOption(<<letters[1]>>) # NoOption

Rest(k) == SubSeq(argv, k, Len(argv))

\* The argv when the token at i has been split, and the option it begins with.
Rewritten ==
    LET t == argv[at]
        split == SplitShorts(t.name, Rest(at + 1)) IN
    IF t.kind = "dash" /\ FindOption(t.name) = NoOption /\ Splits(t.name)
    THEN SubSeq(argv, 1, at - 1) \o split.out \o Rest(at + 1 + split.used)
    ELSE argv

OptionAt(v) ==
    IF v[at].kind \in {"dash", "long"} THEN FindOption(v[at].name) ELSE NoOption

\* set_dest: the value goes to the environment variable of the option first, and
\* then to the variable of the caller, if there is one.  Only there is it looked
\* at: digits and dashes make an int or a size_t ("int").
Accepts(o, v) == Options[o].dest /\ Options[o].type = "int" => v \in Integer
Stored(o, v) == IF Options[o].type = "bool" THEN Word("1") ELSE v
SetEnvironment(o, v) ==
    LET name == Options[o].env IN
    environment' = IF name = Empty \/ Options[o].type = "null" THEN environment
                   ELSE [p \in DOMAIN environment \cup {name} |->
                           IF p = name THEN <<Stored(o, v)>> ELSE environment[p]]
SetVariable(o, v) ==
    dest' = IF Options[o].dest /\ Options[o].type # "null"
            THEN [dest EXCEPT ![o] = Stored(o, v)] ELSE dest

\* The tokens from k on go to the tail, and the loop ends.
ToTail(v, k, result) ==
    /\ argv' = v /\ at' = Len(v) + 1
    /\ tail' = tail \o SubSeq(v, k, Len(v))
    /\ status' = result
    /\ UNCHANGED <<given, ignore_unknown, params, dest, environment>>

\* The turn for an option o: as many tokens as it has parameters belong to it,
\* whatever they are; the first goes to its variable.
TakeOption(v, o) ==
    LET n == Options[o].num_params
        args == SubSeq(v, at + 1, at + n)
        first == IF n = 0 THEN Word("1") ELSE v[at + 1]
        empty == {j \in 1..n : at + j <= Len(v) /\ v[at + j] = Empty}
        short == IF empty # {} THEN Min(empty) ELSE n + 1 IN
    IF n > 0 /\ (short = 1 \/ at + 1 > Len(v)) THEN ToTail(v, at + 1, "error")
    ELSE IF ~Accepts(o, first)
    THEN /\ SetEnvironment(o, first)
         /\ status' = "bad_value" /\ argv' = v
         /\ UNCHANGED <<given, ignore_unknown, at, params, tail, dest>>
    ELSE
    /\ SetEnvironment(o, first)
    /\ SetVariable(o, first)
    /\ UNCHANGED <<given, ignore_unknown>>
    /\ argv' = v
    /\ \/ /\ short <= n
          /\ status' = "double_free"
          /\ UNCHANGED <<at, params, tail>>
       \/ /\ short > n /\ at + n > Len(v)
          /\ status' = "error" /\ at' = Len(v) + 1
          /\ UNCHANGED <<params, tail>>
       \/ /\ short > n /\ at + n <= Len(v)
          /\ params' = Append(params, [option |-> o, args |-> args])
          /\ at' = at + n + 1
          /\ UNCHANGED <<tail, status>>

\* A turn of the loop of ocoms_cmd_line_parse
ParseToken ==
    /\ status = "parsing" /\ at <= Len(argv)
    /\ LET t == argv[at]
           v == Rewritten
           o == OptionAt(v) IN
       \/ t = End /\ ToTail(argv, at + 1, "parsing")
       \/ t.kind \in {"word", "empty"} /\ ToTail(argv, at, IF ignore_unknown THEN "parsing" ELSE "error")
       \/ t.kind \in {"dash", "long"} /\ o = NoOption /\ ToTail(argv, at, "error")
       \/ t.kind \in {"dash", "long"} /\ o # NoOption /\ TakeOption(v, o)

ParseEnd ==
    /\ status = "parsing" /\ at > Len(argv)
    /\ status' = "done"
    /\ UNCHANGED <<given, ignore_unknown, argv, at, params, tail, dest, environment>>

-----------------------------------------------------------------------------
\* ocoms_cmd_line_get_ninsts and ocoms_cmd_line_get_param
Instances(name) == SelectSeq(params, LAMBDA p : p.option = FindOption(name))
GetParam(name, inst, idx) == Instances(name)[inst + 1].args[idx + 1]

\* Mutant: the later value replaces the earlier ones.
ProcessArgLast(values, p) ==
    [n \in DOMAIN values \cup {p.args[1]} |->
       IF n # p.args[1] THEN values[n] ELSE <<p.args[2]>>]

\* process_arg: a parameter that is given again has its values joined.
ProcessArg(values, p) ==
    LET name == p.args[1] IN
    [n \in DOMAIN values \cup {name} |->
       IF n # name THEN values[n]
       ELSE (IF name \in DOMAIN values THEN values[name] ELSE <<>>) \o <<p.args[2]>>]

\* ocoms_mca_base_cmd_line_process_args with add_to_env, of one of its two
\* options: the environment has the parameters of this command line over those
\* it had.
ProcessArgs(name) ==
    LET values == FoldLeft(ProcessArg, [p \in {} |-> <<>>], Instances(name)) IN
    /\ status = "done" /\ Instances(name) # <<>>
    /\ environment' = [p \in DOMAIN environment \cup DOMAIN values |->
                         IF p \in DOMAIN values THEN values[p] ELSE environment[p]]
    /\ UNCHANGED <<given, ignore_unknown, argv, at, params, tail, dest>>
    /\ status' = "processed"

CmdNext ==
    \/ \E tokens \in CommandLines, ignore \in BOOLEAN :
          status = "idle" /\ ParseStart(tokens, ignore)
    \/ \E tokens \in LaterLines, ignore \in BOOLEAN :
          status # "idle" /\ ParseStart(tokens, ignore)
    \/ ParseToken \/ ParseEnd
    \/ \E name \in McaOptions : ProcessArgs(name)

CmdSpec == CmdInit /\ [][CmdNext]_cmdVars

-----------------------------------------------------------------------------
\* What a sequence of tokens is made of, however its short options are grouped.
Atoms(ts) ==
    LET atoms(t) == IF t.kind # "dash" \/ FindOption(t.name) # NoOption THEN <<t>>
                    ELSE [k \in DOMAIN t.name |-> Dash(<<t.name[k]>>)] IN
    FoldLeft(LAMBDA acc, t : IF t = Empty THEN acc ELSE acc \o atoms(t), <<>>, ts)

BagOf(s) == FoldLeft(LAMBDA b, x : b (+) SetToBag({x}), EmptyBag, s)

\* Where the parameter at position k of params begins in the argv.
Start(k) == 1 + FoldLeft(LAMBDA n, p : n + 1 + Len(p.args), 0, SubSeq(params, 1, k - 1))

\* What the parser leaves of the tokens at which it stopped: a "--" is dropped, and
\* so is an option with those of its parameters that are there.
Remaining(rest) ==
    IF rest = <<>> THEN <<>>
    ELSE LET o == IF rest[1].kind \in {"dash", "long"} THEN FindOption(rest[1].name)
                  ELSE NoOption
             lacks == {j \in 2..Len(rest) : rest[j] = Empty} IN
         IF rest[1] = End THEN Tail(rest)
         ELSE IF o = NoOption THEN rest
         ELSE IF lacks = {} THEN <<>>
         ELSE SubSeq(rest, Min(lacks), Len(rest))

\* Splitting combined short options, and moving their arguments to them, loses
\* and invents no token.  The part of the argv that was read is, option by
\* option and in order, what the options and their parameters are; the tail is
\* the rest of it wherever the parser stopped, at an unknown token, at an
\* option without its parameters, at "--" or at the end, and nothing of a line
\* that was parsed before (cmd_line.h:363-376).  After "bad_value" set_dest has
\* failed and the parser has returned at once: there is no tail, against the
\* header.  The variable of an option has the parameter of its last instance.
TokensAreAccountedFor ==
    /\ BagOf(Atoms(argv)) = BagOf(Atoms(given))
    /\ \A k \in DOMAIN params :
          LET s == Start(k)
              p == params[k] IN
          /\ argv[s].kind \in {"dash", "long"} /\ FindOption(argv[s].name) = p.option
          /\ p.args = SubSeq(argv, s + 1, s + Len(p.args))
          /\ Len(p.args) = Options[p.option].num_params
          /\ \A j \in DOMAIN p.args : p.args[j] # Empty
    /\ status \in {"done", "processed", "error"} =>
          tail = Remaining(Rest(Start(Len(params) + 1)))
    /\ status \in {"done", "processed"} =>
          \A o \in OptionIds :
             LET of == SelectSeq(params, LAMBDA p : p.option = o) IN
             of # <<>> /\ Options[o].dest /\ Options[o].type # "null" =>
                dest[o] = IF Options[o].num_params = 0 \/ Options[o].type = "bool"
                          THEN Word("1") ELSE Last(of).args[1]

\* A parameter that is given several times on a command line reaches the
\* environment with all its values, in their order, and with no other.
McaValuesInOrder ==
    status = "processed" =>
       \A opt \in McaOptions : \A k \in DOMAIN params : params[k].option = FindOption(opt) =>
          LET name == params[k].args[1]
              same == SelectSeq(Instances(opt), LAMBDA p : p.args[1] = name) IN
          environment[name] = [j \in DOMAIN same |-> same[j].args[2]]
=============================================================================
