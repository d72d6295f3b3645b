---------------------------- MODULE WorkClassify ----------------------------
(***************************************************************************)
(* How a command is classified (sessionpressure/work_express.go): the      *)
(* shell statement is split into commands, each command is recognised by   *)
(* its tool and its arguments, and the class found corrects the class that *)
(* was asked for.  A class that is too light lets the command in beside    *)
(* work it should have waited for.  All of it is pure: the module has no   *)
(* variables, and its properties hold the loops of the code against        *)
(* definitions without loops, for all inputs up to a length.               *)
(*                                                                         *)
(* A statement is a sequence of characters, of which one stands for each   *)
(* the scanners treat alike; "go" is the name of a tool, a character here. *)
(* An argument is a word, an option or an option with its value after      *)
(* "=" ; "./..." stands for every pattern that names more than one package.*)
(***************************************************************************)
EXTENDS WorkLimits, FiniteSets, Sequences, SequencesExt

CONSTANTS MaxChars, MaxArgs   \* bounds of the inputs

ASSUME InputBounds == {MaxChars, MaxArgs} \subseteq Nat

(***************************************************************************)
(* tokenizeSafeShellSequence: literal commands between "&&", ";" and       *)
(* newlines; whatever the shell might expand is refused.                   *)
(***************************************************************************)
SafeStart == [mode |-> "plain", escaped |-> FALSE, amp |-> FALSE, next |-> FALSE, ok |-> TRUE,
              current |-> <<>>, words |-> <<>>, commands |-> <<>>]

Refused(z) == [z EXCEPT !.ok = FALSE]
Add(z, ch) == [z EXCEPT !.current = Append(@, ch), !.escaped = FALSE]
FlushWord(z) ==
    IF z.current = <<>> THEN z ELSE [z EXCEPT !.words = Append(@, z.current), !.current = <<>>]
FlushCommand(z) ==
    LET f == FlushWord(z)
    IN  IF f.words = <<>> THEN Refused(z)
        ELSE [f EXCEPT !.commands = Append(@, f.words), !.words = <<>>, !.next = FALSE]
Pending(z) == z.current # <<>> \/ z.words # <<>>

\* The quotes: nothing is special between single ones, expansion is between double ones.
SafeQuoted(z, ch) ==
    IF z.mode = "single" THEN IF ch = "'" THEN [z EXCEPT !.mode = "plain"] ELSE Add(z, ch)
    ELSE CASE ch = "\"" -> [z EXCEPT !.mode = "plain"]
           [] ch = "\\" -> [z EXCEPT !.escaped = TRUE]
           [] ch = "$"  -> Refused(z)
           [] OTHER     -> Add(z, ch)

SafePlain(z, ch) ==
    CASE ch = "\\" -> [z EXCEPT !.escaped = TRUE]
      [] ch = "'"  -> [z EXCEPT !.mode = "single"]
      [] ch = "\"" -> [z EXCEPT !.mode = "double"]
      [] ch = " "  -> FlushWord(z)
      [] ch = "\n" -> IF Pending(z) THEN FlushCommand(z) ELSE z
      [] ch = "&"  -> [FlushCommand(z) EXCEPT !.amp = TRUE]
      [] ch = ";"  -> FlushCommand(z)
      [] ch \in {"$", "<", "(", ")"} -> Refused(z)
      [] OTHER     -> Add(z, ch)

SafeStep(z, ch) ==
    IF ~z.ok THEN z
    ELSE IF z.amp THEN IF ch = "&" THEN [z EXCEPT !.amp = FALSE, !.next = TRUE] ELSE Refused(z)
    ELSE IF z.escaped THEN Add(z, ch)
    ELSE IF z.mode # "plain" THEN SafeQuoted(z, ch)
    ELSE SafePlain(z, ch)

\* The commands, each a sequence of words; empty if the statement is refused.
TokenizeSafeShellSequence(s) ==
    LET z == FoldLeft(SafeStep, SafeStart, s)
        e == IF Pending(z) THEN FlushCommand(z) ELSE z
    IN  IF ~z.ok \/ z.amp \/ z.escaped \/ z.mode # "plain" \/ e.next THEN <<>> ELSE e.commands

(***************************************************************************)
(* tokenizeShellishArgv: the arguments from the first tool on, up to the   *)
(* end of its command.                                                     *)
(***************************************************************************)
ShellishPlain(z, ch) ==
    CASE ch = "'"  -> [z EXCEPT !.mode = "single"]
      [] ch = "\"" -> [z EXCEPT !.mode = "double"]
      [] ch \in {" ", "\n"} -> FlushWord(z)
      [] ch \in {"&", ";", ")"} -> [FlushWord(z) EXCEPT !.ok = FALSE]
      [] ch = "<"  -> [FlushWord(IF z.current # <<>> /\ \A i \in DOMAIN z.current : z.current[i] = "2"
                                 THEN [z EXCEPT !.current = <<>>] ELSE z) EXCEPT !.ok = FALSE]
      [] ch = "("  -> IF Pending(z) THEN Add(z, ch) ELSE z
      [] OTHER     -> Add(z, ch)

ShellishStep(z, ch) ==
    IF ~z.ok THEN z
    ELSE IF z.escaped THEN Add(z, ch)
    ELSE IF ch = "\\" /\ z.mode # "single" THEN [z EXCEPT !.escaped = TRUE]
    ELSE IF z.mode = "single" THEN IF ch = "'" THEN [z EXCEPT !.mode = "plain"] ELSE Add(z, ch)
    ELSE IF z.mode = "double" THEN IF ch = "\"" THEN [z EXCEPT !.mode = "plain"] ELSE Add(z, ch)
    ELSE ShellishPlain(z, ch)

TokenizeShellishArgv(s) == FlushWord(FoldLeft(ShellishStep, SafeStart, s)).words

\* Where a tool is named, as a token of its own.
ToolTokens(s) ==
    {i \in DOMAIN s : /\ s[i] = "go" /\ i < Len(s) /\ s[i + 1] = " "
                      /\ i = 1 \/ s[i - 1] \in {" ", "(", "'", "\""}}
IndexToolchainToken(s) == CHOOSE i \in ToolTokens(s) : \A j \in ToolTokens(s) : i <= j

ExtractToolchainArgvFromStatement(s) ==
    IF ToolTokens(s) = {} THEN <<>> ELSE TokenizeShellishArgv(SubSeq(s, IndexToolchainToken(s), Len(s)))

(***************************************************************************)
(* Arguments.  Parse joins an option that takes a value to the value after *)
(* it, the way each of the loops over the arguments skips one.             *)
(***************************************************************************)
Word(w)      == [flag |-> "", assigned |-> FALSE, word |-> w]
Flag(f)      == [flag |-> f, assigned |-> FALSE, word |-> ""]
Assign(f, w) == [flag |-> f, assigned |-> TRUE, word |-> w]
IsFlag(a)    == a.flag # ""
Plain(a, flags) == a.flag \in flags /\ ~a.assigned

\* The option (or the word, for yarn's workspace) that waits for a value gets it.
Join(a, value) == [flag |-> IF IsFlag(a) THEN a.flag ELSE a.word, assigned |-> FALSE,
                   word |-> IF IsFlag(value) THEN value.flag ELSE value.word]
Parse(args, taking) ==
    LET Step(out, a) == IF out # <<>> /\ Last(out) \in taking
                        THEN Append(Front(out), Join(Last(out), a)) ELSE Append(out, a)
    IN  FoldLeft(Step, <<>>, args)
Options(flags) == {Flag(f) : f \in flags}

Words(args) == SelectSeq(args, LAMBDA a : ~IsFlag(a))
Has(args, flags) == \E i \in DOMAIN args : args[i].flag \in flags
UpTo(args, flag) ==
    LET ends == {i \in DOMAIN args : Plain(args[i], {flag})}
    IN  IF ends = {} THEN args ELSE SubSeq(args, 1, (CHOOSE i \in ends : \A j \in ends : i <= j) - 1)

(***************************************************************************)
(* Go.                                                                     *)
(***************************************************************************)
GoValueFlags ==
    {"-run", "-bench", "-benchtime", "-count", "-cpu", "-parallel", "-timeout", "-coverprofile",
     "-coverpkg", "-covermode", "-tags", "-mod", "-modfile", "-exec", "-o", "-p", "-asmflags",
     "-gcflags", "-ldflags", "-toolexec", "-C", "-overlay", "-pgo", "-vet", "-fuzz", "-fuzztime",
     "-skip", "-blockprofile", "-cpuprofile", "-memprofile", "-mutexprofile", "-outputdir", "-trace"}
FullWeightFlags ==
    {"-race", "-msan", "-asan", "-cover", "-covermode", "-coverpkg", "-coverprofile", "-bench",
     "-benchtime", "-fuzz", "-fuzztime", "-cpu", "-blockprofile", "-cpuprofile", "-memprofile",
     "-mutexprofile", "-trace"}

\* File lists are one package, and what follows "--" is not looked at.
GoPackageTargets(args) ==
    SelectSeq(Words(UpTo(Parse(args, Options(GoValueFlags)), "--")), LAMBDA a : a.word # "main.go")
GoPackageIsRecursiveOrMulti(target) == target.word = "./..."
GoArgvIsExpressScope(args) ==
    LET targets == GoPackageTargets(args)
    IN  \/ targets = <<>>
        \/ Len(targets) = 1 /\ ~GoPackageIsRecursiveOrMulti(targets[1])
GoTestRequiresFullWeight(args) == Has(args, FullWeightFlags)

NoClass == "none"
ExpressOf(class) == IF class = "test" THEN "express-test" ELSE "express-build"
Scoped(class, narrow) == IF narrow THEN ExpressOf(class) ELSE class

\* splitGoWorkArgv: only -C may come before the verb, and stays among the arguments.
GoSplitStep(z, a) ==
    IF z.verb # "" \/ z.value THEN [z EXCEPT !.rest = Append(@, a), !.value = FALSE]
    ELSE IF a.flag = "-C" THEN [z EXCEPT !.rest = Append(@, a), !.value = ~a.assigned]
    ELSE [z EXCEPT !.verb = IF IsFlag(a) THEN "refused" ELSE a.word]
SplitGoWorkArgv(args) == FoldLeft(GoSplitStep, [verb |-> "", value |-> FALSE, rest |-> <<>>], args)

ClassifyGoWorkArgv(args) ==
    LET z == SplitGoWorkArgv(args)
        narrow == GoArgvIsExpressScope(z.rest)
    IN  CASE z.verb = "test" -> Scoped("test", narrow /\ ~GoTestRequiresFullWeight(z.rest))
          [] z.verb = "vet"  -> Scoped("test", narrow)
          [] z.verb \in {"build", "install", "generate"} -> Scoped("build", narrow)
          [] z.verb = "run"  -> "express-build"
          [] OTHER -> NoClass

(***************************************************************************)
(* make, for the canonical targets in the root they belong to.             *)
(***************************************************************************)
CanonicalMakeBuildTarget(args, dir) ==
    LET parsed == Parse(args, Options({"-C", "--directory"}))
        words  == Words(parsed)
        dirs   == SelectSeq(parsed, IsFlag)
    IN  IF /\ \A i \in DOMAIN dirs : dirs[i].flag \in {"-C", "--directory"} /\ dirs[i].word # ""
           /\ Len(dirs) <= 1 /\ Len(words) = 1
           /\ words[1].word \in {"build-ndev", "build-ndev-session-pressure", "build-toolguard", "build-ndev-all"}
        THEN [target |-> words[1].word, dir |-> IF dirs = <<>> THEN dir ELSE dirs[1].word]
        ELSE [target |-> "", dir |-> dir]

CanonicalNDevMakeRoot(dir) == dir = "root"

ClassifyCanonicalMakeWorkArgv(args, dir) ==
    LET m == CanonicalMakeBuildTarget(args, dir)
    IN  IF m.target = "" \/ ~CanonicalNDevMakeRoot(m.dir) THEN NoClass
        ELSE Scoped("build", m.target # "build-ndev-all")

(***************************************************************************)
(* Cargo, Node, Swift, and the evaluation of ndev's fixtures.              *)
(***************************************************************************)
CargoArgvIsExpressScope(args) ==
    LET parsed == Parse(args, Options({"-p", "--package"}))
    IN  /\ \E i \in DOMAIN parsed : Plain(parsed[i], {"-p"}) \/ parsed[i].flag = "--package"
        /\ \A i \in DOMAIN parsed : ~Plain(parsed[i], {"--workspace", "--all", "--all-targets", "--all-features"})
ClassifyCargoWorkArgv(args) ==
    LET verb == Head(args).word
    IN  CASE verb \in {"test", "check", "clippy"} -> Scoped("test", CargoArgvIsExpressScope(Tail(args)))
          [] verb = "build" -> Scoped("build", CargoArgvIsExpressScope(Tail(args)))
          [] verb = "bench" -> "test"
          [] OTHER -> NoClass

SwiftArgvIsExpressScope(args) == Has(args, {"--filter", "--target", "--product"})
ClassifySwiftWorkArgv(args) ==
    IF Head(args).word \in {"test", "build"}
    THEN Scoped(Head(args).word, SwiftArgvIsExpressScope(Tail(args))) ELSE NoClass

NodePackageDirFlags(manager) ==
    CASE manager = "pnpm" -> {"-C", "--dir"} [] manager = "npm" -> {"--prefix"} [] OTHER -> {"--cwd"}
NodeParse(manager, args) ==
    Parse(args, Options({"--filter", "-F", "--workspace"} \cup NodePackageDirFlags(manager))
                \cup {Word("workspace")})

NodePackageSelectorIsSingle(value) == value \notin {"", "./..."}
NodePackageDirIsConcrete(value)    == value \notin {"", ".", ".."}

\* Exactly one package is selected, by name or by directory, and nothing is recursive.
NodeArgvIsPackageScope(manager, args) ==
    LET parsed    == NodeParse(manager, args)
        dirFlags  == NodePackageDirFlags(manager)
        Select(a) == \/ Plain(a, {"--filter", "-F", "--workspace", "workspace"})
                     \/ a.assigned /\ a.flag \in {"--filter", "--workspace"}
        Dir(a)    == \/ Plain(a, dirFlags)
                     \/ a.assigned /\ a.flag \in dirFlags \ {"-C"} /\ a.word # ""
    IN  /\ \A i \in DOMAIN parsed :
              /\ ~(Plain(parsed[i], {"-r"}) \/ parsed[i].flag = "--recursive")
              /\ Select(parsed[i]) => NodePackageSelectorIsSingle(parsed[i].word)
              /\ Dir(parsed[i]) => NodePackageDirIsConcrete(parsed[i].word)
        /\ Len(SelectSeq(parsed, LAMBDA a : Select(a) \/ Dir(a))) = 1

\* The first word that is neither the value of an option nor "run".
NodePackageScript(manager, args) ==
    LET words == SelectSeq(Words(NodeParse(manager, args)), LAMBDA a : a.word # "run")
    IN  IF words = <<>> THEN "" ELSE words[1].word
IsNodeTestScript(script)  == script \in {"test", "typecheck", "check", "lint"}
IsNodeBuildScript(script) == script \in {"build", "verify"}

NodeRunnerIsExpressScope(args) ==
    LET words == Words(args)
        paths == IF words # <<>> /\ words[1].word \in {"run", "related"} THEN Tail(words) ELSE words
    IN  Len(paths) = 1 /\ paths[1].word # "./..."
TscArgvIsExpressScope(args) ==
    LET parsed == Parse(args, Options({"-p", "--project"}))
    IN  /\ \A i \in DOMAIN parsed : ~Plain(parsed[i], {"-b", "--build"})
        /\ \E i \in DOMAIN parsed : Plain(parsed[i], {"-p"}) \/ parsed[i].flag = "--project"
NodeRunner(tool, args) ==
    CASE tool \in {"vitest", "jest"} -> Scoped("test", NodeRunnerIsExpressScope(args))
      [] tool = "tsc" -> Scoped("test", TscArgvIsExpressScope(args))
      [] OTHER -> NoClass

ClassifyNodeWorkArgv(tool, args) ==
    LET script == NodePackageScript(tool, args)
        narrow == NodeArgvIsPackageScope(tool, args)
    IN  IF tool \in {"npx", "bunx"} THEN NodeRunner(args[1].word, Tail(args))
        ELSE IF /\ Len(args) >= 2 /\ args[1].word \in {"exec", "dlx"}
                /\ args[2].word \in {"vitest", "jest", "tsc"}
        THEN NodeRunner(args[2].word, SubSeq(args, 3, Len(args)))
        ELSE IF IsNodeTestScript(script) THEN Scoped("test", narrow)
        ELSE IF IsNodeBuildScript(script) THEN Scoped("build", narrow) ELSE NoClass

ClassifyNDevAskEvalArgv(args) ==
    LET named == {i \in DOMAIN args : args[i] # Flag("--json")}
        rest  == IF named = {} THEN <<>> ELSE SubSeq(args, Min(named), Len(args))
    IN  IF Len(rest) < 2 \/ SubSeq(rest, 1, 2) # <<Word("ask"), Word("eval")>>
           \/ \E i \in DOMAIN rest : Plain(rest[i], {"--help", "-h"}) THEN NoClass
        ELSE IF Has(rest, {"--case", "--surface", "--intent"}) THEN "express-test" ELSE "benchmark"

(***************************************************************************)
(* A command, a sequence of commands in a shell, and the class resolved.   *)
(***************************************************************************)
Command(tool, args) == [tool |-> tool, args |-> args]

ClassifyDirectWorkArgv(c, dir) ==
    CASE c.args = <<>> -> NoClass
      [] c.tool \in {"ndev", "nicos-dev", "ndev-go"} -> ClassifyNDevAskEvalArgv(c.args)
      [] c.tool = "go" -> ClassifyGoWorkArgv(c.args)
      [] c.tool \in {"make", "gmake"} -> ClassifyCanonicalMakeWorkArgv(c.args, dir)
      [] c.tool = "cargo" -> ClassifyCargoWorkArgv(c.args)
      [] c.tool \in {"npm", "pnpm", "yarn", "bun", "npx", "bunx"} -> ClassifyNodeWorkArgv(c.tool, c.args)
      [] c.tool = "swift" -> ClassifySwiftWorkArgv(c.args)
      [] OTHER -> NoClass

Ranking == <<"express-test", "express-build", "test", "build", "benchmark", "benchmark-exclusive">>
Rank(class) == IF class \in Range(Ranking) THEN CHOOSE i \in DOMAIN Ranking : Ranking[i] = class ELSE 0
\* Mutant: the last command counts.
LaterWorkClass(left, right) == right
StrongerWorkClass(left, right) == IF Rank(right) > Rank(left) THEN right ELSE left

SafeShellSetCommand(c) == c.tool = "set" /\ c.args \in {<<Flag("-e")>>, <<Flag("-eu")>>}
SafeShellWorkDir(w) == w \notin {"", "-", "~", "$HOME"}

ShellStep(z, c) ==
    LET class == ClassifyDirectWorkArgv(c, z.dir)
    IN  IF ~z.ok \/ SafeShellSetCommand(c) THEN z
        ELSE IF c.tool = "cd" /\ Len(c.args) = 1
        THEN [z EXCEPT !.dir = c.args[1].word, !.ok = SafeShellWorkDir(c.args[1].word)]
        ELSE [z EXCEPT !.class = StrongerWorkClass(@, class), !.ok = class # NoClass]
ClassifyShellWrappedWorkArgv(commands, dir) ==
    LET z == FoldLeft(ShellStep, [dir |-> dir, class |-> NoClass, ok |-> TRUE], commands)
    IN  IF z.ok THEN z.class ELSE NoClass

ResolveWorkClass(requested, exclusive, class) ==
    IF exclusive \/ requested = "benchmark-exclusive" THEN "benchmark-exclusive"
    ELSE IF class # NoClass /\ requested \in {"", "test", "express-test", "build", "express-build"}
    THEN class ELSE requested
------------------------------------------------------------------------------

(***************************************************************************)
(* The inputs looked at.  A statement may have a command or a wrapper      *)
(* before the tool; options have one dash.                                 *)
(***************************************************************************)
Characters == {"go", "a", "2", " ", "\n", "'", "\"", "\\", "&", ";", "$", "<", "("}
Leads == {<<>>, <<"a", " ">>, <<"a", "&", "&", " ">>, <<"a", ";", " ">>}
Statements == {lead \o <<"go", " ">> \o s : lead \in Leads, s \in UNION {[1..n -> Characters] : n \in 0..MaxChars}}

GoArguments == {Word("pkg"), Word("./..."), Word("main.go"), Flag("-run"), Flag("-race"), Flag("-v"),
                Assign("-run", "T"), Flag("--"), Flag("-C")}
ArgumentLists(S) == UNION {[1..n -> S] : n \in 0..MaxArgs}

Lines == {Command("go", <<Word("test"), Word("pkg")>>), Command("go", <<Word("test"), Word("./...")>>),
          Command("cargo", <<Word("build"), Flag("-p"), Word("pkg")>>), Command("cargo", <<Word("build")>>),
          Command("make", <<Word("build-ndev")>>), Command("make", <<Word("build-ndev-all"), Flag("-C"), Word("root")>>),
          Command("npx", <<Word("tsc"), Flag("-b")>>), Command("pnpm", <<Flag("--filter"), Word("pkg"), Word("build")>>),
          Command("swift", <<Word("test"), Flag("--filter"), Word("a")>>),
          Command("ndev", <<Flag("--json"), Word("ask"), Word("eval")>>), Command("rm", <<Word("pkg")>>),
          Command("cd", <<Word("root")>>), Command("cd", <<Word("~")>>), Command("set", <<Flag("-e")>>)}
Scripts == UNION {[1..n -> Lines] : n \in 0..3}

(***************************************************************************)
(* How go itself reads its arguments.  An option that takes a value takes  *)
(* the argument after it; `go test` takes options up to "--", and what     *)
(* follows that goes to the test binary; `go build` takes them up to its   *)
(* first operand or "--", and everything after that is an operand.         *)
(***************************************************************************)
\* How many arguments right before the i-th are all ones that take a value.
Run(args, taking, i) ==
    Max({n \in 0..(i - 1) : \A j \in (i - n)..(i - 1) : args[j] \in taking})
\* The i-th argument stands for itself: it is not the value of the one before it.
Own(args) == {i \in DOMAIN args : Run(args, Options(GoValueFlags), i) % 2 = 0}

GoOperands(verb, args) ==
    LET dashes == {i \in Own(args) : args[i] = Flag("--")}
        words  == {i \in Own(args) : ~IsFlag(args[i])}
    IN  IF verb = "test" THEN {i \in words : \A j \in dashes : i < j}
        ELSE {i \in DOMAIN args : /\ \E j \in dashes \cup words : j <= i
                                  /\ i \in dashes => \E j \in dashes \cup words : j < i}

\* go refuses an option among the operands, and files named beside packages.
GoRefuses(verb, args) ==
    LET operands == GoOperands(verb, args)
        files    == {i \in operands : args[i] = Word("main.go")}
    IN  (\E i \in operands : IsFlag(args[i])) \/ files \notin {{}, operands}

\* Several packages, or a pattern.
GoRunsMany(verb, args) ==
    LET packages == {i \in GoOperands(verb, args) : args[i] # Word("main.go")}
    IN  ~GoRefuses(verb, args) /\ (Cardinality(packages) > 1 \/ \E i \in packages : args[i] = Word("./..."))
GoInstruments(verb, args) == verb = "test" /\ \E i \in DOMAIN args : args[i] = Flag("-race")

\* The two scanners find the same command, the first that names the tool, from the tool on,
\* wherever the stricter one accepts the statement; the other may run on into the next line,
\* never stop short of an argument
\* (ClassifyWorkStatement, tokenizeSafeShellSequence, tokenizeShellishArgv).
ScannersAgree ==
    \A s \in Statements :
        LET safe    == TokenizeSafeShellSequence(s)
            Named(c) == {i \in DOMAIN c : c[i] = <<"go">>}
            k       == Min({j \in DOMAIN safe : Named(safe[j]) # {}})
            command == SubSeq(safe[k], Min(Named(safe[k])), Len(safe[k]))
            argv    == ExtractToolchainArgvFromStatement(s)
        IN  safe # <<>> => IsPrefix(command, argv) /\ (k = Len(safe) => argv = command)

\* A go command is express only where go itself takes it for one package at most and does not
\* instrument it, or refuses it - except a build with "--", after which the classifier, unlike
\* go build, looks for no package - and has its full class only where go takes it for more, or
\* refuses it (ClassifyGoWorkArgv, goArgvIsExpressScope, goPackageTargets).
GoScope ==
    \A args \in ArgumentLists(GoArguments), verb \in {"build", "test"} :
        LET express == ClassifyGoWorkArgv(<<Word(verb)>> \o args) = ExpressOf(verb)
            full    == ClassifyGoWorkArgv(<<Word(verb)>> \o args) = verb
            heavy   == GoRunsMany(verb, args) \/ GoInstruments(verb, args)
        IN  /\ (express /\ heavy) => verb = "build" /\ \E i \in DOMAIN args : args[i] = Flag("--")
            /\ full => heavy \/ GoRefuses(verb, args)
            /\ express \/ full

\* Pairs of classes of which the first weighs no more on any host, by the default limits; but on
\* a host of up to six CPUs a benchmark, which has to leave room for an express test, may weigh
\* less than a class that is ranked below it.
NoHeavier ==
    {pair \in Range(Ranking) \X Range(Ranking) :
        \A cpus \in 1..MaxCPUs :
            LET l == DefaultWorkLimits(cpus)
            IN  WeightOf(l, pair[1]) <= WeightOf(l, pair[2]) \/ (cpus <= 6 /\ pair[2] = "benchmark")}

\* A script that is classified reserves the weight of the heaviest of its commands, each in the
\* directory it runs in, and none of them is unknown; a caller who asked for an express or an
\* ordinary class cannot lower that (ResolveWorkClass, classifyShellWrappedWorkArgv).
ScriptCovered ==
    \A script \in Scripts : \A class \in {ClassifyShellWrappedWorkArgv(script, "home")} \ {NoClass} :
        LET dir(i) == IF \E j \in 1..(i - 1) : script[j] = Command("cd", <<Word("root")>>) THEN "root" ELSE "home"
            work   == {i \in DOMAIN script : script[i].tool \notin {"cd", "set"}}
        IN  \A c \in {ClassifyDirectWorkArgv(script[i], dir(i)) : i \in work},
               requested \in {"", "express-test", "build"} :
                  <<c, ResolveWorkClass(requested, FALSE, class)>> \in NoHeavier

\* The scanners find the same command, a go command is not classed lighter than what go runs,
\* nor a script lighter than its commands; the exceptions are those named above.
ClassifySound == ScannersAgree /\ GoScope /\ ScriptCovered
=============================================================================
