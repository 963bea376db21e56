---------------------------- MODULE SpecParsers ----------------------------
(* What index_core reads: the framework's own files and the curated files of  *)
(* one Odoo version, and the parsers that turn them into tables of symbols,    *)
(* lint rules, commands and flags. Files are given by what the parsers look at.*)
EXTENDS Integers, FiniteSets, Sequences, FiniteSetsExt, SequencesExt

CONSTANTS
  CoreVersions,     \* Odoo versions, as numbers
  Framework,        \* [CoreVersions -> the files of an Odoo checkout]
  SpecData,         \* [CoreVersions -> the curated files of spec_data]
  Symbols,          \* qualified names: sequences such as <<"api", "multi">>
  CoreFiles,        \* _CORE_FILES, the allow-list, in order
  SplitInto,        \* the files of odoo/orm some of them were split into
  LegacyMax,        \* ODOO_NAMESPACE_LEGACY_MAX_MAJOR
  LintRulesMin,     \* LINT_RULES_MIN_MAJOR
  NoSymbol

Statuses == {"stable", "deprecated", "removed", "added"}

\* The name a symbol is looked up by: what follows the last dot.
ShortName(s) == Last(s)

-----------------------------------------------------------------------------
(* Core symbols: the allow-listed files, then the curated tools.              *)

\* _version_prefix and _pkg_prefix.
VersionPrefix(v) == IF v <= LegacyMax THEN "openerp" ELSE "odoo"

\* The files an allow-listed one stands for: itself, or since its split what is
\* there of its parts; none when the version has neither.
ResolveCorePaths(l, v) ==
  LET tree  == Framework[v].core
      whole == <<VersionPrefix(v), l>>
      parts == IF l \in DOMAIN SplitInto THEN SplitInto[l] ELSE <<>>
  IN  CASE whole \in DOMAIN tree       -> <<whole>>
        [] VersionPrefix(v) = "openerp" -> <<>>
        [] OTHER -> SelectSeq([i \in DOMAIN parts |-> <<"odoo/orm", parts[i]>>],
                              LAMBDA p : p \in DOMAIN tree)

\* A decorator is written bare or called, as a name or an attribute.
HasDeprecatedDecorator(d) ==
  d.deprecated \cap {"name", "attribute", "called name", "called attribute"} # {}
\* warnings.warn(..., DeprecationWarning) anywhere in the body.
HasBodyLevelDeprecationWarning(d) == "warning" \in d.deprecated

FunctionStatus(d) ==
  IF HasDeprecatedDecorator(d) \/ HasBodyLevelDeprecationWarning(d)
  THEN "deprecated" ELSE "stable"
\* The decorator of a class is not seen when it is a called name.
ClassStatus(d) ==
  IF d.deprecated \cap {"name", "attribute", "called attribute"} # {}
  THEN "deprecated" ELSE "stable"

CoreSymbol(s, status, repl) == [symbol |-> s, status |-> status, repl |-> repl]

ExtractClassMethods(l, c) ==
  LET public == SelectSeq(c.methods, LAMBDA d : ~d.private)
  IN  [i \in DOMAIN public |->
         CoreSymbol(<<l, c.name, public[i].name>>, FunctionStatus(public[i]), NoSymbol)]

\* Top-level functions and classes, private ones too; public methods.
ExtractFromSource(l, f) ==
  IF ~f.parses THEN <<>>
  ELSE FlattenSeq([i \in DOMAIN f.defs |->
         LET d == f.defs[i] IN
         IF d.kind = "function"
         THEN <<CoreSymbol(<<l, d.name>>, FunctionStatus(d), NoSymbol)>>
         ELSE <<CoreSymbol(<<l, d.name>>, ClassStatus(d), NoSymbol)>>
              \o ExtractClassMethods(l, d)])

ParseOdooCore(v) ==
  FlattenSeq([i \in DOMAIN CoreFiles |->
    LET l     == CoreFiles[i]
        paths == ResolveCorePaths(l, v)
    IN  FlattenSeq([j \in DOMAIN paths |->
          ExtractFromSource(l, Framework[v].core[paths[j]])])])

\* A curated file is read whole or not at all; entries without a name are skipped.
LoadToolsSymbols(v) ==
  IF ~SpecData[v].tools.valid THEN <<>>
  ELSE SelectSeq(SpecData[v].tools.entries, LAMBDA e : e.symbol # NoSymbol)

\* index_core: curated symbols that are parsed too are left out.
MergeSymbols(parsed, curated) ==
  parsed \o SelectSeq(curated, LAMBDA e :
              \A i \in DOMAIN parsed : parsed[i].symbol # e.symbol)

-----------------------------------------------------------------------------
(* Lint rules: the checkers, eslintrc and ruff.toml of the framework, from the *)
(* first version that has them, then the curated ones.                         *)

Rule(id, kind, words, symbol) ==
  [id |-> id, kind |-> kind, words |-> words, symbol |-> symbol]

\* A checker's class lists its messages; what is not a dictionary is passed over.
ParsePylintOdooSource(f) ==
  IF ~f.parses THEN <<>>
  ELSE [i \in DOMAIN f.msgs |-> Rule(f.msgs[i].id, "pylint-odoo", f.msgs[i].words, NoSymbol)]

\* Rules of these two have no message.
ParseEslintConfig(f) ==
  IF ~f.parses THEN <<>>
  ELSE [i \in DOMAIN f.rules |-> Rule(f.rules[i], "eslint-odoo", {}, NoSymbol)]
ParseRuffToml(f) ==
  IF ~f.parses THEN <<>>
  ELSE [i \in DOMAIN f.rules |-> Rule(f.rules[i], "ruff-builtin", {}, NoSymbol)]

ExtractedRules(v) ==
  IF v < LintRulesMin THEN <<>>
  ELSE FlattenSeq([i \in DOMAIN Framework[v].checkers |->
                     ParsePylintOdooSource(Framework[v].checkers[i])])
       \o ParseEslintConfig(Framework[v].eslint) \o ParseRuffToml(Framework[v].ruff)

LoadStaticLintRules(v) ==
  IF SpecData[v].lint.valid THEN SpecData[v].lint.entries ELSE <<>>

\* The first rule of an id and kind is kept.
AddRule(known, r) ==
  IF \E i \in DOMAIN known : known[i].id = r.id /\ known[i].kind = r.kind
  THEN known ELSE Append(known, r)
ParseLintRules(v) == FoldLeft(AddRule, <<>>, ExtractedRules(v) \o LoadStaticLintRules(v))

-----------------------------------------------------------------------------
(* Commands and flags.                                                        *)

\* odoo/cli/*.py but the package's own files: the subclasses of Command.
ParseCliModule(f) ==
  IF f.skip \/ ~f.parses THEN {} ELSE {c.name : c \in {c \in f.classes : c.command}}

LoadStaticCliCommands(v) ==
  IF SpecData[v].cli.valid THEN SpecData[v].cli.commands ELSE {}

ParseCliCommands(v) ==
  UNION {ParseCliModule(f) : f \in ToSet(Framework[v].cli)} \cup LoadStaticCliCommands(v)

Flag(command, name, status) == [command |-> command, name |-> name, status |-> status]

\* An option is named by its first long form, or by its first argument.
FlagName(call) ==
  IF call.long # <<>> THEN Head(call.long) ELSE Head(call.short)

\* odoo/tools/config.py: the options of the server command.
ParseOptionsCalls(f) ==
  IF ~f.parses THEN <<>>
  ELSE LET named == SelectSeq(f.calls, LAMBDA c :
                      c.option /\ (c.long # <<>> \/ c.short # <<>>))
       IN  [i \in DOMAIN named |->
              Flag("server", FlagName(named[i]),
                   IF named[i].obsolete THEN "deprecated" ELSE "stable")]

LoadStaticCliFlags(v) ==
  IF ~SpecData[v].cli.valid THEN <<>>
  ELSE [i \in DOMAIN SpecData[v].cli.flags |->
          LET e == SpecData[v].cli.flags[i]
          IN  Flag(IF e.command = NoSymbol THEN "server" ELSE e.command, e.name, e.status)]

\* The first flag of a name and command is kept.
AddFlag(known, f) ==
  IF \E i \in DOMAIN known : known[i].name = f.name /\ known[i].command = f.command
  THEN known ELSE Append(known, f)
ParseCliFlags(v) ==
  FoldLeft(AddFlag, <<>>, ParseOptionsCalls(Framework[v].config) \o LoadStaticCliFlags(v))

-----------------------------------------------------------------------------
(* What is merged into the graph: of several of a name, the last is written.   *)

SymbolTable(listed) ==
  [s \in {listed[i].symbol : i \in DOMAIN listed} |->
     LET last == listed[Max({i \in DOMAIN listed : listed[i].symbol = s})]
     IN  [status |-> last.status, repl |-> last.repl]]

Listed    == [v \in CoreVersions |-> MergeSymbols(ParseOdooCore(v), LoadToolsSymbols(v))]
Table     == [v \in CoreVersions |-> SymbolTable(Listed[v])]
LintRules == [v \in CoreVersions |-> ParseLintRules(v)]
RuleTable == [v \in CoreVersions |->
                [id \in {r.id : r \in ToSet(LintRules[v])} |->
                   LET last == Max({i \in DOMAIN LintRules[v] : LintRules[v][i].id = id})
                   IN  [kind |-> LintRules[v][last].kind, words |-> LintRules[v][last].words]]]
Commands  == [v \in CoreVersions |-> ParseCliCommands(v)]
Flags     == [v \in CoreVersions |-> ParseCliFlags(v)]
FlagTable == [v \in CoreVersions |->
                [x \in {<<f.command, f.name>> : f \in ToSet(Flags[v])} |->
                   (CHOOSE f \in ToSet(Flags[v]) : <<f.command, f.name>> = x).status]]

ASSUME CoreAssumption ==
  /\ CoreVersions \subseteq Nat \ {0} /\ LegacyMax \in Nat /\ LintRulesMin \in Nat
  /\ \A v \in CoreVersions :
       Listed[v] \in Seq([symbol : Symbols, status : Statuses, repl : Symbols \cup {NoSymbol}])

-----------------------------------------------------------------------------
(* What the files say, read without the parsers: the definitions of a version  *)
(* with what they are marked with, whichever file of the framework has them.   *)

\* The allow-listed file whose definitions a file of the checkout holds.
LogicalOf(p) ==
  IF p[1] = "odoo/orm" THEN {l \in DOMAIN SplitInto : p[2] \in ToSet(SplitInto[l])}
  ELSE {p[2]} \cap ToSet(CoreFiles)

\* A class marked by a called name only is not expected to be seen as deprecated.
DefinedIn(l, f) ==
  {[symbol |-> <<l, d.name>>,
    deprecated |-> IF d.kind = "class" THEN d.deprecated \ {"called name"} ELSE d.deprecated] :
     d \in ToSet(f.defs)}
  \cup UNION {{[symbol |-> <<l, c.name, d.name>>, deprecated |-> d.deprecated] :
                 d \in {d \in ToSet(c.methods) : ~d.private}} :
              c \in {c \in ToSet(f.defs) : c.kind = "class"}}

Definitions(v) ==
  LET files == {p \in DOMAIN Framework[v].core : Framework[v].core[p].parses}
  IN  UNION {UNION {DefinedIn(l, Framework[v].core[p]) : l \in LogicalOf(p)} : p \in files}

\* The curated and extracted rules whose id no other rule of the version has.
RulesOf(v) ==
  LET said == ToSet(LoadStaticLintRules(v)) \cup
              (IF v < LintRulesMin THEN {} ELSE
                 UNION {IF f.parses THEN {Rule(m.id, "pylint-odoo", m.words, NoSymbol) : m \in ToSet(f.msgs)}
                                    ELSE {} : f \in ToSet(Framework[v].checkers)})
  IN  {r \in said : \A q \in ToSet(LintRules[v]) : q.id = r.id => q = r}

\* The flags of a command with their status: the options of the source for the
\* server, and those curated for it that are not among them.
Options(f) ==
  IF ~f.parses THEN {}
  ELSE {<<FlagName(c), IF c.obsolete THEN "deprecated" ELSE "stable">> :
          c \in {c \in ToSet(f.calls) : c.option /\ (c.long # <<>> \/ c.short # <<>>)}}
FlagsOf(v, c) ==
  LET written == IF c = "server" THEN Options(Framework[v].config) ELSE {}
      curated == {e \in ToSet(IF SpecData[v].cli.valid THEN SpecData[v].cli.flags ELSE <<>>) :
                    e.command = c \/ (c = "server" /\ e.command = NoSymbol)}
  IN  written \cup {<<e.name, e.status>> :
                      e \in {e \in curated : \A o \in written : o[1] # e.name}}
=============================================================================
