----------------------------- MODULE MCMcpTools -----------------------------
(* A small Odoo: base and mail in one repository, crm, which extends both, in *)
(* another; two versions of the framework, the code being of the later one.   *)
EXTENDS McpTools

CONSTANTS A, B


NoFields == [x \in {} |-> x]

\* Python: a file, a class and its members.
PyFile(imports, defs, classes) ==
  [skip |-> FALSE, parses |-> TRUE, imports |-> imports, defs |-> defs, classes |-> classes]
Class(name, inherit, fields, methods) ==
  [base |-> TRUE, name |-> name, inherit |-> [form |-> "list", names |-> inherit],
   inherits |-> {}, fields |-> fields, methods |-> methods]
Field(name, ttype, comodel) == [name |-> name, at |-> "attribute", ttype |-> ttype, comodel |-> comodel]
Char(name) == Field(name, "char", None)
Method(name, kind, super, depends, calls) ==
  [name |-> name, kind |-> kind, super |-> super, depends |-> depends, calls |-> calls]
Call(on, target) == [on |-> on, target |-> target]
NoImports == [x \in {} |-> x]

\* XML: a file of views and templates.
XmlFile(records, templates) ==
  [skip |-> FALSE, wellFormed |-> TRUE, records |-> records, templates |-> templates]
Form(id, of, ref) == [model |-> "ir.ui.view", id |-> id, of |-> of, ref |-> ref]
Template(id, ref) == [id |-> id, ref |-> ref]

JsFile(stem, marks, nodes) == [skip |-> FALSE, stem |-> stem, marks |-> marks, nodes |-> nodes]
Node(call, target, name, hints) == [call |-> call, target |-> target, name |-> name, hints |-> hints]
Style(language, path, imports) ==
  [skip |-> FALSE, language |-> language, path |-> path, imports |-> imports]
Import(written, direct, partial) == [written |-> written, direct |-> direct, partial |-> partial]
Manifest(depends) == [form |-> "literal", installable |-> TRUE, depends |-> depends]

MCModules == {1, 2, 3}
MCRepoOf  == <<A, A, B>>
MCEdition == <<0, 0, 2>>
MCXmlId   == << "form" :> "base.form" @@ "page" :> "base.page" @@ "gone" :> "base.gone",
                "form" :> "mail.form" @@ "page" :> "mail.page",
                "form" :> "crm.form" @@ "page" :> "crm.page" >>

\* base: partner, reopened by a second class of the module; users delegate to it.
\* Its write() calls a function of the file, and one of another library, of the
\* names of core symbols. The tests, a helper class, records of other models, a
\* malformed file and a minified stylesheet say nothing.
Base == [
  manifest |-> Manifest({}),
  py  |-> << PyFile("lib" :> "other", {"cr", "Partner"},
               << Class("partner", <<>>, <<Char("name")>>,
                    << Method("write", "plain", FALSE, {}, {Call("bare", "cr"), Call("lib", "cr")}),
                       Method("setup", "dunder", FALSE, {}, {Call("self", "cr")}) >>),
                  Class(None, <<"partner">>, <<Char("city")>>, <<>>),
                  [Class("users", <<>>, <<Field("partner_id", "many2one", "partner")>>, <<>>)
                     EXCEPT !.inherits = {<<"partner", "partner_id">>}],
                  [Class("lead", <<>>, <<>>, <<>>) EXCEPT !.base = FALSE] >>),
             [PyFile(NoImports, {}, << Class("partner", <<>>, <<Char("message")>>, <<>>) >>)
                EXCEPT !.skip = TRUE] >>,
  xml |-> << XmlFile(<< Form("form", "partner", None),
                        [Form("gone", "partner", None) EXCEPT !.model = "ir.actions.act_window"] >>,
                     << Template("page", None) >>),
             [XmlFile(<< Form("gone", "partner", None) >>, <<>>) EXCEPT !.wellFormed = FALSE] >>,
  js  |-> <<>>,
  styles |-> << Style("scss", "base/_vars.scss", {}),
                Style("scss", "base/base.scss", {Import("vars", None, "base/_vars.scss")}),
                [Style("css", "base/lib.css", {}) EXCEPT !.skip = TRUE] >> ]

\* mail: a mixin, and the layer that gives it to partner; a component bound to
\* the model its first literal names; a file that is not Python.
Mail == [
  manifest |-> [Manifest({1}) EXCEPT !.form = "python2"],
  py  |-> << PyFile(NoImports, {}, << Class("thread", <<>>, <<Char("message")>>, <<>>) >>),
             PyFile("models" :> "odoo", {},
               << Class(None, <<"partner", "thread">>, <<>>,
                    << Method("write", "plain", TRUE, {}, {Call("super", "cr")}) >>) >>),
             [PyFile(NoImports, {}, << Class("lead", <<>>, <<>>, <<>>) >>) EXCEPT !.parses = FALSE] >>,
  xml |-> << XmlFile(<< Form("form", "partner", "base.form") >>, <<>>) >>,
  js  |-> << JsFile("chatter", {"@odoo-module"},
               << Node("class", None, "Chatter", <<None, "thread">>),
                  Node("extend", "Widget", "Old", <<>>) >>) >>,
  styles |-> << Style("less", "mail/mail.less", {}) >> ]

\* crm: a lead with the mixin and a partner; patches, one of them in the old
\* style; what extends base.
Crm == [
  manifest |-> Manifest({1, 2}),
  py  |-> << PyFile("api" :> "odoo", {},
               << Class("lead", <<"thread">>, <<Field("partner_id", "many2one", "partner")>>,
                    << Method("name_get", "plain", FALSE, {<<"partner_id", "message">>},
                              {Call("expression", "cr"), Call("api", "multi")}),
                       Method("write", "async", FALSE, {}, {}) >>) >>) >>,
  xml |-> << XmlFile(<< Form("form", "partner", "base.form") >>, << Template("page", "base.page") >>) >>,
  js  |-> << JsFile("crm", {"import {"}, << Node("patch", "Chatter", None, <<>>) >>),
             JsFile("form", {"odoo.define("}, << Node("include", "Chatter", None, <<>>) >>) >>,
  styles |-> <<>> ]
\* A later commit: the lead moves from the mixin to users, the patches go.
CrmLater == [Crm EXCEPT
  !.py = << PyFile(NoImports, {},
              << [Class("lead", <<>>, <<Field("user_id", "many2one", "users")>>, <<>>)
                    EXCEPT !.inherits = {<<"users", "user_id">>}] >>) >>,
  !.js = <<>>]

MCCheckout == << Base, Mail, Crm >>
MCContents == << {Base}, {Mail}, {Crm, CrmLater} >>
MCFieldTypes  == {"char", "many2one"}
MCColumnTypes == {"char", "many2one", "function"}
MCHotSymbols  == {"cr", "multi"}

\* A file of Odoo 9: _columns, also by update, and fields of unknown types.
MCLegacyFiles ==
  LET column(name, ttype, comodel) == [Field(name, ttype, comodel) EXCEPT !.at = "columns"]
      columns == { <<column("name", "char", None)>>,
                   <<column("partner_id", "many2one", "partner"), column("size", "function", None)>>,
                   <<column("name", "char", None), column("city", "unknown", None)>> }
      inherits == { [form |-> "none", names |-> <<>>], [form |-> "string", names |-> <<"partner">>],
                    [form |-> "list", names |-> <<"thread", "partner">>],
                    [form |-> "tuple", names |-> <<"thread">>] }
      methods == { <<>>, << Method("write", "plain", FALSE, {}, {}), Method("later", "async", FALSE, {}, {}) >> }
  IN  { PyFile(NoImports, {}, << [Class(name, <<>>, fields, defs) EXCEPT !.inherit = inherit] >>) :
          name \in {"lead", None}, inherit \in inherits, fields \in columns, defs \in methods }

MCNameOrder == << None, "Chatter", "base.form", "base.page", "city", "crm", "crm.form",
                  "crm.page", "form", "id", "lead", "mail.form", "message", "name", "name_get",
                  "partner", "partner_id", "thread", "user_id", "users", "write" >>
MCMagicFields == "id" :> [ttype |-> "integer", comodel |-> None]

\* Framework 9, whole files under openerp, and 17, split: cr becomes deprecated, by a
\* warning in its body, multi goes, a curated tool gives way to Env, which is new
\* and deprecated whatever the curated file of 17 says of it. Not all that is there is read.
Fun(name, marks) == [kind |-> "function", name |-> name, private |-> FALSE, deprecated |-> marks]
Private(name) == [Fun(name, {}) EXCEPT !.private = TRUE]
ClassDef(name, marks, methods) ==
  [kind |-> "class", name |-> name, deprecated |-> marks, methods |-> methods]
Source(defs) == [parses |-> TRUE, defs |-> defs]
Garbled(defs) == [parses |-> FALSE, defs |-> defs]
Multi == <<"api", "multi">>
Env   == <<"api", "Env">>
Cr    == <<"sql_db", "Cursor", "cr">>
Old   == <<"tools", "old">>
Lazy  == <<"sql_db", "lazy">>
MCSymbols   == {Multi, Env, Cr, Old, Lazy, <<"sql_db", "Cursor">>}
MCLength    == Multi :> 9 @@ Env :> 7 @@ Cr :> 16 @@ <<"sql_db", "Cursor">> :> 13 @@ Old :> 9 @@ Lazy :> 11
MCVersions  == {9, 17}
MCCoreFiles == << "api", "sql_db" >>
MCSplitInto == "api" :> << "decorators", "environments" >>
Cursor(marks) == ClassDef("Cursor", {"called name"}, << Fun("cr", marks), Private("_multi") >>)
Checker(parses, msgs) == [parses |-> parses, msgs |-> msgs]
Message(id, words) == [id |-> id, words |-> words]
Config(parses, ids) == [parses |-> parses, rules |-> ids]
Option(long, short, obsolete) ==
  [option |-> TRUE, long |-> long, short |-> short, obsolete |-> obsolete]
Cli(skip, classes) == [skip |-> skip, parses |-> TRUE, classes |-> classes]
Server == << Option(<<"--db">>, <<"-d">>, FALSE), Option(<<>>, <<"-c">>, TRUE),
             [Option(<<"--no">>, <<>>, FALSE) EXCEPT !.option = FALSE] >>
MCFramework ==
  9 :> [core     |-> <<"openerp", "api">> :> Source(<< Fun("multi", {}) >>)
                      @@ <<"openerp", "sql_db">> :> Source(<< Cursor({}) >>),
         checkers |-> << Checker(TRUE, << Message("E1", {"cr", "execute"}) >>) >>,
         eslint   |-> Config(TRUE, <<>>),
         ruff     |-> Config(TRUE, <<>>),
         cli      |-> << Cli(TRUE, {[name |-> "command", command |-> TRUE]}),
                         Cli(FALSE, {[name |-> "server", command |-> TRUE],
                                     [name |-> "helper", command |-> FALSE]}) >>,
         config   |-> [parses |-> TRUE, calls |-> Server]]
  @@
  17 :> [core     |-> <<"odoo/orm", "environments">> :> Source(<< ClassDef("Env", {"attribute"}, <<>>) >>)
                      @@ <<"odoo/orm", "decorators">> :> Garbled(<< Fun("multi", {}) >>)
                      @@ <<"odoo", "sql_db">> :> Source(<< Cursor({"warning"}), Fun("lazy", {"called name"}) >>)
                      @@ <<"openerp", "api">> :> Garbled(<<>>),
         checkers |-> << Checker(FALSE, << Message("E2", {"api", "multi"}) >>),
                         Checker(TRUE, << Message("E1", {"cr", "execute"}) >>) >>,
         eslint   |-> Config(TRUE, << "no-multi" >>),
         ruff     |-> Config(FALSE, << "BLE" >>),
         cli      |-> << Cli(FALSE, {[name |-> "server", command |-> TRUE]}) >>,
         config   |-> [parses |-> TRUE, calls |-> Server]]
Tool(s, status, repl) == [symbol |-> s, status |-> status, repl |-> repl]
CurFlag(command, name, status) == [command |-> command, name |-> name, status |-> status]
MCSpecData ==
  9 :> [tools |-> [valid |-> TRUE, entries |-> << Tool(Multi, "deprecated", NoSymbol),
                                                   Tool(Old, "stable", Env), Tool(Lazy, "stable", NoSymbol) >>],
         lint  |-> [valid |-> FALSE, entries |-> << Rule("E9", "pylint-odoo", {"api", "multi"}, Multi) >>],
         cli   |-> [valid |-> TRUE, commands |-> {"shell"},
                    flags |-> << CurFlag(NoSymbol, "--db", "removed"), CurFlag("shell", "--db", "stable") >>]]
  @@
  17 :> [tools |-> [valid |-> TRUE, entries |-> << Tool(Env, "stable", NoSymbol), Tool(NoSymbol, "stable", Cr) >>],
         lint  |-> [valid |-> TRUE,
                    entries |-> << Rule("E1", "pylint-odoo", {"api", "multi"}, Env),
                                   Rule("no-multi", "pylint-odoo", {"api", "multi"}, NoSymbol),
                                   Rule("E3", "pylint-odoo", {"cr", "execute"}, Cr) >>],
         cli   |-> [valid |-> FALSE, commands |-> {"shell"}, flags |-> <<>>]]
Line(words, noqa) == [words |-> words, noqa |-> noqa]
Python(lines) == [language |-> "python", lines |-> lines]
MCSnippets   == { Python(<< Line({"cr", "execute"}, {"E3"}), Line({"cr", "execute"}, {}) >>),
                  Python(<< Line({"api"}, {}), Line({"multi"}, {"E9"}) >>),
                  Python(<< Line({"cr", "execute"}, {"E3"}) >>),
                  [language |-> "javascript", lines |-> << Line({"api", "multi"}, {}) >>] }
MCRelational == {"many2one"}

\* The job the web administration starts, and a full reindex with --gc.
MCModes == {<<FALSE, FALSE>>, <<TRUE, TRUE>>}

\* These sources are of the kind that the theorems are about.
ASSUME MCSourcesAreFit == SourcesAreFit
=============================================================================
