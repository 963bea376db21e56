------------------------------ MODULE Parsers ------------------------------
(* What the parsers make of the sources of a module, and, at the end, what    *)
(* those sources say: the two are compared through the answers of the tools.  *)
(*                                                                            *)
(* A source is a record of                                                    *)
(*   manifest : [form, installable, depends]; the form is "literal", "python2"*)
(*              or "none" when no dictionary can be read                      *)
(*   py       : sequence of files [skip, parses, imports : name -> "odoo" or  *)
(*              "other", defs : names of top level definitions, classes]      *)
(*   xml      : sequence of files [skip, wellFormed, records, templates]      *)
(*   js       : sequence of files [skip, stem, marks, nodes]                  *)
(*   styles   : sequence of files [skip, language, path, imports]             *)
(* where skip tells that the file is in a directory that is left out, or is   *)
(* too large. A class is a record of                                          *)
(*   base     : whether a base class is one of MODEL_BASE_CLASSES             *)
(*   name     : the literal of _name, or None                                 *)
(*   inherit  : [form : "none", "string", "list" or "tuple", names]           *)
(*   inherits : set of <<model, field>>                                       *)
(*   fields   : sequence of [name, at : "attribute", "columns" or "update",   *)
(*              ttype, comodel]                                               *)
(*   methods  : sequence of [name, kind : "plain", "static", "async" or       *)
(*              "dunder", super, depends, calls : set of [on, target]]        *)
EXTENDS Integers, FiniteSets, Sequences, FiniteSetsExt, SequencesExt

CONSTANTS
  None,
  CodeVersion,   \* the Odoo version of all repositories
  FieldTypes,    \* FIELD_TYPES, in lower case
  ColumnTypes,   \* FIELD_TYPES_LEGACY
  Relational,    \* RELATIONAL_FIELD_TYPES, also RELATIONAL_TTYPES
  HotSymbols,    \* _DEPRECATED_API_SYMBOLS
  XmlId,         \* [modules -> [ids -> external ids]]
  LegacyFiles    \* Python files of the old API, for the comparison of the eras

LegacyEraMaxMajor == 9
Kept(files) == SelectSeq(files, LAMBDA f : ~f.skip)
Joined(seqs) == FoldLeft(LAMBDA whole, s : whole \o s, <<>>, seqs)

-----------------------------------------------------------------------------
(* parser_python: calls of deprecated symbols.                                *)

IsOdooQualified(f, name) == name \in DOMAIN f.imports /\ f.imports[name] = "odoo"

\* A call on an object is dropped when the object is imported from elsewhere, a
\* bare one when the file defines the name and does not import it from odoo.
ShouldKeepRef(f, call) ==
  CASE call.on = "bare" -> IsOdooQualified(f, call.target) \/ call.target \notin f.defs
    [] call.on \in {"self", "super", "expression"} -> TRUE
    [] OTHER -> call.on \in DOMAIN f.imports => IsOdooQualified(f, call.on)

ExtractCoreSymbolRefs(f, method) ==
  {call.target : call \in {call \in method.calls : /\ call.target \in HotSymbols
                                                   /\ ShouldKeepRef(f, call)}}

-----------------------------------------------------------------------------
(* parser_python: classes.                                                    *)

DetectEra == IF CodeVersion \in 8..LegacyEraMaxMajor THEN "era1" ELSE "era2"

ExtractInherit(written) ==
  IF written.form \in {"string", "list"} THEN written.names ELSE <<>>

\* Without a literal _name the first inherited name is the model's.
NameOf(c) ==
  LET inherit == ExtractInherit(c.inherit)
  IN  IF c.name # None \/ inherit = <<>> THEN c.name ELSE Head(inherit)

Comodel(x) == IF x.ttype \in Relational THEN x.comodel ELSE None

\* Attributes, and the entries of _columns, of which the comodel is not read;
\* the last one of a name is the one the writer keeps.
AstFields(c) ==
  LET known(x) == \/ x.at = "attribute" /\ x.ttype \in FieldTypes
                  \/ x.at = "columns" /\ x.ttype \in ColumnTypes
      info(x)  == [ttype |-> x.ttype,
                   comodel |-> IF x.at = "attribute" THEN Comodel(x) ELSE None]
  IN  FoldLeft(LAMBDA fs, x : (x.name :> info(x)) @@ fs, [n \in {} |-> n],
               SelectSeq(c.fields, known))

AstMethods(f, c) ==
  FoldLeft(LAMBDA ms, x : (x.name :> [super   |-> x.super,
                                      depends |-> x.depends,
                                      refs    |-> ExtractCoreSymbolRefs(f, x)]) @@ ms,
           [n \in {} |-> n],
           SelectSeq(c.methods, LAMBDA x : x.kind \in {"plain", "static"}))

\* No model without a name, nor without a trace of one in the class.
ParseClass(f, c) ==
  LET inherit == ExtractInherit(c.inherit)
      traced  == \/ c.base \/ inherit # <<>> \/ c.inherits # {}
                 \/ \E i \in DOMAIN c.fields : c.fields[i].at = "columns"
  IN  IF NameOf(c) = None \/ ~traced THEN <<>>
      ELSE << [name |-> NameOf(c), explicit |-> c.name # None,
               inherit |-> ToSet(inherit), delegates |-> c.inherits,
               fields |-> AstFields(c), methods |-> AstMethods(f, c)] >>

ParseEra2Ast(f) == Joined([i \in DOMAIN f.classes |-> ParseClass(f, f.classes[i])])

\* The text fallback: entries of _columns, then those added by update, the first
\* one of a name; methods that take self, without what they call.
TextFields(c) ==
  LET at(where) == SelectSeq(c.fields, LAMBDA x : x.at = where /\ x.ttype \in ColumnTypes)
  IN  FoldLeft(LAMBDA fs, x : fs @@ (x.name :> [ttype |-> x.ttype, comodel |-> Comodel(x)]),
               [n \in {} |-> n], at("columns") \o at("update"))
TextMethods(c) ==
  [n \in {x.name : x \in {x \in ToSet(c.methods) : x.kind \in {"plain", "dunder"}}} |->
     [super |-> FALSE, depends |-> {}, refs |-> {}]]
TextClass(c) ==
  IF NameOf(c) = None THEN <<>>
  ELSE << [name |-> NameOf(c), explicit |-> c.name # None,
           inherit |-> ToSet(ExtractInherit(c.inherit)), delegates |-> {},
           fields |-> TextFields(c), methods |-> TextMethods(c)] >>
ParseEra1Text(f) == Joined([i \in DOMAIN f.classes |-> TextClass(f.classes[i])])

ParsePyFile(f) ==
  CASE f.parses -> ParseEra2Ast(f)
    [] ~f.parses /\ DetectEra = "era1" -> ParseEra1Text(f)
    [] ~f.parses /\ DetectEra = "era2" -> <<>>

ParsePython(s) == LET files == Kept(s.py)
                  IN  Joined([i \in DOMAIN files |-> ParsePyFile(files[i])])

-----------------------------------------------------------------------------
(* parser_xml and parser_qweb: a reference is kept as it is written.          *)

ParseRecord(m, r) ==
  IF r.model # "ir.ui.view" \/ None \in {r.id, r.of} THEN <<>>
  ELSE << [kind |-> "view", xmlid |-> XmlId[m][r.id], model |-> r.of, base |-> r.ref] >>

ParseTemplate(m, t) ==
  IF t.id = None THEN <<>>
  ELSE << [kind |-> "template", xmlid |-> XmlId[m][t.id], model |-> None, base |-> t.ref] >>

WellFormed(s) == SelectSeq(Kept(s.xml), LAMBDA f : f.wellFormed)
ParseXml(m, s) ==
  LET views(f) == Joined([i \in DOMAIN f.records |-> ParseRecord(m, f.records[i])])
      files    == WellFormed(s)
  IN  Joined([i \in DOMAIN files |-> views(files[i])])
ParseQweb(m, s) ==
  LET templates(f) == Joined([i \in DOMAIN f.templates |-> ParseTemplate(m, f.templates[i])])
      files == WellFormed(s)
  IN  Joined([i \in DOMAIN files |-> templates(files[i])])

-----------------------------------------------------------------------------
(* parser_js: nodes of the syntax tree, [call : "extend", "include", "patch"  *)
(* or "class", target, name, hints : the models the body names or None].      *)

DetectJsEra(f) ==
  CASE f.marks \cap {"@odoo-module", "import {"} # {} -> "era3"
    [] f.marks = {"odoo.define("} -> "era2"
    [] f.marks = {} -> "era1"

OwlEnabled == CodeVersion >= 14
Or(x, default) == IF x = None THEN default ELSE x

Calls(f, name) == SelectSeq(f.nodes, LAMBDA n : n.call = name)
OnIdentifier(nodes) == SelectSeq(nodes, LAMBDA n : n.target # None)

\* A patch is named by what it is assigned to or by its second argument, or else
\* by the file; an include always by the file. Only patch() has a target when
\* its object is not an identifier.
ExtractEra1Patches(f) ==
  LET hits == OnIdentifier(Calls(f, "extend"))
  IN  [i \in DOMAIN hits |-> [target |-> hits[i].target, name |-> Or(hits[i].name, f.stem)]]
ExtractEra2Patches(f) ==
  LET hits == OnIdentifier(Calls(f, "include"))
  IN  [i \in DOMAIN hits |-> [target |-> hits[i].target, name |-> f.stem]]
ExtractEra3Patches(f) ==
  LET hits == IF OwlEnabled THEN Calls(f, "patch") ELSE <<>>
  IN  [i \in DOMAIN hits |-> [target |-> Or(hits[i].target, f.stem),
                              name   |-> Or(hits[i].name, f.stem)]]

DetectBoundModel(n) ==
  LET literals == SelectSeq(n.hints, LAMBDA h : h # None)
  IN  IF literals = <<>> THEN None ELSE Head(literals)

ExtractEra3Components(f) ==
  LET classes == SelectSeq(Calls(f, "class"), LAMBDA n : n.name # None)
  IN  IF ~OwlEnabled THEN <<>>
      ELSE [i \in DOMAIN classes |-> [name |-> classes[i].name, extends |-> classes[i].target,
                                      bound |-> DetectBoundModel(classes[i])]]

ExtractGraphFromFile(f) ==
  CASE DetectJsEra(f) = "era1" -> [comps |-> <<>>, patches |-> ExtractEra1Patches(f)]
    [] DetectJsEra(f) = "era2" -> [comps |-> <<>>, patches |-> ExtractEra2Patches(f)]
    [] DetectJsEra(f) = "era3" -> [comps   |-> ExtractEra3Components(f),
                                   patches |-> ExtractEra3Patches(f)]
ParseModuleGraph(s) ==
  LET files == Kept(s.js)
  IN  [comps   |-> Joined([i \in DOMAIN files |-> ExtractGraphFromFile(files[i]).comps]),
       patches |-> Joined([i \in DOMAIN files |-> ExtractGraphFromFile(files[i]).patches])]

-----------------------------------------------------------------------------
(* parser_css, parser_scss and parser_less: an import is [written, direct,    *)
(* partial], the paths of the files it may mean, or None when there is none.  *)

ResolveScssImport(i) == IF i.direct # None THEN i.direct ELSE i.partial
ResolveLessImport(i) == i.direct

Styles(s, language) == SelectSeq(Kept(s.styles), LAMBDA f : f.language = language)
ParseCss(s) ==
  LET files == Styles(s, "css")
  IN  [i \in DOMAIN files |-> [path    |-> files[i].path,
                               imports |-> {x.written : x \in files[i].imports}]]
ParseScss(s) ==
  LET files == Styles(s, "scss")
  IN  [i \in DOMAIN files |->
         [path    |-> files[i].path,
          imports |-> {Or(ResolveScssImport(x), x.written) : x \in files[i].imports}]]
ParseLess(s) ==
  LET files == Styles(s, "less")
  IN  [i \in DOMAIN files |->
         [path    |-> files[i].path,
          imports |-> {Or(ResolveLessImport(x), x.written) : x \in files[i].imports}]]

-----------------------------------------------------------------------------
(* registry and pipeline: a module without a manifest that can be read, or    *)
(* one that is not installable, is none.                                      *)

ParseManifest(s) ==
  IF s.manifest.form = "none" THEN [installable |-> FALSE, depends |-> {}]
  ELSE [installable |-> s.manifest.installable, depends |-> s.manifest.depends]

\* models as ParseClass gives them, views : sequence of [kind, xmlid, model, base]
\* of views and templates, comps : of [name, extends, bound], patches : of
\* [target, name], sheets : of [path, imports].
ParseModule(m, s) ==
  [installable |-> ParseManifest(s).installable,
   depends |-> ParseManifest(s).depends,
   models  |-> ParsePython(s),
   views   |-> ParseXml(m, s) \o ParseQweb(m, s),
   comps   |-> ParseModuleGraph(s).comps,
   patches |-> ParseModuleGraph(s).patches,
   sheets  |-> ParseCss(s) \o ParseScss(s) \o ParseLess(s)]

-----------------------------------------------------------------------------
(* What the sources say, file by file, without regard to how it is found: the *)
(* reference the answers of the tools are measured by.                        *)

ReadFiles(files) == {f \in ToSet(files) : ~f.skip}

\* A bare name is the file's own when it defines it, an object's when it comes
\* from elsewhere.
NotOdoos(f, call) ==
  \/ call.on = "bare" /\ call.target \in f.defs
  \/ call.on \in DOMAIN f.imports /\ f.imports[call.on] = "other"

SaidOfClass(f, c) ==
  LET fields  == {x \in ToSet(c.fields) : x.ttype \in FieldTypes \cup ColumnTypes}
      methods == {x \in ToSet(c.methods) : x.kind \in {"plain", "static"}}
      the(S, n) == CHOOSE x \in S : x.name = n
  IN  [name      |-> IF c.name = None THEN c.inherit.names[1] ELSE c.name,
       explicit  |-> c.name # None,
       inherit   |-> ToSet(c.inherit.names),
       delegates |-> c.inherits,
       fields    |-> [n \in {x.name : x \in fields} |->
                        [ttype |-> the(fields, n).ttype, comodel |-> the(fields, n).comodel]],
       methods   |-> [n \in {x.name : x \in methods} |->
                        [super   |-> the(methods, n).super,
                         depends |-> the(methods, n).depends,
                         refs    |-> {call.target : call \in
                           {call \in the(methods, n).calls :
                              call.target \in HotSymbols /\ ~NotOdoos(f, call)}}]]]

IsModel(c) == \/ c.inherit.names # <<>>
              \/ c.name # None /\ (c.base \/ c.inherits # {})

Said(m, s) ==
  [depends |-> s.manifest.depends,
   classes |-> UNION {{SaidOfClass(f, c) : c \in {c \in ToSet(f.classes) : IsModel(c)}} :
                      f \in {f \in ReadFiles(s.py) : f.parses}},
   views   |-> UNION {{[kind |-> "view", xmlid |-> XmlId[m][r.id], model |-> r.of, base |-> r.ref] :
                         r \in {r \in ToSet(f.records) : r.model = "ir.ui.view"}}
                      \cup {[kind |-> "template", xmlid |-> XmlId[m][t.id], model |-> None,
                             base |-> t.ref] : t \in ToSet(f.templates)} :
                      f \in {f \in ReadFiles(s.xml) : f.wellFormed}},
   comps   |-> UNION {{[name |-> n.name, bound |-> IF n.hints = <<>> THEN None ELSE Last(n.hints)] :
                         n \in {n \in ToSet(f.nodes) : n.call = "class"}} : f \in ReadFiles(s.js)},
   patches |-> UNION {{[target |-> n.target, name |-> Or(n.name, f.stem)] :
                         n \in {n \in ToSet(f.nodes) : n.call \in {"patch", "include"}}} :
                      f \in ReadFiles(s.js)},
   sheets  |-> {[path |-> f.path, imports |-> {i.direct : i \in f.imports} \cup
                                              {i.partial : i \in f.imports}] :
                f \in ReadFiles(s.styles)}]

\* Both readers of the old API find the same models, fields and plain methods in
\* a file that either can read (_parse_era2_ast and _parse_era1_text).
ASSUME ErasAgree ==
  \A f \in LegacyFiles :
    LET ast == ParseEra2Ast(f)  text == ParseEra1Text(f) IN
    /\ Len(ast) = Len(text)
    /\ \A i \in DOMAIN ast :
         /\ <<ast[i].name, ast[i].explicit, ast[i].inherit>>
              = <<text[i].name, text[i].explicit, text[i].inherit>>
         /\ DOMAIN ast[i].fields = DOMAIN text[i].fields
         /\ \A n \in DOMAIN ast[i].fields : ast[i].fields[n].ttype = text[i].fields[n].ttype
         /\ DOMAIN ast[i].methods = DOMAIN text[i].methods
=============================================================================
