---------------------------- MODULE ModuleSearch ----------------------------
(* What source code a module needs.  mitogen.master.ModuleFinder: the finder     *)
(* methods tried in turn, find_related_imports() on the statements of a module,  *)
(* find_related() on all it reaches.  ansible_mitogen.module_finder.scan() does  *)
(* the same for module_utils, from a search path, and ModuleDepService keeps the *)
(* answers.  Each is compared with what Python's import would do.                *)
(*                                                                               *)
(* The name of a module is the sequence of its components.  Bytecode, source     *)
(* text and file handles are left out: an import statement is a record.          *)
EXTENDS Integers, Sequences, FiniteSets, SequencesExt

CONSTANTS Names,        \* module names
          Disk,         \* what is found under sys.path: name -> "py", "pkg" or "so"
          StdLib,       \* names that come from the standard library
          Programs,     \* statements of the modules: name -> sequence of [level, mod, names]
          Residents,    \* contents of sys.modules: name -> "good", "junk", "alien" or "absent"
          SearchPath,   \* directories of module_utils, in order
          Files,        \* what they hold: path -> "py" or "pkg"
          UtilImports,  \* for each path and each Ansible module, the names it imports
          ScanRequests  \* requests to ModuleDepService: [name, path]

Prefix(m, k) == SubSeq(m, 1, k)
ASSUME SearchAssumption ==
  /\ DOMAIN Disk \subseteq Names /\ StdLib \subseteq Names
  /\ \A m \in DOMAIN Disk : \A k \in 1..(Len(m) - 1) : Prefix(m, k) \in DOMAIN Disk /\ Disk[Prefix(m, k)] = "pkg"

VARIABLES imports,     \* the statements of each module
          sysModules,  \* sys.modules of the master
          deps,        \* ModuleDepService._cache
          scans        \* answers given: requests and what they were told

searchVars == <<imports, sysModules, deps, scans>>

Good == [m \in Names |-> IF m \in DOMAIN Disk THEN "good" ELSE "absent"]
Parents(m) == {Prefix(m, k) : k \in 1..(Len(m) - 1)}

SearchInit ==
  /\ \/ imports \in Programs /\ sysModules = Good
     \/ imports = [m \in DOMAIN Disk |-> <<>>] /\ sysModules \in Residents
  /\ deps = <<>> /\ scans = {}

-----------------------------------------------------------------------------
(* The finder methods.  A module in sys.modules is itself ("good"), an object   *)
(* without __file__ or __path__ ("junk"), or another package ("alien").         *)
HasPath(m) == m \in Names /\ (sysModules[m] = "alien" \/ (sysModules[m] = "good" /\ Disk[m] = "pkg"))
Source(m) == m \in DOMAIN Disk /\ Disk[m] # "so"

\* DefectivePython3xMainMethod: __main__ by its __file__.
DefectiveMain(m) == m = <<"__main__">> /\ sysModules[m] = "good" /\ Source(m)

\* PkgutilMethod: find_loader() imports the parents that are not loaded, and asks
\* the nearest one that is.
Pkgutil(m) ==
  /\ m # <<"__main__">> /\ Source(m)
  /\ \E k \in 0..(Len(m) - 1) :
       /\ k = 0 \/ (sysModules[Prefix(m, k)] = "good" /\ HasPath(Prefix(m, k)))
       /\ \A j \in (k + 1)..(Len(m) - 1) : sysModules[Prefix(m, j)] = "absent"

\* SysModulesMethod: the object in sys.modules, when its name is the right one.
SysModules(m) == sysModules[m] = "good" /\ Source(m)

\* mutation: the immediate parent is taken as it is.
AnyParent(m) == Len(m) - 1

\* ParentEnumerationMethod._find_sane_parent(): how many components the nearest
\* loaded package with a __path__ has, 0 when the search starts from sys.path.
SaneParent(m) == LET sane == {k \in 1..(Len(m) - 1) : HasPath(Prefix(m, k))}
                 IN IF sane = {} THEN 0 ELSE CHOOSE k \in sane : \A j \in sane : j <= k

\* find(): one component after another from there.
ParentEnumeration(m) ==
  LET k == SaneParent(m)
  IN Source(m) /\ (k = 0 \/ sysModules[Prefix(m, k)] = "good")

\* get_module_source(): the first method that answers; what it returns of m is the same.
GetModuleSource(m) ==
  IF DefectiveMain(m) \/ Pkgutil(m) \/ SysModules(m) \/ ParentEnumeration(m) THEN Disk[m] ELSE "none"

-----------------------------------------------------------------------------
(* Related modules *)
\* is_stdlib_name(); site-packages do not count.
IsStdlib(m) == m \in StdLib

\* mutation: a package is treated like a module.
RelpathOfModule(m, level) == IF level = 0 \/ Len(m) <= level THEN <<>> ELSE Prefix(m, Len(m) - level)

\* resolve_relpath(): <<>> stands for the empty prefix, of an absolute name and of
\* a level beyond the top.
ResolveRelpath(m, level) ==
  LET bits == IF HasPath(m) THEN Append(m, "__init__") ELSE m
  IN IF level = 0 \/ Len(bits) <= level THEN <<>> ELSE Prefix(bits, Len(bits) - level)

\* The names a statement [level, mod, names] may mean.  Without a module name
\* ("from . import x") the dots come out doubled and name nothing.
MaybeNames(m, i) ==
  LET mods == IF i.mod = <<>> THEN {}
              ELSE IF i.level = -1 THEN {i.mod, m \o i.mod}
              ELSE {ResolveRelpath(m, i.level) \o i.mod}
  IN mods \cup {mod \o <<name>> : mod \in mods, name \in i.names}

\* find_related_imports()
FindRelatedImports(m) ==
  IF m \notin DOMAIN imports \/ GetModuleSource(m) = "none" THEN {}
  ELSE {n \in (Parents(m) \cup UNION {MaybeNames(m, imports[m][i]) : i \in DOMAIN imports[m]}) \cap Names :
          sysModules[n] # "absent" /\ ~IsStdlib(n)}

\* The loop over stack and found.
RECURSIVE RelatedLoop(_, _)
RelatedLoop(stack, found) ==
  IF stack = <<>> THEN found
  ELSE LET names == FindRelatedImports(Head(stack))
           fresh == names \ (found \cup ToSet(Tail(stack)))
       IN RelatedLoop(Tail(stack) \o SetToSeq(fresh), found \cup names)
\* mutation: a module counts among those it needs.
FindRelatedSelf(m) == RelatedLoop(<<m>>, {})

\* find_related()
FindRelated(m) == RelatedLoop(<<m>>, {}) \ {m}

-----------------------------------------------------------------------------
(* ansible_mitogen.module_finder: a Module is the names and the paths of itself *)
(* and its parents, outermost first.                                            *)
NoModule == [names |-> <<>>, paths |-> <<>>]
FullName(module) == FlattenSeq(module.names)

\* find() and find_relative(): the directory of a package is searched first, then
\* again what was searched before.
RECURSIVE FindUtil(_, _, _)
FindUtil(name, path, parent) ==
  LET hits == SelectSeq(path, LAMBDA d : Append(d, Head(name)) \in DOMAIN Files)
      node == Append(hits[1], Head(name))
      module == [names |-> Append(parent.names, <<Head(name)>>), paths |-> Append(parent.paths, node)]
  IN IF hits = <<>> THEN parent
     ELSE IF Tail(name) # <<>> /\ Files[node] = "pkg" THEN FindUtil(Tail(name), <<node>> \o path, module)
     ELSE module

\* mutation: the packages a module is in are not scanned.
NotPromoted(module) == <<>>

\* The parents of a module, nearest first, each under its full name.
Promoted(module) ==
  LET n == Len(module.names) - 1
  IN [i \in 1..n |-> [names |-> <<FlattenSeq(Prefix(module.names, n + 1 - i))>>, paths |-> <<module.paths[n + 1 - i]>>]]

\* scan(): the loop over stack and seen, from the names the Ansible module imports.
ScanNames(s, names) ==
  LET add(t, module) == IF module = NoModule \/ module \in t.seen THEN t
                        ELSE [seen |-> t.seen \cup {module}, stack |-> Append(t.stack, module)]
      one(t, name) == LET imported == FindUtil(name, SearchPath, NoModule)
                      IN IF imported = NoModule \/ imported \in t.seen THEN t
                         ELSE FoldLeft(add, add(t, imported), Promoted(imported))
  IN FoldLeft(one, s, names)
RECURSIVE ScanLoop(_)
ScanLoop(s) ==
  IF s.stack = <<>> THEN s.seen
  ELSE LET module == Head(s.stack)
       IN ScanLoop(ScanNames([s EXCEPT !.stack = Tail(@)], UtilImports[Last(module.paths)]))
Scan(path) == {<<FullName(m), Last(m.paths)>> : m \in ScanLoop(ScanNames([stack |-> <<>>, seen |-> {}], UtilImports[path]))}

\* ModuleDepService.scan(): answers are kept by the name of the module.
ScanService(r) ==
  /\ r \notin {s.request : s \in scans}
  /\ deps' = IF r.name \in DOMAIN deps THEN deps
             ELSE [n \in DOMAIN deps \cup {r.name} |-> IF n = r.name THEN Scan(r.path) ELSE deps[n]]
  /\ scans' = scans \cup {[request |-> r, told |-> deps'[r.name]]}
  /\ UNCHANGED <<imports, sysModules>>

SearchNext == \E r \in ScanRequests : ScanService(r)

-----------------------------------------------------------------------------
(* What Python does *)
Reached(R(_), m) ==
  LET RECURSIVE Grow(_)
      Grow(S) == LET T == S \cup UNION {R(n) : n \in S} IN IF T = S THEN S ELSE Grow(T)
  IN Grow(R(m))

Package(m) == IF Disk[m] = "pkg" THEN m ELSE Front(m)
Beneath(m) == {Prefix(m, k) : k \in 1..Len(m)}

\* An import executes every package on the way and, of the names, those that are modules.
Executed(m) ==
  UNION {LET i == imports[m][j]
             base == Prefix(Package(m), Len(Package(m)) - (IF i.level > 0 THEN i.level - 1 ELSE 0))
             mod == IF i.level > 0 \/ (i.level = -1 /\ Package(m) \o i.mod \in DOMAIN Disk)
                    THEN base \o i.mod ELSE i.mod
         IN (Beneath(mod) \cup {Append(mod, n) : n \in i.names}) \cap DOMAIN Disk : j \in DOMAIN imports[m]}
Needs(m) == IF Disk[m] = "so" THEN {} ELSE (Parents(m) \cup Executed(m)) \ StdLib

UtilTop(name) == SelectSeq(SearchPath, LAMBDA d : Append(d, name[1]) \in DOMAIN Files)
UtilNodes(path) ==
  UNION {LET name == UtilImports[path][i]
             node(k) == UtilTop(name)[1] \o Prefix(name, k)
         IN IF UtilTop(name) = <<>> THEN {}
            ELSE {<<Prefix(name, k), node(k)>> : k \in {k \in 1..Len(name) : node(k) \in DOMAIN Files}}
         : i \in DOMAIN UtilImports[path]}
UtilNeeds(path) == LET step(n) == UtilNodes(n[2]) IN Reached(step, <<<<>>, path>>)

\* A statement whose meaning find_related_imports() resolves: not "from . import",
\* and implicitly relative only in a package.
Resolved(i, m) == i.mod # <<>> /\ (i.level = -1 => Disk[m] = "pkg")

SearchTypeOK ==
  /\ \A m \in DOMAIN Disk : FindRelated(m) \subseteq DOMAIN Disk \ {m}
  /\ \A s \in scans : \A d \in s.told : d[2] \in DOMAIN Files

\* The modules sent along with a module are those that importing it executes, and
\* what those need in turn, whatever mixture of absolute and relative imports
\* leads to them (ModuleFinder.find_related()).
RelatedComplete ==
  sysModules = Good /\ (\A m \in DOMAIN Disk : \A j \in DOMAIN imports[m] : Resolved(imports[m][j], m))
    => \A m \in DOMAIN Disk : FindRelated(m) = Reached(Needs, m) \ {m}

\* Source code under sys.path is found however sys.modules was tampered with,
\* unless a parent was replaced by another package (the finder methods).
SourceFound ==
  \A m \in DOMAIN Disk : Source(m) /\ m # <<"__main__">>
    /\ (sysModules[m] = "good" \/ \A k \in 1..(Len(m) - 1) : sysModules[Prefix(m, k)] # "alien")
      => GetModuleSource(m) = Disk[m]

\* An Ansible module is told of every file of module_utils its imports execute,
\* packages on the way included, unless another module of that name was scanned
\* before it (ModuleDepService.scan()).
DepsComplete ==
  \A s \in scans :
    \/ UtilNeeds(s.request.path) \subseteq s.told
    \/ \E t \in scans : t.request.name = s.request.name /\ t.request.path # s.request.path /\ t.told = s.told

\* What the search for modules promises before anything is run: the sources are found, and
\* everything that importing them executes is found with them.
SearchSafe == SearchTypeOK /\ RelatedComplete /\ SourceFound /\ DepsComplete
=============================================================================
