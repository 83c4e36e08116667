------------------------------- MODULE Bundles ------------------------------
(***************************************************************************)
(* Where rollup.config.mjs puts what it builds.  A file is a sequence of   *)
(* directories, a name and the part after its last dot.                    *)
(***************************************************************************)
EXTENDS Naturals, Sequences, SequencesExt

Modules == "node_modules"

(* Strings that begin with another one: startsWith() knows no directories. *)
Begins(s, t) == s = t \/ <<t, s>> \in {<<"base", "base-ext">>}

ChangeExt(file, ext) == [file EXCEPT !.ext = ext]

(* Is the path of the directory the beginning of the path of the file?     *)
StartsWith(id, outDir) ==
  LET path == Append(id.dir, id.name)
      n == Len(outDir)
  IN  /\ n <= Len(path) /\ n > 0
      /\ SubSeq(path, 1, n - 1) = SubSeq(outDir, 1, n - 1)
      /\ Begins(path[n], outDir[n])

Common(d, e) == Max({n \in 0 .. Len(d) : IsPrefix(SubSeq(d, 1, n), e)})
Up(n) == [i \in 1 .. n |-> ".."]

(* path.relative(), and what the operating system makes of it. *)
Relative(outDir, dir) ==
  LET n == Common(outDir, dir)
  IN  Up(Len(outDir) - n) \o SubSeq(dir, n + 1, Len(dir))
Resolved(outDir, dir) ==
  LET n == Cardinality({i \in DOMAIN dir : dir[i] = ".."})
  IN  SubSeq(outDir, 1, Len(outDir) - n) \o SubSeq(dir, n + 1, Len(dir))

OfPackage(id) == Modules \in Range(id.dir) /\ id.ext \in {"js", "mjs"}

(* A variant that looks for the last "node_modules". *)
InPackageLast(id) ==
  [id EXCEPT !.dir = SubSeq(@, Max({i \in DOMAIN @ : @[i] = Modules}) + 1, Len(@))]

(* What the regular expression matches first. *)
InPackage(id) ==
  [id EXCEPT !.dir = SubSeq(@, Min({i \in DOMAIN @ : @[i] = Modules}) + 1, Len(@))]

CheckOutputPath(outDir) == Modules \notin Range(outDir)

(* The assertions of entryFileNames(). *)
Builds(id, outDir) ==
  /\ CheckOutputPath(outDir)
  /\ \/ OfPackage(id)
     \/ id.ext = "ts" /\ StartsWith(id, outDir)

EntryFileName(id, outDir) ==
  IF OfPackage(id) THEN InPackage(id)
  ELSE ChangeExt([id EXCEPT !.dir = Relative(outDir, @)], "js")

Output(id, outDir) ==
  LET file == EntryFileName(id, outDir)
  IN  [file EXCEPT !.dir = Resolved(outDir, @)]

(* dirname(inFilePath) of libs and apps. *)
OutDir(input) == input.dir

(* The directory of the "tsconfig.json" that is used, which is also the    *)
(* filterRoot: configs are the directories that have one, root is that of  *)
(* rollup.config.mjs, and "real" is where symbolic links lead to.          *)
TsPluginOptions(input, configs, root, real) ==
  LET own == input.dir \in configs
  IN  [throws |-> ~own /\ root \notin configs,
       filterRoot |-> real[IF own THEN input.dir ELSE root]]

-----------------------------------------------------------------------------

Outer(id) == SubSeq(id.dir, 1, Min({i \in DOMAIN id.dir : id.dir[i] = Modules}))

(* A module of the site is built next to its source, one of a package in   *)
(* the directory of the output, and two of one "node_modules" never in the *)
(* same file, packages inside of packages among them.                      *)
OutputsAreApart(input, ids) ==
  LET outDir == OutDir(input)
      built == {id \in ids : Builds(id, outDir)}
  IN  /\ \A id \in built : IF OfPackage(id)
                           THEN IsPrefix(outDir, Output(id, outDir).dir)
                           ELSE Output(id, outDir) = ChangeExt(id, "js")
      /\ \A a, b \in {id \in built : OfPackage(id)} :
           Outer(a) = Outer(b) /\ Output(a, outDir) = Output(b, outDir) => a = b

(* Without symbolic links what is to be compiled lies under the filterRoot *)
(* of the plugin, and it takes the nearer of the two configurations.       *)
InputIsCompiled(input, configs, root) ==
  LET real == [d \in {input.dir, root} |-> d]
      options == TsPluginOptions(input, configs, root, real)
  IN  /\ options.throws <=> configs \cap {input.dir, root} = {}
      /\ IsPrefix(root, input.dir) => IsPrefix(options.filterRoot, input.dir)
=============================================================================
