------------------------------ MODULE LawProofs -----------------------------
(***************************************************************************)
(* The laws of the pure functions, for inputs of every length.             *)
(***************************************************************************)
EXTENDS Laws, SequenceTheorems, WellFoundedInduction, FiniteSetTheorems, TLAPS

-----------------------------------------------------------------------------
(* Numbers and sequences *)

(* Each set of numbers has a smallest one, and a bounded one a largest.    *)
LEMMA HasLeast ==
  ASSUME NEW T \in SUBSET Nat, T # {}
  PROVE  \E x \in T : \A y \in T : x <= y
<1> DEFINE R == {p \in Nat \X Nat : p[1] < p[2]}
<1>1. IsWellFoundedOn(R, Nat)
  <2>1. R = OpToRel(<, Nat)
    BY DEF OpToRel
  <2> QED BY <2>1, NatLessThanWellFounded
<1>2. PICK x \in T : \A y \in T : ~ (<<y, x>> \in R)
  BY <1>1, WFMin
<1>3. ASSUME NEW y \in T PROVE x <= y
  <2>1. x \in Nat /\ y \in Nat /\ <<y, x>> \notin R
    BY <1>2
  <2>2. ~ (y < x)
    BY <2>1
  <2> QED BY <2>1, <2>2
<1> QED BY <1>2, <1>3

LEMMA MinIsLeast ==
  ASSUME NEW T \in SUBSET Nat, T # {}
  PROVE  Min(T) \in T /\ \A y \in T : Min(T) <= y
BY HasLeast DEF Min

LEMMA MaxIsLargest ==
  ASSUME NEW T \in SUBSET Nat, T # {}, NEW n \in Nat, \A y \in T : y <= n
  PROVE  Max(T) \in T /\ \A y \in T : y <= Max(T)
<1> DEFINE D == {n - y : y \in T}
<1>1. D \in SUBSET Nat /\ D # {}
  <2>1. \A y \in T : n - y \in Nat
    OBVIOUS
  <2> QED BY <2>1
<1>2. PICK d \in D : \A e \in D : d <= e
  BY <1>1, HasLeast
<1>3. PICK x \in T : d = n - x
  BY <1>2
<1>4. ASSUME NEW y \in T PROVE x >= y
  <2>1. n - x <= n - y
    BY <1>2, <1>3
  <2> QED BY <2>1
<1>5. \E z \in T : \A y \in T : z >= y
  BY <1>4
<1>6. Max(T) \in T /\ \A y \in T : Max(T) >= y
  BY <1>5 DEF Max
<1> QED BY <1>6

(* What follows by steps of one holds of every number. *)
LEMMA Induct ==
  ASSUME NEW S, 0 \in S, \A n \in Nat : n \in S => n + 1 \in S
  PROVE  Nat \subseteq S
<1> SUFFICES ASSUME Nat \ S # {} PROVE FALSE
  OBVIOUS
<1>1. PICK x \in Nat \ S : \A y \in Nat \ S : x <= y
  BY HasLeast
<1>2. x # 0 /\ x - 1 \in Nat /\ x - 1 \notin Nat \ S
  BY <1>1
<1>3. (x - 1) + 1 = x
  BY <1>1
<1> QED BY <1>1, <1>2, <1>3

-----------------------------------------------------------------------------
(* Bundles *)

(* The files whose path is made of the given names. *)
Files(Names) == [dir : Seq(Names), name : Names, ext : Names]

(* What a rest of a sequence is, and what it is appended to.                *)
LEMMA Rest ==
  ASSUME NEW S, NEW s \in Seq(S), NEW n \in 0 .. Len(s)
  PROVE  /\ SubSeq(s, n + 1, Len(s)) \in Seq(S)
         /\ Len(SubSeq(s, n + 1, Len(s))) = Len(s) - n
         /\ SubSeq(s, 1, n) \in Seq(S) /\ Len(SubSeq(s, 1, n)) = n
         /\ SubSeq(s, 1, n) \o SubSeq(s, n + 1, Len(s)) = s
<1>1. /\ Len(s) \in Nat /\ n \in Nat /\ n + 1 \in Int
      /\ \A i \in n + 1 .. Len(s) : s[i] \in S
      /\ \A i \in 1 .. n : s[i] \in S
  OBVIOUS
<1>2. /\ SubSeq(s, n + 1, Len(s)) \in Seq(S)
      /\ Len(SubSeq(s, n + 1, Len(s))) =
           IF n + 1 <= Len(s) THEN Len(s) - (n + 1) + 1 ELSE 0
  BY <1>1, SubSeqProperties
<1>3. /\ SubSeq(s, 1, n) \in Seq(S)
      /\ Len(SubSeq(s, 1, n)) = IF 1 <= n THEN n - 1 + 1 ELSE 0
  BY <1>1, SubSeqProperties
<1>4. SubSeq(s, 1, n) \o SubSeq(s, n + 1, Len(s)) = SubSeq(s, 1, Len(s))
  <2>1. 1 \in 1 .. Len(s) + 1 /\ n \in 1 - 1 .. Len(s) /\ Len(s) \in n .. Len(s)
    BY <1>1
  <2> QED BY <2>1, ConcatAdjacentSubSeq
<1>5. SubSeq(s, 1, n) \o SubSeq(s, n + 1, Len(s)) = s
  BY <1>4, SubSeqFull
<1>6. Len(SubSeq(s, n + 1, Len(s))) = Len(s) - n /\ Len(SubSeq(s, 1, n)) = n
  BY <1>1, <1>2, <1>3
<1> QED BY <1>2, <1>3, <1>5, <1>6

(* The file of a package goes with the path after the first "node_modules" *)
(* to the directory of the output.                                         *)
LEMMA PackageOutput ==
  ASSUME NEW Names, ".." \notin Names, NEW id \in Files(Names),
         NEW outDir \in Seq(Names), OfPackage(id)
  PROVE  LET n == Min({i \in DOMAIN id.dir : id.dir[i] = Modules})
         IN  /\ n \in 1 .. Len(id.dir)
             /\ Output(id, outDir) =
                  [id EXCEPT !.dir = outDir \o SubSeq(id.dir, n + 1, Len(id.dir))]
<1> DEFINE T == {i \in DOMAIN id.dir : id.dir[i] = Modules}
           n == Min(T)
           rest == SubSeq(id.dir, n + 1, Len(id.dir))
<1>0. id.dir \in Seq(Names) /\ DOMAIN id.dir = 1 .. Len(id.dir) /\ Len(id.dir) \in Nat
  BY DEF Files
<1>1. T \in SUBSET Nat /\ T # {}
  BY <1>0 DEF OfPackage, Range
<1>2. n \in T
  BY <1>1, MinIsLeast
<1>3. n \in 1 .. Len(id.dir) /\ n \in 0 .. Len(id.dir)
  BY <1>0, <1>2
<1>4. rest \in Seq(Names)
  BY <1>0, <1>3, Rest
<1>5. EntryFileName(id, outDir) = [id EXCEPT !.dir = rest]
  BY DEF EntryFileName, InPackage
<1> HIDE DEF n, rest, T
<1>6. Resolved(outDir, rest) = outDir \o rest
  <2>1. \A i \in DOMAIN rest : rest[i] # ".."
    BY <1>4
  <2>2. {i \in DOMAIN rest : rest[i] = ".."} = {}
    BY <2>1
  <2>3. Cardinality({i \in DOMAIN rest : rest[i] = ".."}) = 0
    BY <2>2, FS_EmptySet
  <2>4. /\ Len(outDir) \in Nat /\ Len(rest) \in Nat
        /\ SubSeq(outDir, 1, Len(outDir) - 0) = outDir
        /\ SubSeq(rest, 0 + 1, Len(rest)) = rest
    BY <1>4, SubSeqFull
  <2> QED BY <2>3, <2>4 DEF Resolved
<1>7. Output(id, outDir) = [id EXCEPT !.dir = outDir \o rest]
  BY <1>5, <1>6 DEF Output, Files
<1> QED BY <1>3, <1>7 DEF n, T, rest

LEMMA PrefixItems ==
  ASSUME NEW S, NEW s \in Seq(S), NEW n \in 0 .. Len(s)
  PROVE  \A i \in 1 .. n : SubSeq(s, 1, n)[i] = s[i]
<1>1. Len(s) \in Nat /\ n \in Int /\ 1 \in Int /\ \A i \in 1 .. n : s[i] \in S
  OBVIOUS
<1>2. \A i \in 1 .. n - 1 + 1 : SubSeq(s, 1, n)[i] = s[1 + i - 1]
  BY <1>1, SubSeqProperties
<1>3. n - 1 + 1 = n /\ \A i \in 1 .. n : 1 + i - 1 = i
  BY <1>1
<1> QED BY <1>2, <1>3

LEMMA PrefixOfPrefix ==
  ASSUME NEW S, NEW s \in Seq(S), NEW n \in 0 .. Len(s), NEW m \in 0 .. n
  PROVE  SubSeq(SubSeq(s, 1, n), 1, m) = SubSeq(s, 1, m)
<1> DEFINE p == SubSeq(s, 1, n)
<1>1. p \in Seq(S) /\ Len(p) = n /\ \A i \in 1 .. n : p[i] = s[i]
  BY Rest, PrefixItems
<1>2. m \in 0 .. Len(p) /\ m \in 0 .. Len(s) /\ \A i \in 1 .. m : i \in 1 .. n
  BY <1>1
<1> HIDE DEF p
<1>3. /\ SubSeq(p, 1, m) \in Seq(S) /\ Len(SubSeq(p, 1, m)) = m
      /\ \A i \in 1 .. m : SubSeq(p, 1, m)[i] = p[i]
  BY <1>1, <1>2, Rest, PrefixItems
<1>4. /\ SubSeq(s, 1, m) \in Seq(S) /\ Len(SubSeq(s, 1, m)) = m
      /\ \A i \in 1 .. m : SubSeq(s, 1, m)[i] = s[i]
  BY <1>2, Rest, PrefixItems
<1>5. SubSeq(p, 1, m) = SubSeq(s, 1, m)
  BY <1>1, <1>2, <1>3, <1>4, SeqEqual
<1> QED BY <1>5 DEF p

(* The two parts of a concatenation can be had back.                       *)
LEMMA Parts ==
  ASSUME NEW S, NEW s \in Seq(S), NEW t \in Seq(S)
  PROVE  /\ SubSeq(s \o t, 1, Len(s)) = s
         /\ SubSeq(s \o t, Len(s) + 1, Len(s \o t)) = t
<1> DEFINE u == s \o t
           m == Len(s)
           n == Len(u)
<1>1. /\ u \in Seq(S) /\ m \in Nat /\ Len(t) \in Nat /\ n = m + Len(t) /\ n \in Nat
      /\ \A i \in 1 .. n : u[i] = IF i <= m THEN s[i] ELSE t[i - m]
  BY ConcatProperties
<1> HIDE DEF u, m, n
<1>2. \A i \in 1 .. n : u[i] \in S
  <2>1. n = Len(u)
    BY DEF n
  <2> QED BY <1>1, <2>1, ElementOfSeq
<1>3. SubSeq(u, 1, m) = s
  <2>1. /\ SubSeq(u, 1, m) \in Seq(S)
        /\ Len(SubSeq(u, 1, m)) = IF 1 <= m THEN m - 1 + 1 ELSE 0
        /\ \A i \in 1 .. m - 1 + 1 : SubSeq(u, 1, m)[i] = u[1 + i - 1]
    <3>1. 1 \in Int /\ m \in Int /\ \A i \in 1 .. m : u[i] \in S
      BY <1>1, <1>2
    <3> QED BY <3>1, SubSeqProperties
  <2>2. Len(SubSeq(u, 1, m)) = Len(s) /\ m - 1 + 1 = m /\ m = Len(s)
    BY <1>1, <2>1 DEF m
  <2>3. ASSUME NEW i \in 1 .. m PROVE SubSeq(u, 1, m)[i] = s[i]
    <3>1. i \in 1 .. n /\ i <= m /\ 1 + i - 1 = i
      BY <1>1
    <3> QED BY <1>1, <2>1, <2>2, <3>1
  <2> QED BY <2>1, <2>2, <2>3, SeqEqual
<1>4. SubSeq(u, m + 1, n) = t
  <2>1. /\ SubSeq(u, m + 1, n) \in Seq(S)
        /\ Len(SubSeq(u, m + 1, n)) = IF m + 1 <= n THEN n - (m + 1) + 1 ELSE 0
        /\ \A i \in 1 .. n - (m + 1) + 1 : SubSeq(u, m + 1, n)[i] = u[m + 1 + i - 1]
    <3>1. m + 1 \in Int /\ n \in Int /\ \A i \in m + 1 .. n : u[i] \in S
      BY <1>1, <1>2
    <3> QED BY <3>1, SubSeqProperties
  <2>2. Len(SubSeq(u, m + 1, n)) = Len(t) /\ n - (m + 1) + 1 = Len(t)
    BY <1>1, <2>1
  <2>3. ASSUME NEW i \in 1 .. Len(t) PROVE SubSeq(u, m + 1, n)[i] = t[i]
    <3>1. /\ m + 1 + i - 1 = m + i /\ m + i \in 1 .. n
          /\ ~ (m + i <= m) /\ m + i - m = i
      BY <1>1
    <3> QED BY <1>1, <2>1, <2>2, <3>1
  <2> QED BY <2>1, <2>2, <2>3, SeqEqual
<1> QED BY <1>3, <1>4 DEF u, m, n

LEMMA PrefixOfConcat ==
  ASSUME NEW S, NEW s \in Seq(S), NEW t \in Seq(S)
  PROVE  IsPrefix(s, s \o t)
<1>1. Len(s) \in Nat /\ Len(t) \in Nat /\ Len(s \o t) = Len(s) + Len(t)
  BY ConcatProperties
<1>2. SubSeq(s \o t, 1, Len(s)) = s /\ SubSeq(s, 1, Len(s)) = s
  BY Parts, SubSeqFull
<1> QED BY <1>1, <1>2 DEF IsPrefix

(* The operating system goes up as many directories as there are "..".     *)
LEMMA WayResolved ==
  ASSUME NEW Names, ".." \notin Names, NEW outDir \in Seq(Names),
         NEW up \in 0 .. Len(outDir), NEW rest \in Seq(Names)
  PROVE  Resolved(outDir, Up(up) \o rest) = SubSeq(outDir, 1, Len(outDir) - up) \o rest
<1> DEFINE way == Up(up) \o rest
           S == Names \cup {".."}
           back == {i \in DOMAIN way : way[i] = ".."}
<1>1. up \in Nat /\ Len(outDir) \in Nat
  OBVIOUS
<1>2. /\ Up(up) \in Seq(S) /\ rest \in Seq(S) /\ Len(Up(up)) = up
      /\ Len(rest) \in Nat /\ \A i \in 1 .. up : Up(up)[i] = ".."
  <2>1. Up(up) \in Seq(S) /\ Len(Up(up)) = up /\ \A i \in 1 .. up : Up(up)[i] = ".."
    BY <1>1 DEF Up
  <2>2. rest \in Seq(S) /\ Len(rest) \in Nat
    BY SeqMonotonic
  <2> QED BY <2>1, <2>2
<1>3. /\ way \in Seq(S) /\ Len(way) = up + Len(rest)
      /\ \A i \in 1 .. up + Len(rest) :
           way[i] = IF i <= up THEN Up(up)[i] ELSE rest[i - up]
  <2>1. /\ way \in Seq(S) /\ Len(way) = Len(Up(up)) + Len(rest)
        /\ \A i \in 1 .. Len(Up(up)) + Len(rest) :
             way[i] = IF i <= Len(Up(up)) THEN Up(up)[i] ELSE rest[i - Len(Up(up))]
    BY <1>2, ConcatProperties
  <2> HIDE DEF way
  <2> QED BY <1>2, <2>1
<1>4. SubSeq(way, up + 1, Len(way)) = rest
  BY <1>2, Parts
<1> HIDE DEF way
<1>5. DOMAIN way = 1 .. up + Len(rest)
  BY <1>3
<1>6. ASSUME NEW i \in 1 .. up + Len(rest) PROVE way[i] = ".." <=> i \in 1 .. up
  <2>1. CASE i <= up
    BY <1>1, <1>2, <1>3, <2>1
  <2>2. CASE ~ (i <= up)
    <3>1. i - up \in 1 .. Len(rest)
      BY <1>1, <1>2, <2>2
    <3>2. rest[i - up] \in Names
      BY <3>1, ElementOfSeq
    <3> QED BY <1>3, <2>2, <3>2
  <2> QED BY <2>1, <2>2
<1>7. 1 .. up \subseteq 1 .. up + Len(rest)
  BY <1>1, <1>2
<1>8. back = 1 .. up
  BY <1>5, <1>6, <1>7
<1>9. Cardinality(back) = up
  <2>1. Cardinality(1 .. up) = IF 1 > up THEN 0 ELSE up - 1 + 1
    BY <1>1, FS_Interval
  <2>2. Cardinality(1 .. up) = up
    BY <1>1, <2>1
  <2> QED BY <1>8, <2>2
<1> QED BY <1>4, <1>9 DEF Resolved, way

(* The way from the directory of the output to that of a source file, gone *)
(* from there, ends at the source file.                                    *)
LEMMA SourceOutput ==
  ASSUME NEW Names, ".." \notin Names, NEW id \in Files(Names),
         NEW outDir \in Seq(Names), ~OfPackage(id)
  PROVE  Output(id, outDir) = ChangeExt(id, "js")
<1> DEFINE C == {n \in 0 .. Len(outDir) : IsPrefix(SubSeq(outDir, 1, n), id.dir)}
           n == Max(C)
           rest == SubSeq(id.dir, n + 1, Len(id.dir))
<1>0. id.dir \in Seq(Names) /\ Len(id.dir) \in Nat /\ Len(outDir) \in Nat
  BY DEF Files
<1>1. n \in 0 .. Len(outDir) /\ IsPrefix(SubSeq(outDir, 1, n), id.dir)
  <2>1. SubSeq(outDir, 1, 0) = <<>> /\ SubSeq(id.dir, 1, 0) = <<>>
    BY SubSeqEmpty
  <2>2. 0 \in C
    BY <1>0, <2>1 DEF IsPrefix
  <2>3. C \in SUBSET Nat /\ C # {} /\ \A y \in C : y <= Len(outDir)
    BY <1>0, <2>2
  <2>4. n \in C
    BY <1>0, <2>3, MaxIsLargest
  <2> QED BY <2>4
<1> HIDE DEF n
<1>2. SubSeq(outDir, 1, n) = SubSeq(id.dir, 1, n) /\ n <= Len(id.dir)
  <2>2. SubSeq(outDir, 1, n) \in Seq(Names) /\ Len(SubSeq(outDir, 1, n)) = n
    BY <1>1, Rest
  <2>3. SubSeq(SubSeq(outDir, 1, n), 1, n) = SubSeq(outDir, 1, n)
    BY <2>2, SubSeqFull
  <2> QED BY <1>1, <2>2, <2>3 DEF IsPrefix
<1>3. rest \in Seq(Names) /\ SubSeq(id.dir, 1, n) \o rest = id.dir
  <2>1. n \in 0 .. Len(id.dir)
    BY <1>0, <1>1, <1>2
  <2> QED BY <1>0, <2>1, Rest
<1>4. Relative(outDir, id.dir) = Up(Len(outDir) - n) \o rest
  BY DEF Relative, Common, n
<1>5. Len(outDir) - n \in 0 .. Len(outDir) /\ Len(outDir) - (Len(outDir) - n) = n
  BY <1>0, <1>1
<1>6. Resolved(outDir, Up(Len(outDir) - n) \o rest) = SubSeq(outDir, 1, n) \o rest
  <2>1. PICK k \in 0 .. Len(outDir) : k = Len(outDir) - n /\ Len(outDir) - k = n
    BY <1>5
  <2>2. Resolved(outDir, Up(k) \o rest) = SubSeq(outDir, 1, Len(outDir) - k) \o rest
    BY <1>0, <1>3, WayResolved
  <2> QED BY <2>1, <2>2
<1>7. Resolved(outDir, Relative(outDir, id.dir)) = id.dir
  BY <1>2, <1>3, <1>4, <1>6
<1> QED
  BY <1>7 DEF Output, EntryFileName, ChangeExt, Files

(* rollup.config.mjs: a source file is built next to itself and a package  *)
(* below the directory of the output, and no two files of the packages of  *)
(* one "node_modules" are built into one, whatever the directories are.    *)
LEMMA OutputsApart ==
  ASSUME NEW Names, ".." \notin Names, NEW file \in Files(Names),
         NEW ids \in SUBSET Files(Names)
  PROVE  OutputsAreApart(file, ids)
<1> DEFINE outDir == OutDir(file)
           First(id) == Min({i \in DOMAIN id.dir : id.dir[i] = Modules})
           Tail1(id) == SubSeq(id.dir, First(id) + 1, Len(id.dir))
<1>0. outDir \in Seq(Names)
  BY DEF OutDir, Files
<1>1. ASSUME NEW id \in Files(Names), OfPackage(id)
      PROVE  /\ Outer(id) \in Seq(Names) /\ Tail1(id) \in Seq(Names)
             /\ Outer(id) \o Tail1(id) = id.dir
             /\ Output(id, outDir) = [id EXCEPT !.dir = outDir \o Tail1(id)]
  <2>1. /\ First(id) \in 1 .. Len(id.dir)
        /\ Output(id, outDir) = [id EXCEPT !.dir = outDir \o Tail1(id)]
    BY <1>0, <1>1, PackageOutput
  <2>2. id.dir \in Seq(Names) /\ First(id) \in 0 .. Len(id.dir)
    BY <2>1 DEF Files
  <2> HIDE DEF First
  <2>3. SubSeq(id.dir, 1, First(id)) \in Seq(Names) /\ Tail1(id) \in Seq(Names)
        /\ SubSeq(id.dir, 1, First(id)) \o Tail1(id) = id.dir
    BY <2>2, Rest
  <2> QED BY <2>1, <2>3 DEF Outer, First
<1> HIDE DEF Tail1, First
<1>2. ASSUME NEW id \in ids, Builds(id, outDir)
      PROVE  IF OfPackage(id) THEN IsPrefix(outDir, Output(id, outDir).dir)
             ELSE Output(id, outDir) = ChangeExt(id, "js")
  <2>1. CASE OfPackage(id)
    <3>1. Output(id, outDir).dir = outDir \o Tail1(id) /\ Tail1(id) \in Seq(Names)
      BY <1>1, <2>1 DEF Files
    <3> QED BY <1>0, <2>1, <3>1, PrefixOfConcat
  <2> QED BY <1>0, <2>1, SourceOutput
<1>3. ASSUME NEW a \in ids, NEW b \in ids, OfPackage(a), OfPackage(b),
             Outer(a) = Outer(b), Output(a, outDir) = Output(b, outDir)
      PROVE  a = b
  <2>1. /\ a.name = b.name /\ a.ext = b.ext
        /\ outDir \o Tail1(a) = outDir \o Tail1(b)
    <3>1. ASSUME NEW id \in ids, OfPackage(id)
          PROVE  /\ Output(id, outDir).name = id.name /\ Output(id, outDir).ext = id.ext
                 /\ Output(id, outDir).dir = outDir \o Tail1(id)
      <4>1. Output(id, outDir) = [id EXCEPT !.dir = outDir \o Tail1(id)]
        BY <1>1, <3>1
      <4> QED BY <4>1 DEF Files
    <3> QED BY <1>3, <3>1
  <2>2. Tail1(a) = Tail1(b)
    BY <1>0, <1>1, <1>3, <2>1, ConcatSimplifications
  <2>3. a.dir = b.dir
    BY <1>1, <1>3, <2>2
  <2> QED BY <2>1, <2>3 DEF Files
<1> QED BY <1>2, <1>3 DEF OutputsAreApart

LEMMA InputCompiled ==
  ASSUME NEW Names, ".." \notin Names, NEW file \in Files(Names),
         NEW configs \in SUBSET Seq(Names), NEW root \in Seq(Names)
  PROVE  InputIsCompiled(file, configs, root)
<1>1. IsPrefix(file.dir, file.dir)
  BY DEF IsPrefix, Files
<1> QED BY <1>1 DEF InputIsCompiled, TsPluginOptions

(* For files in any directories: nothing that is built overwrites          *)
(* something else, and what is to be compiled lies where the plugin looks. *)
THEOREM NothingIsOverwritten ==
  ASSUME NEW Names, ".." \notin Names, "base" \in Names,
         input.law = "build" => /\ input.input \in Files(Names)
                                /\ input.files \in SUBSET Files(Names),
         input.law = "config" => /\ input.input \in Files(Names)
                                 /\ input.configs \in SUBSET Seq(Names)
  PROVE  BuildsAreApart
<1>1. <<"base">> \in Seq(Names)
  OBVIOUS
<1> QED BY <1>1, OutputsApart, InputCompiled DEF BuildsAreApart

-----------------------------------------------------------------------------
(* Http *)

(* A name or a value ends at the first of the characters, or with the text. *)
LEMMA EndIs ==
  ASSUME NEW S, NEW s \in Seq(S), NEW i \in 1 .. Len(s) + 1, NEW stop,
         NEW e \in i .. Len(s) + 1, \A j \in i .. e - 1 : s[j] \notin stop,
         e = Len(s) + 1 \/ s[e] \in stop
  PROVE  EndOf(s, i, stop) = e
<1> DEFINE T == {j \in i .. Len(s) : s[j] \in stop} \cup {Len(s) + 1}
<1>1. Len(s) \in Nat /\ T \in SUBSET Nat /\ T # {}
  OBVIOUS
<1>2. Min(T) \in T /\ \A y \in T : Min(T) <= y
  BY <1>1, MinIsLeast
<1>3. e \in T /\ \A y \in T : e <= y
  BY <1>1
<1>4. Min(T) \in Nat /\ e \in Nat /\ Min(T) <= e /\ e <= Min(T)
  BY <1>1, <1>2, <1>3
<1>5. Min(T) = e
  BY <1>4
<1> QED BY <1>5 DEF EndOf

LEMMA EndFound ==
  ASSUME NEW S, NEW s \in Seq(S), NEW i \in 1 .. Len(s) + 1, NEW stop
  PROVE  LET e == EndOf(s, i, stop)
         IN  /\ e \in i .. Len(s) + 1 /\ \A j \in i .. e - 1 : s[j] \notin stop
             /\ e = Len(s) + 1 \/ s[e] \in stop
<1> DEFINE T == {j \in i .. Len(s) : s[j] \in stop} \cup {Len(s) + 1}
<1>1. Len(s) \in Nat /\ T \in SUBSET Nat /\ T # {}
  OBVIOUS
<1>2. Min(T) \in T /\ \A y \in T : Min(T) <= y
  BY <1>1, MinIsLeast
<1>3. Min(T) \in i .. Len(s) + 1 /\ (Min(T) = Len(s) + 1 \/ s[Min(T)] \in stop)
  BY <1>1, <1>2
<1>4. ASSUME NEW j \in i .. Min(T) - 1 PROVE s[j] \notin stop
  <2>1. j \in i .. Len(s) /\ ~ (Min(T) <= j)
    BY <1>1, <1>3
  <2> QED BY <1>2, <2>1
<1> QED BY <1>3, <1>4 DEF EndOf

(* The path of an address ends where its query or its fragment begins,     *)
(* whichever is first.                                                     *)
LEMMA PathEnds ==
  ASSUME NEW S, NEW s \in Seq(S)
  PROVE  LET e == EndOf(s, 1, {"?", "#"})
         IN  e \in 1 .. Len(s) + 1 /\ Before(Before(s, "?"), "#") = SubSeq(s, 1, e - 1)
<1> DEFINE q == EndOf(s, 1, {"?"})
           m == q - 1
           b == SubSeq(s, 1, m)
           f == EndOf(b, 1, {"#"})
<1>1. Len(s) \in Nat /\ 1 \in 1 .. Len(s) + 1
  OBVIOUS
<1>2. /\ q \in 1 .. Len(s) + 1 /\ \A j \in 1 .. q - 1 : s[j] \notin {"?"}
      /\ q = Len(s) + 1 \/ s[q] \in {"?"}
  BY <1>1, EndFound
<1> HIDE DEF q
<1>3. m \in 0 .. Len(s) /\ m + 1 = q
  BY <1>1, <1>2
<1>4. b \in Seq(S) /\ Len(b) = m /\ \A j \in 1 .. m : b[j] = s[j]
  BY <1>3, Rest, PrefixItems
<1>5. 1 \in 1 .. Len(b) + 1
  BY <1>1, <1>3, <1>4
<1>6. /\ f \in 1 .. Len(b) + 1 /\ \A j \in 1 .. f - 1 : b[j] \notin {"#"}
      /\ f = Len(b) + 1 \/ b[f] \in {"#"}
  BY <1>4, <1>5, EndFound
<1>7. Before(Before(s, "?"), "#") = SubSeq(b, 1, f - 1)
  BY DEF Before, f, q
<1> HIDE DEF f, b, m
<1>8. f \in 1 .. q /\ f \in 1 .. Len(s) + 1 /\ f - 1 \in 0 .. m
  BY <1>1, <1>2, <1>3, <1>4, <1>6
<1>9. ASSUME NEW j \in 1 .. f - 1 PROVE s[j] \notin {"?", "#"}
  <2>1. j \in 1 .. q - 1 /\ j \in 1 .. m
    BY <1>3, <1>8
  <2> QED BY <1>2, <1>4, <1>6, <2>1
<1>10. f = Len(s) + 1 \/ s[f] \in {"?", "#"}
  <2>1. CASE f = Len(b) + 1
    <3>1. f = q
      BY <1>3, <1>4, <2>1
    <3> QED BY <1>2, <3>1
  <2>2. CASE f # Len(b) + 1
    <3>1. f \in 1 .. m /\ b[f] = "#"
      BY <1>3, <1>4, <1>6, <2>2
    <3> QED BY <1>4, <3>1
  <2> QED BY <2>1, <2>2
<1>11. EndOf(s, 1, {"?", "#"}) = f
  BY <1>1, <1>8, <1>9, <1>10, EndIs
<1>12. SubSeq(b, 1, f - 1) = SubSeq(s, 1, f - 1)
  BY <1>3, <1>8, PrefixOfPrefix DEF b
<1> QED BY <1>7, <1>8, <1>11, <1>12

(* app.ts, the main menu: for addresses and paths of any characters and    *)
(* any length a link is active exactly on the page whose path it has.      *)
THEOREM LinksAreFound ==
  ASSUME NEW S, NEW link \in Seq(S), NEW uriPath \in Seq(S)
  PROVE  LinkIsFound(link, uriPath)
<1> DEFINE stop == {"?", "#"}
           e == EndOf(link, 1, stop)
           n == e - 1
           RestOf(rest) ==
             /\ link = uriPath \o rest
             /\ rest # <<>> => rest[1] \in stop
             /\ \A i \in DOMAIN uriPath : uriPath[i] \notin stop
           Rests == {SubSeq(link, i, Len(link)) : i \in 1 .. Len(link) + 1}
<1>1. Len(link) \in Nat /\ 1 \in 1 .. Len(link) + 1 /\ Len(uriPath) \in Nat
  OBVIOUS
<1>2. /\ e \in 1 .. Len(link) + 1 /\ \A j \in 1 .. e - 1 : link[j] \notin stop
      /\ e = Len(link) + 1 \/ link[e] \in stop
  BY <1>1, EndFound
<1>3. Before(Before(link, "?"), "#") = SubSeq(link, 1, n)
  BY PathEnds
<1> HIDE DEF e
<1>4. n \in 0 .. Len(link) /\ n + 1 = e
  BY <1>1, <1>2
<1>5. ASSUME uriPath = SubSeq(link, 1, n)
      PROVE  \E rest \in Rests : RestOf(rest)
  <2> DEFINE rest == SubSeq(link, n + 1, Len(link))
  <2>1. rest \in Rests
    BY <1>1, <1>2, <1>4
  <2>2. link = uriPath \o rest /\ Len(uriPath) = n
    BY <1>4, <1>5, Rest
  <2>3. \A i \in DOMAIN uriPath : uriPath[i] \notin stop
    <3>1. \A i \in 1 .. n : uriPath[i] = link[i]
      BY <1>4, <1>5, PrefixItems
    <3> QED BY <1>2, <2>2, <3>1
  <2>4. ASSUME rest # <<>> PROVE rest[1] \in stop
    <3>1. Len(rest) = Len(link) - n /\ rest \in Seq(S)
      BY <1>4, Rest
    <3> HIDE DEF rest
    <3>2. e # Len(link) + 1 /\ 1 \in 1 .. Len(rest)
      BY <1>1, <1>4, <2>4, <3>1
    <3>3. link[n + 1] = rest[1]
      <4>1. link[Len(uriPath) + 1] = rest[Len(uriPath) + 1 - Len(uriPath)]
        <5>1. /\ Len(uriPath) + 1 \in 1 .. Len(uriPath) + Len(rest)
              /\ ~ (Len(uriPath) + 1 <= Len(uriPath))
          BY <1>1, <3>1, <3>2
        <5> QED BY <2>2, <3>1, <5>1, ConcatProperties
      <4>2. Len(uriPath) + 1 - Len(uriPath) = 1
        BY <1>1
      <4> QED BY <2>2, <4>1, <4>2
    <3> QED BY <1>2, <1>4, <3>2, <3>3
  <2> HIDE DEF rest
  <2> QED BY <2>1, <2>2, <2>3, <2>4
<1>6. ASSUME NEW rest \in Rests, RestOf(rest)
      PROVE  uriPath = SubSeq(link, 1, n)
  <2> DEFINE k == Len(uriPath)
  <2>1. rest \in Seq(S)
    <3>1. PICK i \in 1 .. Len(link) + 1 : rest = SubSeq(link, i, Len(link))
      BY <1>6
    <3>2. i - 1 \in 0 .. Len(link) /\ i - 1 + 1 = i
      BY <1>1
    <3> QED BY <3>1, <3>2, Rest
  <2>2. /\ Len(link) = k + Len(rest) /\ Len(rest) \in Nat
        /\ \A i \in 1 .. k + Len(rest) : link[i] = IF i <= k THEN uriPath[i] ELSE rest[i - k]
    BY <1>6, <2>1, ConcatProperties
  <2>3. SubSeq(link, 1, k) = uriPath
    BY <1>6, <2>1, Parts
  <2>4. ASSUME NEW i \in 1 .. k PROVE link[i] \notin stop
    <3>1. i \in 1 .. k + Len(rest) /\ i <= k /\ i \in DOMAIN uriPath
      BY <1>1, <2>2
    <3> QED BY <1>6, <2>2, <3>1
  <2>5. k + 1 = Len(link) + 1 \/ link[k + 1] \in stop
    <3>1. CASE rest = <<>>
      <4>1. Len(rest) = 0
        BY <3>1
      <4> QED BY <1>1, <2>2, <4>1
    <3>2. CASE rest # <<>>
      <4>1. Len(rest) > 0
        BY <2>1, <3>2
      <4>2. k + 1 \in 1 .. k + Len(rest) /\ ~ (k + 1 <= k) /\ k + 1 - k = 1
        BY <1>1, <2>2, <4>1
      <4>3. link[k + 1] = rest[1]
        BY <2>2, <4>2
      <4> QED BY <1>6, <3>2, <4>3
    <3> QED BY <3>1, <3>2
  <2>6. k + 1 \in 1 .. Len(link) + 1 /\ k + 1 - 1 = k
    BY <1>1, <2>2
  <2>7. EndOf(link, 1, stop) = k + 1
    <3> DEFINE d == k + 1
    <3>1. /\ d \in 1 .. Len(link) + 1 /\ \A j \in 1 .. d - 1 : link[j] \notin stop
          /\ d = Len(link) + 1 \/ link[d] \in stop
      BY <2>4, <2>5, <2>6
    <3> HIDE DEF stop, d
    <3>2. EndOf(link, 1, stop) = d
      BY <1>1, <3>1, EndIs
    <3> QED BY <3>2 DEF d
  <2> QED BY <2>3, <2>6, <2>7 DEF e
<1>7. SubSeq(link, 1, n) = uriPath <=> \E rest \in Rests : RestOf(rest)
  BY <1>5, <1>6
<1> QED BY <1>3, <1>7 DEF LinkIsFound, LinkIsActive
-----------------------------------------------------------------------------
(* Recursive functions, and sequences made of sequences *)

(* What goes on by steps of one holds up to a bound.                       *)
LEMMA InductUp ==
  ASSUME NEW n \in Nat, NEW S, n >= 1 => 1 \in S,
         \A k \in 1 .. n : k < n /\ k \in S => k + 1 \in S
  PROVE  1 .. n \subseteq S
<1> DEFINE T == {m \in Nat : m + 1 <= n => m + 1 \in S}
<1>1. 0 \in T
  OBVIOUS
<1>2. ASSUME NEW m \in Nat, m \in T PROVE m + 1 \in T
  <2> SUFFICES ASSUME (m + 1) + 1 <= n PROVE (m + 1) + 1 \in S
    OBVIOUS
  <2> DEFINE k == m + 1
  <2>1. k \in 1 .. n /\ k < n /\ k \in S
    BY <1>2
  <2> HIDE DEF k
  <2>2. k + 1 \in S
    BY <2>1
  <2> QED BY <2>2 DEF k
<1>3. Nat \subseteq T
  <2> HIDE DEF T
  <2> QED BY <1>1, <1>2, Induct
<1>4. ASSUME NEW k \in 1 .. n PROVE k \in S
  <2>1. k - 1 \in T /\ (k - 1) + 1 = k
    BY <1>3
  <2> QED BY <2>1
<1> QED BY <1>4

(* And down from it.                                                       *)
LEMMA InductDown ==
  ASSUME NEW n \in Nat, NEW S, n \in S, \A k \in 1 .. n : k \in S => k - 1 \in S
  PROVE  0 .. n \subseteq S
<1> DEFINE T == {m \in Nat : m <= n => n - m \in S}
<1>1. 0 \in T
  <2>1. n - 0 = n
    OBVIOUS
  <2> QED BY <2>1
<1>2. ASSUME NEW m \in Nat, m \in T PROVE m + 1 \in T
  <2> SUFFICES ASSUME m + 1 <= n PROVE n - (m + 1) \in S
    OBVIOUS
  <2> DEFINE k == n - m
  <2>1. k \in 1 .. n /\ k \in S /\ k - 1 = n - (m + 1)
    BY <1>2
  <2> HIDE DEF k
  <2> QED BY <2>1
<1>3. Nat \subseteq T
  <2> HIDE DEF T
  <2> QED BY <1>1, <1>2, Induct
<1>4. ASSUME NEW k \in 0 .. n PROVE k \in S
  <2>1. n - k \in T /\ n - (n - k) = k /\ n - k <= n
    BY <1>3
  <2> QED BY <2>1
<1> QED BY <1>4

(* A function is defined by recursion if what it is at each point depends  *)
(* on its values at points of lower rank only.                             *)
Local(D, V, rk, H) ==
  \A i \in D : \A g, h \in [D -> V] :
    (\A j \in D : rk[j] < rk[i] => g[j] = h[j]) => H[i][g] = H[i][h]

(* It is a solution of its equations. *)
Solves(f, D, H) == \A i \in D : f[i] = H[i][f]

(* Then its equations have a solution: a function that TLA+ writes as a    *)
(* choice is one that obeys them.                                          *)
LEMMA Recursion ==
  ASSUME NEW D, NEW V, V # {}, NEW N \in Nat, NEW rk \in [D -> 0 .. N],
         NEW H \in [D -> [[D -> V] -> V]], Local(D, V, rk, H)
  PROVE  \E f \in [D -> V] : Solves(f, D, H)
<1> DEFINE Upto(g, n) == \A i \in D : rk[i] < n => g[i] = H[i][g]
           S == {n \in Nat : \E g \in [D -> V] : Upto(g, n)}
<1>1. 0 \in S
  <2>1. PICK v \in V : TRUE
    OBVIOUS
  <2>2. [i \in D |-> v] \in [D -> V] /\ \A i \in D : ~ (rk[i] < 0)
    OBVIOUS
  <2> QED BY <2>2
<1>2. ASSUME NEW n \in Nat, n \in S PROVE n + 1 \in S
  <2>1. PICK g \in [D -> V] : Upto(g, n)
    BY <1>2
  <2> DEFINE h == [i \in D |-> H[i][g]]
  <2>2. h \in [D -> V] /\ \A i \in D : h[i] = H[i][g]
    OBVIOUS
  <2> HIDE DEF h
  <2>3. ASSUME NEW i \in D, rk[i] < n + 1 PROVE h[i] = H[i][h]
    <3>1. ASSUME NEW j \in D, rk[j] < rk[i] PROVE g[j] = h[j]
      <4>1. rk[j] < n
        BY <2>3, <3>1
      <4> QED BY <2>1, <2>2, <4>1
    <3>2. H[i][g] = H[i][h]
      BY <2>2, <3>1 DEF Local
    <3> QED BY <2>2, <3>2
  <2> QED BY <2>2, <2>3
<1>3. N + 1 \in S
  <2> HIDE DEF S
  <2>1. Nat \subseteq S
    BY <1>1, <1>2, Induct
  <2> QED BY <2>1
<1>4. PICK g \in [D -> V] : Upto(g, N + 1)
  BY <1>3
<1>5. \A i \in D : rk[i] < N + 1
  OBVIOUS
<1> QED BY <1>4, <1>5 DEF Solves

(* One sequence lies in another one after the first m items of that. *)
At(s, m, t) == m + Len(t) <= Len(s) /\ \A j \in 1 .. Len(t) : s[m + j] = t[j]

(* Of two sequences put together, each lies where one expects it.          *)
LEMMA Placed ==
  ASSUME NEW S, NEW s \in Seq(S), NEW t \in Seq(S)
  PROVE  /\ s \o t \in Seq(S) /\ Len(s \o t) = Len(s) + Len(t)
         /\ At(s \o t, 0, s) /\ At(s \o t, Len(s), t)
<1>0. PICK u : u = s \o t
  OBVIOUS
<1>1. /\ u \in Seq(S) /\ Len(s) \in Nat /\ Len(t) \in Nat /\ Len(u) = Len(s) + Len(t)
      /\ \A i \in 1 .. Len(s) + Len(t) : u[i] = IF i <= Len(s) THEN s[i] ELSE t[i - Len(s)]
  BY <1>0, ConcatProperties
<1>2. ASSUME NEW j \in 1 .. Len(t) PROVE u[Len(s) + j] = t[j]
  <2>1. PICK i \in Nat : i = Len(s) + j
    BY <1>1
  <2>2. i \in 1 .. Len(s) + Len(t) /\ ~ (i <= Len(s)) /\ i - Len(s) = j
    BY <1>1, <2>1
  <2> QED BY <1>1, <2>1, <2>2
<1>3. \A j \in 1 .. Len(s) : u[0 + j] = s[j]
  <2>1. \A j \in 1 .. Len(s) : 0 + j = j
    OBVIOUS
  <2> QED BY <1>1, <2>1
<1> QED BY <1>0, <1>1, <1>2, <1>3 DEF At

(* What lies in a sequence that lies in another one lies in that.          *)
LEMMA Within ==
  ASSUME NEW S, NEW s \in Seq(S), NEW t \in Seq(S), NEW u \in Seq(S),
         NEW m \in Nat, NEW n \in Nat, At(s, m, t), At(t, n, u)
  PROVE  At(s, m + n, u)
<1>1. Len(s) \in Nat /\ Len(t) \in Nat /\ Len(u) \in Nat
  OBVIOUS
<1>2. m + n + Len(u) <= Len(s)
  BY <1>1 DEF At
<1>3. ASSUME NEW j \in 1 .. Len(u) PROVE s[m + n + j] = u[j]
  <2>1. PICK i \in Nat : i = n + j
    BY <1>1
  <2>2. i \in 1 .. Len(t) /\ m + i = m + n + j
    BY <1>1, <2>1 DEF At
  <2>3. s[m + i] = t[i] /\ t[i] = u[j]
    BY <2>1, <2>2 DEF At
  <2> QED BY <2>2, <2>3
<1> QED BY <1>2, <1>3 DEF At

(* The same at the beginning.                                              *)
LEMMA WithinFirst ==
  ASSUME NEW S, NEW s \in Seq(S), NEW t \in Seq(S), NEW u \in Seq(S),
         NEW n \in Nat, At(s, 0, t), At(t, n, u)
  PROVE  At(s, n, u)
<1>1. PICK m \in Nat : m = 0
  OBVIOUS
<1>2. At(s, m + n, u)
  BY <1>1, Within
<1>3. m + n = n
  BY <1>1
<1> QED BY <1>2, <1>3

(* SubSeq() returns what lies there.                                       *)
LEMMA PartIs ==
  ASSUME NEW S, NEW s \in Seq(S), NEW t \in Seq(S), NEW m \in Nat, At(s, m, t)
  PROVE  SubSeq(s, m + 1, m + Len(t)) = t
<1>1. Len(s) \in Nat /\ Len(t) \in Nat
  OBVIOUS
<1>2. PICK i \in Nat, n \in Nat : i = m + 1 /\ n = m + Len(t)
  <2>1. m + 1 \in Nat /\ m + Len(t) \in Nat
    BY <1>1
  <2> QED BY <2>1
<1>3. n <= Len(s) /\ i >= 1
  BY <1>1, <1>2 DEF At
<1>4. \A j \in i .. n : s[j] \in S
  BY <1>1, <1>2, <1>3
<1>5. /\ SubSeq(s, i, n) \in Seq(S) /\ Len(SubSeq(s, i, n)) = IF i <= n THEN n - i + 1 ELSE 0
      /\ \A j \in 1 .. n - i + 1 : SubSeq(s, i, n)[j] = s[i + j - 1]
  <2>1. i \in Int /\ n \in Int
    OBVIOUS
  <2> QED BY <1>4, <2>1, SubSeqProperties
<1>6. Len(SubSeq(s, i, n)) = Len(t)
  BY <1>1, <1>2, <1>5
<1>7. ASSUME NEW j \in 1 .. Len(t) PROVE SubSeq(s, i, n)[j] = t[j]
  <2>1. i + j - 1 = m + j /\ j \in 1 .. n - i + 1
    BY <1>1, <1>2
  <2>2. s[m + j] = t[j]
    BY DEF At
  <2> QED BY <1>5, <2>1, <2>2
<1>8. SubSeq(s, i, n) = t
  BY <1>5, <1>6, <1>7, SeqEqual
<1> QED BY <1>2, <1>8

(* What FlattenSeq() makes of one sequence after the other. *)
LEMMA FlattenIs ==
  ASSUME NEW S, NEW ss \in Seq(Seq(S)), ss # <<>>
  PROVE  \E G : /\ G[1] = ss[1] /\ FlattenSeq(ss) = G[Len(ss)]
                /\ \A i \in 1 .. Len(ss) : i # 1 => G[i] = G[i - 1] \o ss[i]
<1> DEFINE L == Len(ss)
           V == Seq(S)
           Eq(g) == g = [i \in 1 .. L |-> IF i = 1 THEN ss[i] ELSE g[i - 1] \o ss[i]]
           G == CHOOSE g : Eq(g)
           D == 1 .. L
           H == [i \in D |-> [g \in [D -> V] |-> IF i = 1 THEN ss[i] ELSE g[i - 1] \o ss[i]]]
           rk == [i \in D |-> i]
<1>1. L \in Nat /\ L >= 1 /\ \A i \in 1 .. L : ss[i] \in V
  OBVIOUS
<1>2. FlattenSeq(ss) = G[L]
  BY <1>1 DEF FlattenSeq
<1> HIDE DEF G, L
<1>3. ASSUME NEW i \in D, NEW g \in [D -> V]
      PROVE  /\ H[i][g] = IF i = 1 THEN ss[i] ELSE g[i - 1] \o ss[i]
             /\ H[i][g] \in V
  <2>1. H[i][g] = IF i = 1 THEN ss[i] ELSE g[i - 1] \o ss[i]
    OBVIOUS
  <2>2. CASE i = 1
    BY <1>1, <2>1, <2>2
  <2>3. CASE i # 1
    <3>1. i - 1 \in D
      BY <1>1, <2>3
    <3>2. g[i - 1] \in V /\ ss[i] \in V
      BY <1>1, <3>1
    <3>3. g[i - 1] \o ss[i] \in V
      BY <3>2, ConcatProperties
    <3> QED BY <2>1, <2>3, <3>3
  <2> QED BY <2>1, <2>2, <2>3
<1>4. H \in [D -> [[D -> V] -> V]]
  <2>1. \A i \in D : H[i] \in [[D -> V] -> V]
    <3>1. ASSUME NEW i \in D PROVE H[i] \in [[D -> V] -> V]
      <4>1. H[i] = [g \in [D -> V] |-> IF i = 1 THEN ss[i] ELSE g[i - 1] \o ss[i]]
        OBVIOUS
      <4>2. \A g \in [D -> V] : H[i][g] \in V
        BY <1>3
      <4> HIDE DEF H, D, V
      <4> QED BY <4>1, <4>2
    <3> QED BY <3>1
  <2>2. H = [i \in D |-> H[i]]
    OBVIOUS
  <2> HIDE DEF H, D, V
  <2> QED BY <2>1, <2>2
<1>5. rk \in [D -> 0 .. L] /\ \A i \in D : rk[i] = i
  BY <1>1
<1>6. \A i \in D : i # 1 => i - 1 \in D /\ i - 1 < i
  BY <1>1
<1>7. <<>> \in V
  OBVIOUS
<1> HIDE DEF H, D, V, rk
<1>8. ASSUME NEW i \in D, NEW g \in [D -> V], NEW h \in [D -> V],
             \A j \in D : rk[j] < rk[i] => g[j] = h[j]
      PROVE  H[i][g] = H[i][h]
  <2>1. CASE i = 1
    BY <1>3, <2>1
  <2>2. CASE i # 1
    <3>1. i - 1 \in D /\ rk[i - 1] < rk[i]
      BY <1>5, <1>6, <2>2
    <3>2. g[i - 1] = h[i - 1]
      BY <1>8, <3>1
    <3>3. H[i][g] = g[i - 1] \o ss[i] /\ H[i][h] = h[i - 1] \o ss[i]
      BY <1>3, <2>2
    <3> QED BY <3>2, <3>3
  <2> QED BY <2>1, <2>2
<1>9. Local(D, V, rk, H)
  BY <1>8 DEF Local
<1>b. PICK f \in [D -> V] : Solves(f, D, H)
  BY <1>1, <1>4, <1>5, <1>7, <1>9, Recursion
<1>10. ASSUME NEW i \in D PROVE f[i] = IF i = 1 THEN ss[i] ELSE f[i - 1] \o ss[i]
  BY <1>3, <1>b DEF Solves
<1>11. Eq(f)
  BY <1>10 DEF D
<1>12. Eq(G)
  BY <1>11 DEF G
<1>13. \A i \in D : G[i] = IF i = 1 THEN ss[i] ELSE G[i - 1] \o ss[i]
  BY <1>12 DEF D
<1>14. 1 \in D
  BY <1>1 DEF D
<1>15. G[1] = ss[1] /\ \A i \in D : i # 1 => G[i] = G[i - 1] \o ss[i]
  BY <1>13, <1>14
<1> QED BY <1>2, <1>15 DEF L, D

(* Each of the sequences lies in what FlattenSeq() makes of them after     *)
(* those that come before it.                                              *)
Layout(p, ss, u) ==
  /\ p[0] = 0 /\ Len(u) = p[Len(ss)]
  /\ \A k \in 1 .. Len(ss) : p[k] = p[k - 1] + Len(ss[k]) /\ At(u, p[k - 1], ss[k])

(* FlattenSeq() loses nothing and adds nothing.                            *)
LEMMA Flattened ==
  ASSUME NEW S, NEW ss \in Seq(Seq(S))
  PROVE  /\ FlattenSeq(ss) \in Seq(S)
         /\ \E p \in [0 .. Len(ss) -> Nat] : Layout(p, ss, FlattenSeq(ss))
<1>1. CASE ss = <<>>
  <2>1. FlattenSeq(ss) = <<>> /\ Len(ss) = 0 /\ 1 .. Len(ss) = {}
    BY <1>1 DEF FlattenSeq
  <2>2. PICK p \in [0 .. Len(ss) -> Nat] : p[0] = 0
    <3>1. [k \in 0 .. Len(ss) |-> 0] \in [0 .. Len(ss) -> Nat] /\ 0 \in 0 .. Len(ss)
      BY <2>1
    <3> QED BY <3>1
  <2>3. Layout(p, ss, FlattenSeq(ss))
    BY <2>1, <2>2 DEF Layout
  <2> QED BY <2>1, <2>3
<1>2. CASE ss # <<>>
  <2>1. PICK L \in Nat : L = Len(ss) /\ L >= 1
    BY <1>2
  <2>2. \A i \in 1 .. L : ss[i] \in Seq(S)
    BY <2>1
  <2>3. PICK G : /\ G[1] = ss[1] /\ FlattenSeq(ss) = G[L]
                 /\ \A i \in 1 .. L : i # 1 => G[i] = G[i - 1] \o ss[i]
    BY <1>2, <2>1, FlattenIs
  <2>4. PICK W : W = {m \in 1 .. L : G[m] \in Seq(S)}
    OBVIOUS
  <2>5. 1 .. L \subseteq W
    <3>1. 1 \in W
      BY <2>1, <2>2, <2>3, <2>4
    <3>2. ASSUME NEW k \in 1 .. L, k < L, k \in W PROVE k + 1 \in W
      <4>1. PICK i \in 1 .. L : i = k + 1 /\ i # 1 /\ i - 1 = k
        BY <3>2
      <4>2. G[i] = G[k] \o ss[i] /\ G[k] \in Seq(S) /\ ss[i] \in Seq(S)
        BY <2>2, <2>3, <2>4, <3>2, <4>1
      <4>3. G[i] \in Seq(S)
        BY <4>2, ConcatProperties
      <4> QED BY <2>4, <4>1, <4>3
    <3> QED BY <2>1, <3>1, <3>2, InductUp
  <2>6. PICK p \in [0 .. L -> Nat] : p[0] = 0 /\ \A k \in 1 .. L : p[k] = Len(G[k])
    <3> DEFINE f == [k \in 0 .. L |-> IF k = 0 THEN 0 ELSE Len(G[k])]
    <3>1. f \in [0 .. L -> Nat] /\ f[0] = 0 /\ \A k \in 1 .. L : f[k] = Len(G[k])
      BY <2>1, <2>4, <2>5
    <3> HIDE DEF f
    <3> QED BY <3>1
  <2>7. ASSUME NEW k \in 1 .. L
        PROVE  /\ p[k] = p[k - 1] + Len(ss[k]) /\ At(G[k], p[k - 1], ss[k])
               /\ k # 1 => At(G[k], 0, G[k - 1])
    <3>1. PICK x \in Seq(S), t \in Seq(S) : x = G[k] /\ t = ss[k]
      BY <2>2, <2>4, <2>5
    <3>2. CASE k = 1
      <4>1. p[k - 1] = 0 /\ p[k] = Len(x) /\ x = t
        BY <2>3, <2>6, <3>1, <3>2
      <4>2. Len(t) \in Nat /\ \A j \in Nat : 0 + j = j
        OBVIOUS
      <4>3. At(x, 0, t) /\ Len(x) = 0 + Len(t)
        BY <4>1, <4>2 DEF At
      <4> QED BY <3>1, <3>2, <4>1, <4>3
    <3>3. CASE k # 1
      <4>1. PICK h \in 1 .. L : h = k - 1
        <5>1. k - 1 \in 1 .. L
          BY <3>3
        <5> QED BY <5>1
      <4>2. PICK s \in Seq(S) : s = G[h]
        BY <2>4, <2>5
      <4>3. x = s \o t
        BY <2>3, <3>1, <3>3, <4>1, <4>2
      <4>4. Len(x) = Len(s) + Len(t) /\ At(x, 0, s) /\ At(x, Len(s), t)
        BY <4>3, Placed
      <4>5. p[h] = Len(s) /\ p[k] = Len(x)
        BY <2>6, <3>1, <4>2
      <4> QED BY <3>1, <4>1, <4>2, <4>4, <4>5
    <3> QED BY <3>2, <3>3
  <2>8. PICK T : T = {m \in 1 .. L : \A k \in 1 .. m : At(G[m], p[k - 1], ss[k])}
    OBVIOUS
  <2>9. 1 .. L \subseteq T
    <3>1. 1 \in T
      BY <2>1, <2>7, <2>8
    <3>2. ASSUME NEW m \in 1 .. L, m < L, m \in T PROVE m + 1 \in T
      <4>1. PICK n \in 1 .. L : n = m + 1 /\ n # 1 /\ n - 1 = m
        BY <3>2
      <4>2. PICK x \in Seq(S), y \in Seq(S) : x = G[n] /\ y = G[m]
        BY <2>4, <2>5
      <4>3. At(x, 0, y)
        BY <2>7, <4>1, <4>2
      <4>4. ASSUME NEW k \in 1 .. n PROVE At(G[n], p[k - 1], ss[k])
        <5>1. CASE k = n
          BY <2>7, <5>1
        <5>2. CASE k # n
          <6>1. PICK i \in Nat, t \in Seq(S) : i = p[k - 1] /\ t = ss[k]
            <7>1. k - 1 \in 0 .. L /\ k \in 1 .. L
              BY <4>1
            <7> QED BY <2>2, <7>1
          <6>2. At(y, i, t)
            <7>1. k \in 1 .. m
              BY <4>1, <5>2
            <7> QED BY <2>8, <3>2, <4>2, <6>1, <7>1
          <6>3. At(x, i, t)
            BY <4>3, <6>2, WithinFirst
          <6> QED BY <4>2, <6>1, <6>3
        <5> QED BY <5>1, <5>2
      <4> QED BY <2>8, <4>1, <4>4
    <3> QED BY <2>1, <3>1, <3>2, InductUp
  <2>10. L \in 1 .. L
    BY <2>1
  <2>11. Layout(p, ss, G[L])
    BY <2>1, <2>6, <2>7, <2>8, <2>9, <2>10 DEF Layout
  <2> QED BY <2>1, <2>3, <2>4, <2>5, <2>10, <2>11
<1> QED BY <1>1, <1>2

-----------------------------------------------------------------------------
(* The query of an address *)

(* The characters the regular expression of queryArgs() stops at.          *)
Special == {"=", "?", "&"}

(* Where the match that begins at the i-th character ends.                 *)
EndOfValue(s, i) ==
  LET n == EndOf(s, i, Special)
      v == IF n <= Len(s) /\ s[n] = "=" THEN n + 1 ELSE n
  IN  EndOf(s, v, {"&"})

(* That match.                                                             *)
MatchAt(s, i) ==
  LET n == EndOf(s, i, Special)
      v == IF n <= Len(s) /\ s[n] = "=" THEN n + 1 ELSE n
      e == EndOf(s, v, {"&"})
  IN  [name |-> SubSeq(s, i, n - 1), value |-> SubSeq(s, v, e - 1)]

(* What the regular expression matches from the i-th character on, if      *)
(* "from" says that of the later ones.                                     *)
MatchesFrom(from, s, i) ==
  IF i > Len(s) THEN <<>>
  ELSE IF s[i] \in Special THEN from[i + 1]
  ELSE <<MatchAt(s, i)>> \o from[EndOfValue(s, i)]

(* It says that of every character.                                        *)
Reads(from, s) == \A i \in 1 .. Len(s) + 1 : from[i] = MatchesFrom(from, s, i)

(* A match ends later than it begins, within the string.                   *)
LEMMA ValueEnds ==
  ASSUME NEW S, NEW s \in Seq(S), NEW i \in 1 .. Len(s), s[i] \notin Special
  PROVE  EndOfValue(s, i) \in i + 1 .. Len(s) + 1
         /\ MatchAt(s, i) \in [name : Seq(S), value : Seq(S)]
<1> DEFINE n == EndOf(s, i, Special)
           v == IF n <= Len(s) /\ s[n] = "=" THEN n + 1 ELSE n
           e == EndOf(s, v, {"&"})
<1>1. Len(s) \in Nat /\ i \in 1 .. Len(s) + 1
  OBVIOUS
<1>2. n \in i .. Len(s) + 1 /\ (n = Len(s) + 1 \/ s[n] \in Special)
  BY <1>1, EndFound
<1> HIDE DEF n
<1>3. n \in i + 1 .. Len(s) + 1
  BY <1>1, <1>2
<1>4. v \in i + 1 .. Len(s) + 1 /\ v \in 1 .. Len(s) + 1
  BY <1>1, <1>3
<1> HIDE DEF v
<1>5. e \in v .. Len(s) + 1
  BY <1>4, EndFound
<1>6. e \in i + 1 .. Len(s) + 1
  BY <1>1, <1>4, <1>5
<1> HIDE DEF e
<1>7. SubSeq(s, i, n - 1) \in Seq(S)
  <2>1. i \in Int /\ n - 1 \in Int /\ \A j \in i .. n - 1 : s[j] \in S
    BY <1>1, <1>3
  <2> QED BY <2>1, SubSeqProperties
<1>8. SubSeq(s, v, e - 1) \in Seq(S)
  <2>1. v \in Int /\ e - 1 \in Int /\ \A j \in v .. e - 1 : s[j] \in S
    BY <1>1, <1>4, <1>5
  <2> QED BY <2>1, SubSeqProperties
<1>9. EndOfValue(s, i) = e
  BY DEF EndOfValue, n, v, e
<1>10. MatchAt(s, i) = [name |-> SubSeq(s, i, n - 1), value |-> SubSeq(s, v, e - 1)]
  BY DEF MatchAt, n, v, e
<1> QED BY <1>6, <1>7, <1>8, <1>9, <1>10

(* The matches obey the equations of the recursive definition.             *)
LEMMA MatchesAre ==
  ASSUME NEW S, NEW s \in Seq(S)
  PROVE  \E from : Matches(s) = from[1] /\ Reads(from, s)
<1> DEFINE D == 1 .. Len(s) + 1
           R == [name : Seq(S), value : Seq(S)]
           V == Seq(R)
           Eq(g) == g = [i \in D |-> MatchesFrom(g, s, i)]
           G == CHOOSE g : Eq(g)
           H == [i \in D |-> [g \in [D -> V] |-> MatchesFrom(g, s, i)]]
           rk == [i \in D |-> Len(s) + 1 - i]
           L == Len(s) + 1
<1>1. Len(s) \in Nat /\ L \in Nat /\ 1 \in D /\ \A i \in D : i \in Nat
  OBVIOUS
<1>2. Matches(s) = G[1]
  BY DEF Matches, MatchesUpTo, MatchesFrom, MatchAt, EndOfValue, Special
<1>3. \A i \in D : ~ (i > Len(s)) =>
        /\ i + 1 \in D
        /\ s[i] \notin Special => /\ EndOfValue(s, i) \in D /\ EndOfValue(s, i) > i
                                  /\ MatchAt(s, i) \in R
  <2> SUFFICES ASSUME NEW i \in D, ~ (i > Len(s)), s[i] \notin Special
               PROVE  /\ EndOfValue(s, i) \in D /\ EndOfValue(s, i) > i
                      /\ MatchAt(s, i) \in R
    BY <1>1
  <2>1. i \in 1 .. Len(s)
    BY <1>1
  <2>2. EndOfValue(s, i) \in i + 1 .. Len(s) + 1
        /\ MatchAt(s, i) \in R
    BY <2>1, ValueEnds
  <2> QED BY <1>1, <2>1, <2>2
<1>4. rk \in [D -> 0 .. L] /\ \A i \in D : rk[i] = L - i
  BY <1>1
<1>5. \A i \in D, g \in [D -> V] : H[i][g] = MatchesFrom(g, s, i)
  OBVIOUS
<1>6. ASSUME NEW i \in D, NEW g \in [D -> V] PROVE MatchesFrom(g, s, i) \in V
  <2>1. CASE i > Len(s)
    BY <2>1 DEF MatchesFrom
  <2>2. CASE ~ (i > Len(s)) /\ s[i] \in Special
    <3>1. g[i + 1] \in V
      BY <1>3, <2>2
    <3> QED BY <2>2, <3>1 DEF MatchesFrom
  <2>3. CASE ~ (i > Len(s)) /\ s[i] \notin Special
    <3>1. g[EndOfValue(s, i)] \in V /\ MatchAt(s, i) \in R
      BY <1>3, <2>3
    <3> HIDE DEF R
    <3>3. <<MatchAt(s, i)>> \in V
      BY <3>1
    <3>2. <<MatchAt(s, i)>> \o g[EndOfValue(s, i)] \in V
      BY <3>1, <3>3, ConcatProperties
    <3> QED BY <2>3, <3>2 DEF MatchesFrom
  <2> QED BY <2>1, <2>2, <2>3
<1>7. H \in [D -> [[D -> V] -> V]]
  <2>1. \A i \in D : H[i] \in [[D -> V] -> V]
    <3>1. ASSUME NEW i \in D PROVE H[i] \in [[D -> V] -> V]
      <4>1. H[i] = [g \in [D -> V] |-> MatchesFrom(g, s, i)]
        OBVIOUS
      <4> HIDE DEF H, D, V
      <4> QED BY <1>6, <4>1
    <3> QED BY <3>1
  <2>2. H = [i \in D |-> H[i]]
    OBVIOUS
  <2> HIDE DEF H, D, V
  <2> QED BY <2>1, <2>2
<1>8. V # {}
  <2> HIDE DEF R
  <2>1. <<>> \in Seq(R)
    OBVIOUS
  <2> QED BY <2>1
<1> HIDE DEF H, D, R, V, rk, L, G
<1>9. ASSUME NEW i \in D, NEW g \in [D -> V], NEW h \in [D -> V],
             \A j \in D : rk[j] < rk[i] => g[j] = h[j]
      PROVE  H[i][g] = H[i][h]
  <2>1. \A j \in D : j > i => g[j] = h[j]
    BY <1>1, <1>4, <1>9
  <2>2. ~ (i > Len(s)) => i + 1 > i
    BY <1>1
  <2>3. MatchesFrom(g, s, i) = MatchesFrom(h, s, i)
    BY <1>3, <2>1, <2>2 DEF MatchesFrom
  <2> QED BY <1>5, <2>3
<1>10. Local(D, V, rk, H)
  BY <1>9 DEF Local
<1>11. PICK f \in [D -> V] : Solves(f, D, H)
  BY <1>1, <1>4, <1>7, <1>8, <1>10, Recursion
<1>12. Eq(f)
  <2>1. \A i \in D : f[i] = MatchesFrom(f, s, i)
    BY <1>5, <1>11 DEF Solves
  <2> QED BY <2>1
<1>13. Eq(G)
  BY <1>12 DEF G
<1>14. \A i \in D : G[i] = MatchesFrom(G, s, i)
  BY <1>13
<1> QED BY <1>2, <1>14 DEF D, Reads

(* A sequence without any of some characters; s goes on after m of them    *)
(* with one of those, if at all.                                           *)
Without(t, stop) == \A j \in 1 .. Len(t) : t[j] \notin stop
EndsAt(s, m, stop) == m = Len(s) \/ s[m + 1] \in stop

(* Then EndOf() returns the end of what lies there.                        *)
LEMMA EndAfter ==
  ASSUME NEW S, NEW s \in Seq(S), NEW t \in Seq(S), NEW m \in Nat, NEW stop,
         At(s, m, t), Without(t, stop), EndsAt(s, m + Len(t), stop)
  PROVE  EndOf(s, m + 1, stop) = m + Len(t) + 1
<1>1. Len(s) \in Nat /\ Len(t) \in Nat
  OBVIOUS
<1>2. PICK i \in Nat, e \in Nat : i = m + 1 /\ e = m + Len(t) + 1
  <2>1. m + 1 \in Nat /\ m + Len(t) + 1 \in Nat
    BY <1>1
  <2> QED BY <2>1
<1>3. i \in 1 .. Len(s) + 1 /\ e \in i .. Len(s) + 1
  BY <1>1, <1>2 DEF At
<1>4. ASSUME NEW j \in i .. e - 1 PROVE s[j] \notin stop
  <2>1. PICK k \in 1 .. Len(t) : k = j - m
    <3>1. j - m \in 1 .. Len(t)
      BY <1>1, <1>2
    <3> QED BY <3>1
  <2>2. m + k = j
    BY <1>2, <2>1
  <2> QED BY <2>1, <2>2 DEF At, Without
<1>5. e = Len(s) + 1 \/ s[e] \in stop
  <2>1. m + Len(t) = Len(s) => e = Len(s) + 1
    BY <1>1, <1>2
  <2> QED BY <1>2, <2>1 DEF EndsAt
<1>6. EndOf(s, i, stop) = e
  BY <1>3, <1>4, <1>5, EndIs
<1> QED BY <1>2, <1>6

(* After m characters of s come the name a, "=" after n, and the value b   *)
(* up to the e-th.                                                         *)
IsMatch(s, m, n, e, a, b) ==
  /\ a # <<>> /\ Without(a, Special) /\ Without(b, {"&"})
  /\ n = m + Len(a) /\ e = n + 1 + Len(b)
  /\ At(s, m, a) /\ s[n + 1] = "=" /\ At(s, n + 1, b) /\ EndsAt(s, e, {"&"})

(* A name, "=" and a value are matched together. *)
LEMMA MatchedAt ==
  ASSUME NEW S, NEW s \in Seq(S), NEW from, Reads(from, s),
         NEW a \in Seq(S), NEW b \in Seq(S),
         NEW m \in Nat, NEW n \in Nat, NEW e \in Nat, IsMatch(s, m, n, e, a, b)
  PROVE  from[m + 1] = <<[name |-> a, value |-> b]>> \o from[e + 1]
<1>0. /\ a # <<>> /\ Without(a, Special) /\ Without(b, {"&"})
      /\ n = m + Len(a) /\ e = n + 1 + Len(b)
      /\ At(s, m, a) /\ s[n + 1] = "=" /\ At(s, n + 1, b) /\ EndsAt(s, e, {"&"})
  BY DEF IsMatch
<1>1. Len(s) \in Nat /\ Len(a) \in Nat /\ Len(b) \in Nat /\ Len(a) >= 1
  BY <1>0, LenProperties
<1>2. PICK i \in Nat, k \in Nat, v \in Nat, f \in Nat :
        i = m + 1 /\ k = n + 1 /\ v = n + 2 /\ f = e + 1
  <2>1. m + 1 \in Nat /\ n + 1 \in Nat /\ n + 2 \in Nat /\ e + 1 \in Nat
    OBVIOUS
  <2> QED BY <1>0, <2>1
<1>3. i <= Len(s) /\ i \in 1 .. Len(s) + 1 /\ k <= Len(s) /\ k + 1 = v /\ i \in 1 .. Len(s)
  <2>1. m + Len(a) <= Len(s) /\ n + 1 + Len(b) <= Len(s)
    BY <1>0 DEF At
  <2> QED BY <1>0, <1>1, <1>2, <2>1
<1>4. EndOf(s, i, Special) = k
  <2>1. EndsAt(s, m + Len(a), Special)
    BY <1>0 DEF EndsAt, Special
  <2>2. EndOf(s, m + 1, Special) = m + Len(a) + 1
    BY <1>0, <2>1, EndAfter
  <2> QED BY <1>0, <1>2, <2>2
<1>5. EndOf(s, v, {"&"}) = f
  <2>1. PICK stop : stop = {"&"}
    OBVIOUS
  <2>2. EndsAt(s, k + Len(b), stop) /\ At(s, k, b) /\ Without(b, stop)
    BY <1>0, <1>2, <2>1
  <2>3. EndOf(s, k + 1, stop) = k + Len(b) + 1
    BY <1>0, <2>2, EndAfter
  <2>4. k + Len(b) + 1 = f
    BY <1>0, <1>1, <1>2
  <2> QED BY <1>0, <1>3, <2>1, <2>3, <2>4
<1>6. SubSeq(s, i, k - 1) = a
  <2>1. SubSeq(s, m + 1, m + Len(a)) = a
    BY <1>0, PartIs
  <2>2. k - 1 = m + Len(a)
    BY <1>0, <1>1, <1>2
  <2> QED BY <1>0, <1>2, <2>1, <2>2
<1>7. SubSeq(s, v, f - 1) = b
  <2>1. SubSeq(s, k + 1, k + Len(b)) = b
    BY <1>0, <1>2, PartIs
  <2>2. f - 1 = k + Len(b)
    BY <1>0, <1>1, <1>2
  <2> QED BY <1>0, <1>3, <2>1, <2>2
<1>8. s[i] \notin Special
  <2>1. s[m + 1] = a[1] /\ a[1] \notin Special
    BY <1>0, <1>1 DEF At, Without
  <2> QED BY <1>0, <1>2, <2>1
<1>9. EndOfValue(s, i) = f /\ MatchAt(s, i) = [name |-> a, value |-> b]
  BY <1>0, <1>2, <1>3, <1>4, <1>5, <1>6, <1>7 DEF EndOfValue, MatchAt
<1>10. from[i] = MatchesFrom(from, s, i) /\ ~ (i > Len(s))
  BY <1>0, <1>3 DEF Reads
<1> QED BY <1>0, <1>2, <1>8, <1>9, <1>10 DEF MatchesFrom

(* The arguments of a query: names and values that a regular expression can *)
(* tell from what is around them.                                          *)
Arguments(S) == {a \in [name : Seq(S), value : Seq(S)] :
                   a.name # <<>> /\ Without(a.name, Special) /\ Without(a.value, {"&"})}

(* What Written() makes of one argument.                                   *)
Piece(args, i) == (IF i = 1 THEN <<>> ELSE <<"&">>) \o args[i].name \o <<"=">> \o args[i].value

(* The name of a written argument comes after d characters. *)
IsPiece(u, d, a, b) ==
  /\ Len(u) = d + Len(a) + 1 + Len(b)
  /\ d = 1 => u[1] = "&"
  /\ At(u, d, a) /\ u[d + Len(a) + 1] = "=" /\ At(u, d + Len(a) + 1, b)

(* So are written the first argument and the others.                       *)
LEMMA PieceIs ==
  ASSUME NEW S, Special \subseteq S, NEW a \in Seq(S), NEW b \in Seq(S), NEW first \in BOOLEAN
  PROVE  LET u == (IF first THEN <<>> ELSE <<"&">>) \o a \o <<"=">> \o b
         IN  u \in Seq(S) /\ IsPiece(u, IF first THEN 0 ELSE 1, a, b)
<1>1. "&" \in S /\ "=" \in S
  BY DEF Special
<1>2. PICK amp \in Seq(S), d \in Nat :
        /\ amp = IF first THEN <<>> ELSE <<"&">>
        /\ d = IF first THEN 0 ELSE 1
        /\ Len(amp) = d /\ (d = 1 => amp[1] = "&")
  <2>1. CASE first
    <3>1. <<>> \in Seq(S) /\ 0 \in Nat
      OBVIOUS
    <3>2. /\ <<>> = IF first THEN <<>> ELSE <<"&">>
          /\ 0 = IF first THEN 0 ELSE 1
          /\ Len(<<>>) = 0 /\ (0 = 1 => <<>>[1] = "&")
      BY <2>1
    <3> QED BY <3>1, <3>2
  <2>2. CASE ~first
    <3> DEFINE x == <<"&">>
    <3>1. x \in Seq(S) /\ Len(x) = 1 /\ 1 \in Nat /\ x[1] = "&"
      BY <1>1
    <3>2. x = <<"&">>
      OBVIOUS
    <3> HIDE DEF x
    <3> QED BY <2>2, <3>1, <3>2
  <2> QED BY <2>1, <2>2
<1>3. PICK eq \in Seq(S) : eq = <<"=">> /\ Len(eq) = 1 /\ eq[1] = "="
  <2> DEFINE x == <<"=">>
  <2>1. x \in Seq(S) /\ Len(x) = 1 /\ x[1] = "="
    BY <1>1
  <2>2. x = <<"=">>
    OBVIOUS
  <2> HIDE DEF x
  <2> QED BY <2>1, <2>2
<1>4. PICK x \in Seq(S) : x = amp \o a /\ Len(x) = d + Len(a) /\ At(x, 0, amp) /\ At(x, d, a)
  <2>1. /\ amp \o a \in Seq(S) /\ Len(amp \o a) = Len(amp) + Len(a)
        /\ At(amp \o a, 0, amp) /\ At(amp \o a, Len(amp), a)
    BY Placed
  <2> QED BY <1>2, <2>1
<1>5. PICK y \in Seq(S) : y = x \o eq /\ Len(y) = Len(x) + 1 /\ At(y, 0, x) /\ At(y, Len(x), eq)
  BY <1>3, Placed
<1>6. PICK u \in Seq(S) : u = y \o b /\ Len(u) = Len(y) + Len(b) /\ At(u, 0, y) /\ At(u, Len(y), b)
  BY Placed
<1>7. Len(a) \in Nat /\ Len(b) \in Nat /\ Len(x) \in Nat /\ Len(y) \in Nat
  OBVIOUS
<1>8. At(u, 0, x)
  BY <1>5, <1>6, WithinFirst
<1>9. At(u, d, a)
  BY <1>4, <1>8, WithinFirst
<1>10. d = 1 => u[1] = "&"
  <2>1. At(u, 0, amp)
    BY <1>4, <1>8, WithinFirst
  <2>2. d = 1 => u[0 + 1] = amp[1]
    BY <1>2, <2>1 DEF At
  <2> QED BY <1>2, <2>2
<1>11. u[d + Len(a) + 1] = "="
  <2>1. PICK n \in Nat : n = Len(x)
    BY <1>7
  <2>2. At(u, n, eq)
    BY <1>5, <1>6, <2>1, WithinFirst
  <2>3. u[n + 1] = eq[1]
    BY <1>3, <2>2 DEF At
  <2>4. n + 1 = d + Len(a) + 1
    BY <1>4, <2>1
  <2> QED BY <1>3, <2>3, <2>4
<1>12. Len(y) = d + Len(a) + 1
  BY <1>4, <1>5
<1>13. At(u, d + Len(a) + 1, b) /\ Len(u) = d + Len(a) + 1 + Len(b)
  BY <1>6, <1>12
<1>14. IsPiece(u, d, a, b)
  BY <1>9, <1>10, <1>11, <1>13 DEF IsPiece
<1> QED BY <1>2, <1>3, <1>4, <1>5, <1>6, <1>14

(* What is written is read: the matches are the arguments. *)
LEMMA ReadsBack ==
  ASSUME NEW S, Special \subseteq S, NEW args \in Seq(Arguments(S))
  PROVE  Matches(Written(args)) = args
<1>1. PICK L \in Nat : L = Len(args)
  OBVIOUS
<1>2. DOMAIN args = 1 .. L /\ \A k \in 1 .. L : args[k] \in Arguments(S)
  BY <1>1
<1>3. ASSUME NEW k \in 1 .. L
      PROVE  \E a \in Seq(S), b \in Seq(S), d \in {0, 1} :
               /\ args[k] = [name |-> a, value |-> b] /\ a # <<>>
               /\ Without(a, Special) /\ Without(b, {"&"})
               /\ Piece(args, k) \in Seq(S) /\ IsPiece(Piece(args, k), d, a, b)
               /\ k # 1 => d = 1
  <2>1. PICK a \in Seq(S), b \in Seq(S) : a = args[k].name /\ b = args[k].value
    BY <1>2 DEF Arguments
  <2>2. /\ args[k] = [name |-> a, value |-> b] /\ a # <<>>
        /\ Without(a, Special) /\ Without(b, {"&"})
    BY <1>2, <2>1 DEF Arguments
  <2>3. PICK first \in BOOLEAN : first = (k = 1)
    OBVIOUS
  <2>4. PICK u : u = (IF first THEN <<>> ELSE <<"&">>) \o a \o <<"=">> \o b
    OBVIOUS
  <2>5. u \in Seq(S) /\ IsPiece(u, IF first THEN 0 ELSE 1, a, b)
    BY <2>4, PieceIs
  <2>6. Piece(args, k) = u
    BY <2>1, <2>3, <2>4 DEF Piece
  <2>7. PICK d \in {0, 1} : d = (IF first THEN 0 ELSE 1) /\ (k # 1 => d = 1)
    BY <2>3
  <2> QED BY <2>2, <2>5, <2>6, <2>7
<1>4. PICK ss \in Seq(Seq(S)) : ss = [k \in 1 .. L |-> Piece(args, k)]
  <2> DEFINE f == [k \in 1 .. L |-> Piece(args, k)]
  <2>1. f \in [1 .. L -> Seq(S)]
    BY <1>3
  <2> HIDE DEF f
  <2>2. f \in Seq(Seq(S))
    BY <2>1
  <2> QED BY <2>2 DEF f
<1>5. Len(ss) = L /\ \A k \in 1 .. L : ss[k] = Piece(args, k) /\ ss[k] \in Seq(S)
  BY <1>3, <1>4
<1>6. PICK Fl \in Seq(S), p \in [0 .. Len(ss) -> Nat] : Fl = FlattenSeq(ss) /\ Layout(p, ss, Fl)
  BY Flattened
<1>7. p \in [0 .. L -> Nat] /\ p[L] \in Nat /\ p[0] = 0 /\ Len(Fl) = p[L]
  BY <1>5, <1>6 DEF Layout
<1>8. PICK s \in Seq(S) : s = <<"?">> \o Fl /\ Len(s) = 1 + p[L] /\ s[1] = "?" /\ At(s, 1, Fl)
  <2>1. PICK q \in Seq(S) : q = <<"?">> /\ Len(q) = 1 /\ q[1] = "?"
    <3> DEFINE x == <<"?">>
    <3>1. "?" \in S
      BY DEF Special
    <3>2. x \in Seq(S) /\ Len(x) = 1 /\ x[1] = "?"
      BY <3>1
    <3>3. x = <<"?">>
      OBVIOUS
    <3> HIDE DEF x
    <3> QED BY <3>2, <3>3
  <2>2. PICK s \in Seq(S) : s = q \o Fl /\ Len(s) = Len(q) + Len(Fl)
                            /\ At(s, 0, q) /\ At(s, Len(q), Fl)
    BY Placed
  <2>3. s[0 + 1] = q[1]
    BY <2>1, <2>2 DEF At
  <2>4. Len(s) = 1 + p[L] /\ At(s, 1, Fl)
    BY <1>7, <2>1, <2>2
  <2>5. s[1] = "?"
    BY <2>1, <2>3
  <2> QED BY <2>1, <2>2, <2>4, <2>5
<1>9. s = Written(args)
  BY <1>2, <1>4, <1>6, <1>8 DEF Written, Piece
<1>10. PICK from : Matches(s) = from[1] /\ Reads(from, s)
  BY MatchesAre
<1>11. ASSUME NEW k \in 1 .. L
       PROVE  /\ p[k - 1] \in Nat /\ p[k] \in Nat /\ p[k] = p[k - 1] + Len(Piece(args, k))
              /\ At(s, 1 + p[k - 1], Piece(args, k))
  <2>1. PICK u \in Seq(S), m \in Nat : u = ss[k] /\ m = p[k - 1]
    <3>1. k - 1 \in 0 .. L
      OBVIOUS
    <3> QED BY <1>5, <1>7, <3>1
  <2>2. p[k] = m + Len(u) /\ At(Fl, m, u) /\ p[k] \in Nat
    BY <1>5, <1>6, <1>7, <2>1 DEF Layout
  <2>3. At(s, 1 + m, u)
    BY <1>8, <2>2, Within
  <2> QED BY <1>5, <2>1, <2>2, <2>3
<1>12. ASSUME NEW k \in 1 .. L
       PROVE  from[p[k - 1] + 2] = <<args[k]>> \o from[p[k] + 2]
  <2>1. PICK a \in Seq(S), b \in Seq(S), d \in {0, 1}, u \in Seq(S) :
           /\ args[k] = [name |-> a, value |-> b] /\ a # <<>>
           /\ Without(a, Special) /\ Without(b, {"&"})
           /\ u = Piece(args, k) /\ IsPiece(u, d, a, b)
    BY <1>3
  <2>2. PICK m \in Nat : m = 1 + p[k - 1]
    <3>1. 1 + p[k - 1] \in Nat
      <4>1. PICK n \in Nat : n = p[k - 1]
        BY <1>11
      <4>2. 1 + n \in Nat
        OBVIOUS
      <4> QED BY <4>1, <4>2
    <3> QED BY <3>1
  <2>3. At(s, m, u) /\ p[k] = p[k - 1] + Len(u)
    BY <1>11, <2>1, <2>2
  <2>4. Len(a) \in Nat /\ Len(b) \in Nat /\ Len(u) \in Nat /\ Len(s) \in Nat
    OBVIOUS
  <2>5. PICK g \in Nat, n \in Nat, e \in Nat :
          g = m + d /\ n = g + Len(a) /\ e = n + 1 + Len(b)
    <3>1. m + d \in Nat /\ m + d + Len(a) \in Nat /\ m + d + Len(a) + 1 + Len(b) \in Nat
      BY <2>4
    <3> QED BY <3>1
  <2>6. /\ Len(u) = d + Len(a) + 1 + Len(b) /\ (d = 1 => u[1] = "&")
        /\ At(u, d, a) /\ u[d + Len(a) + 1] = "=" /\ At(u, d + Len(a) + 1, b)
    BY <2>1 DEF IsPiece
  <2>7. e = m + Len(u) /\ e + 1 = p[k] + 2 /\ m + 1 = p[k - 1] + 2
    <3>1. PICK y \in Nat, z \in Nat : y = p[k - 1] /\ z = p[k]
      BY <1>11
    <3>2. m = 1 + y /\ z = y + Len(u)
      BY <2>2, <2>3, <3>1
    <3>3. e = m + Len(u)
      BY <2>4, <2>5, <2>6
    <3>4. e + 1 = z + 2 /\ m + 1 = y + 2
      BY <2>4, <3>2, <3>3
    <3> QED BY <3>1, <3>3, <3>4
  <2>8. At(s, g, a)
    BY <2>3, <2>5, <2>6, Within
  <2>9. At(s, n + 1, b)
    <3>1. PICK h \in Nat : h = d + Len(a) + 1
      BY <2>4
    <3>2. At(s, m + h, b)
      BY <2>3, <2>6, <3>1, Within
    <3>3. m + h = n + 1
      BY <2>4, <2>5, <3>1
    <3> QED BY <3>2, <3>3
  <2>10. s[n + 1] = "="
    <3>1. PICK h \in 1 .. Len(u) : h = d + Len(a) + 1
      BY <2>4, <2>6
    <3>2. s[m + h] = u[h]
      BY <2>3 DEF At
    <3>3. m + h = n + 1
      BY <2>4, <2>5, <3>1
    <3> QED BY <2>6, <3>1, <3>2, <3>3
  <2>11. EndsAt(s, e, {"&"})
    <3>1. CASE k = L
      <4>1. PICK z \in Nat : z = p[L]
        BY <1>7
      <4>2. e + 1 = z + 2 /\ Len(s) = 1 + z
        BY <1>8, <2>7, <3>1, <4>1
      <4>3. e = Len(s)
        BY <4>2
      <4> QED BY <4>3 DEF EndsAt
    <3>2. CASE k # L
      <4>1. PICK h \in 1 .. L : h - 1 = k /\ h # 1
        <5>1. k + 1 \in 1 .. L /\ (k + 1) - 1 = k /\ k + 1 # 1
          BY <3>2
        <5> QED BY <5>1
      <4>2. PICK x \in Seq(S), y \in Seq(S), c \in {0, 1}, w \in Seq(S) :
              w = Piece(args, h) /\ IsPiece(w, c, x, y) /\ c = 1
        <5>1. PICK x \in Seq(S), y \in Seq(S), c \in {0, 1} :
                /\ args[h] = [name |-> x, value |-> y] /\ x # <<>>
                /\ Without(x, Special) /\ Without(y, {"&"})
                /\ Piece(args, h) \in Seq(S) /\ IsPiece(Piece(args, h), c, x, y)
                /\ h # 1 => c = 1
          BY <1>3
        <5>2. PICK w \in Seq(S) : w = Piece(args, h)
          BY <5>1
        <5>3. IsPiece(w, c, x, y) /\ c = 1
          BY <4>1, <5>1, <5>2
        <5> QED BY <5>2, <5>3
      <4>3. w[1] = "&" /\ 1 \in 1 .. Len(w)
        <5>1. w[1] = "&" /\ Len(w) = 1 + Len(x) + 1 + Len(y)
          BY <4>2 DEF IsPiece
        <5>2. Len(x) \in Nat /\ Len(y) \in Nat
          OBVIOUS
        <5> QED BY <5>1, <5>2
      <4>4. PICK j \in Nat : j = 1 + p[k] /\ j = e
        <5>1. PICK z \in Nat : z = p[k]
          BY <1>11
        <5>2. e + 1 = z + 2
          BY <2>7, <5>1
        <5>3. e = 1 + z
          BY <5>2
        <5> QED BY <5>1, <5>3
      <4>5. At(s, j, w)
        BY <1>11, <4>1, <4>2, <4>4
      <4>6. s[j + 1] = "&"
        BY <4>3, <4>5 DEF At
      <4> QED BY <4>4, <4>6 DEF EndsAt
    <3> QED BY <3>1, <3>2
  <2>12. from[g + 1] = <<[name |-> a, value |-> b]>> \o from[e + 1]
    <3>1. Reads(from, s)
      BY <1>10
    <3>2. a # <<>> /\ Without(a, Special) /\ Without(b, {"&"})
      BY <2>1
    <3>3. n = g + Len(a) /\ e = n + 1 + Len(b)
      BY <2>5
    <3>4. IsMatch(s, g, n, e, a, b)
      BY <2>8, <2>9, <2>10, <2>11, <3>2, <3>3 DEF IsMatch
    <3> QED BY <3>1, <3>4, MatchedAt
  <2>13. from[m + 1] = from[g + 1]
    <3>1. CASE d = 0
      BY <2>5, <3>1
    <3>2. CASE d = 1
      <4>1. PICK i \in Nat : i = m + 1
        OBVIOUS
      <4>2. i \in 1 .. Len(s) + 1 /\ ~ (i > Len(s)) /\ i + 1 = g + 1 /\ 1 \in 1 .. Len(u)
        <5>1. m + Len(u) <= Len(s)
          BY <2>3 DEF At
        <5>2. Len(u) >= 1
          BY <2>4, <2>6, <3>2
        <5>3. i \in 1 .. Len(s) + 1 /\ ~ (i > Len(s)) /\ 1 \in 1 .. Len(u)
          BY <2>4, <4>1, <5>1, <5>2
        <5>4. i + 1 = g + 1
          BY <2>5, <3>2, <4>1
        <5> QED BY <5>3, <5>4
      <4>3. s[i] = "&"
        BY <2>3, <2>6, <3>2, <4>1, <4>2 DEF At
      <4>4. from[i] = MatchesFrom(from, s, i)
        BY <1>10, <4>2 DEF Reads
      <4> QED BY <4>1, <4>2, <4>3, <4>4 DEF MatchesFrom, Special
    <3> QED BY <3>1, <3>2
  <2> QED BY <2>1, <2>7, <2>12, <2>13
<1>13. PICK T : T = {k \in 0 .. L : from[p[k] + 2] = SubSeq(args, k + 1, L)}
  OBVIOUS
<1>14. L \in T
  <2>1. PICK i \in Nat : i = p[L] + 2
    BY <1>7
  <2>2. i \in 1 .. Len(s) + 1 /\ i > Len(s)
    BY <1>7, <1>8, <2>1
  <2>3. from[i] = <<>>
    BY <1>10, <2>2 DEF MatchesFrom, Reads
  <2>4. SubSeq(args, L + 1, L) = <<>>
    BY SubSeqEmpty
  <2>5. L \in 0 .. L
    OBVIOUS
  <2> QED BY <1>13, <2>1, <2>3, <2>4, <2>5
<1>15. ASSUME NEW k \in 1 .. L, k \in T PROVE k - 1 \in T
  <2>1. from[p[k - 1] + 2] = <<args[k]>> \o SubSeq(args, k + 1, L)
    BY <1>12, <1>13, <1>15
  <2>2. SubSeq(args, k, L) = <<args[k]>> \o SubSeq(args, k + 1, L)
    <3>1. args \in Seq(Arguments(S)) /\ k \in 1 .. Len(args) /\ L \in k .. Len(args)
      BY <1>1
    <3> QED BY <3>1, SubSeqRecursiveFirst
  <2>3. k - 1 \in 0 .. L /\ (k - 1) + 1 = k
    OBVIOUS
  <2> QED BY <1>13, <2>1, <2>2, <2>3
<1>16. 0 \in T
  <2>1. 0 .. L \subseteq T
    BY <1>14, <1>15, InductDown
  <2> QED BY <2>1
<1>17. from[2] = args
  <2>1. SubSeq(args, 1, L) = args
    BY <1>1, SubSeqFull
  <2>2. from[p[0] + 2] = SubSeq(args, 0 + 1, L)
    BY <1>13, <1>16
  <2> QED BY <1>7, <2>1, <2>2
<1>18. from[1] = from[2]
  <2>1. 1 \in 1 .. Len(s) + 1 /\ ~ (1 > Len(s)) /\ s[1] \in Special
    BY <1>7, <1>8 DEF Special
  <2>2. from[1] = MatchesFrom(from, s, 1)
    BY <1>10, <2>1 DEF Reads
  <2> QED BY <2>1, <2>2 DEF MatchesFrom
<1> QED BY <1>9, <1>10, <1>17, <1>18

(* An escape that is malformed in one of two strings is so in both         *)
(* together, and no other.                                                 *)
LEMMA FailsIn ==
  ASSUME NEW S, NEW a \in Seq(S), NEW b \in Seq(S)
  PROVE  Fails(a \o b) <=> Fails(a) \/ Fails(b)
<1>1. PICK l \in Nat, n \in Nat : l = Len(a) /\ n = Len(b)
  OBVIOUS
<1>2. PICK c \in Seq(S) : c = a \o b /\ Len(c) = l + n /\ At(c, 0, a) /\ At(c, l, b)
  BY <1>1, Placed
<1>3. DOMAIN a = 1 .. l /\ DOMAIN b = 1 .. n /\ DOMAIN c = 1 .. (l + n)
  BY <1>1, <1>2
<1>4. \A i \in 1 .. l : i \in 1 .. (l + n) /\ c[i] = a[i]
  <2>1. \A i \in 1 .. l : 0 + i = i /\ i \in 1 .. (l + n) /\ c[0 + i] = a[i]
    BY <1>1, <1>2 DEF At
  <2> QED BY <2>1
<1>5. \A i \in 1 .. n : l + i \in 1 .. (l + n) /\ c[l + i] = b[i]
  BY <1>1, <1>2 DEF At
<1>6. ASSUME NEW j \in 1 .. (l + n), j \notin 1 .. l
      PROVE  \E i \in 1 .. n : j = l + i
  <2>1. j - l \in 1 .. n /\ j = l + (j - l)
    BY <1>6
  <2> QED BY <2>1
<1>7. Fails(c) <=> Fails(a) \/ Fails(b)
  <2>1. Fails(a) => Fails(c)
    BY <1>3, <1>4 DEF Fails
  <2>2. Fails(b) => Fails(c)
    BY <1>3, <1>5 DEF Fails
  <2>3. ASSUME NEW j \in 1 .. (l + n), c[j] = "%" PROVE Fails(a) \/ Fails(b)
    <3>1. CASE j \in 1 .. l
      BY <1>3, <1>4, <2>3, <3>1 DEF Fails
    <3>2. CASE j \notin 1 .. l
      BY <1>3, <1>5, <1>6, <2>3, <3>2 DEF Fails
    <3> QED BY <3>1, <3>2
  <2> QED BY <1>3, <2>1, <2>2, <2>3 DEF Fails
<1> QED BY <1>2, <1>7

(* lib/base/http.ts, queryArgs(): however many arguments are written, with *)
(* "=" and "?" in their values too, it returns the first of each name with *)
(* its value, but none whose name every object has, and throws if and only *)
(* if an escape is malformed.  (A value with "&" in it has to be escaped,   *)
(* and a name that is empty is none.)                                      *)
THEOREM ArgumentsAreRead ==
  ASSUME NEW S, Special \subseteq S, NEW args \in Seq(Arguments(S))
  PROVE  QueryIsRead(args)
<1> DEFINE L == Len(args)
           names == {Decode(args[i].name) : i \in DOMAIN args}
           Of(n) == {i \in DOMAIN args : Decode(args[i].name) = n}
           read == QueryArgs(Written(args))
<1>1. L \in Nat /\ DOMAIN args = 1 .. L
  OBVIOUS
<1>2. \A i \in DOMAIN args : args[i].name \in Seq(S) /\ args[i].value \in Seq(S)
  BY DEF Arguments
<1>3. Matches(Written(args)) = args
  BY ReadsBack
<1>4. /\ read.throws = \E i \in DOMAIN args : Fails(args[i].name) \/ Fails(args[i].value)
      /\ read.args = [n \in names \ Inherited |-> Decode(args[Min(Of(n))].value)]
  BY <1>3 DEF QueryArgs
<1>5. read.throws <=> \E i \in DOMAIN args : Fails(args[i].name \o args[i].value)
  BY <1>2, <1>4, FailsIn
<1>6. ASSUME NEW n \in names \ Inherited
      PROVE  \E i \in DOMAIN args :
               /\ Decode(args[i].name) = n /\ read.args[n] = Decode(args[i].value)
               /\ \A j \in 1 .. i - 1 : Decode(args[j].name) # n
  <2>1. Of(n) \subseteq 1 .. L /\ Of(n) # {}
    BY <1>1
  <2>2. PICK T : T = Of(n)
    OBVIOUS
  <2>3. T \subseteq Nat /\ T # {}
    BY <1>1, <2>1, <2>2
  <2>4. Min(T) \in T /\ \A j \in T : Min(T) <= j
    BY <2>3, MinIsLeast
  <2>5. PICK i \in 1 .. L : i = Min(T) /\ i \in T
    BY <2>1, <2>2, <2>4
  <2>6. \A j \in 1 .. i - 1 : j \in 1 .. L /\ ~ (i <= j)
    BY <1>1, <2>5
  <2>7. \A j \in 1 .. i - 1 : Decode(args[j].name) # n
    BY <1>1, <2>2, <2>4, <2>5, <2>6
  <2>8. read.args[n] = Decode(args[i].value)
    BY <1>4, <2>2, <2>5
  <2> QED BY <1>1, <2>2, <2>5, <2>7, <2>8
<1> QED BY <1>4, <1>5, <1>6 DEF QueryIsRead

-----------------------------------------------------------------------------
(* Texts *)

(* What is known of a sequence from its end.                               *)
LEMMA FromTheEnd ==
  ASSUME NEW S, NEW s \in Seq(S), NEW f, f[Len(s)] = <<>>,
         \A k \in 1 .. Len(s) : f[k - 1] = <<s[k]>> \o f[k]
  PROVE  f[0] = s
<1>1. PICK L \in Nat : L = Len(s)
  OBVIOUS
<1>2. PICK T : T = {k \in 0 .. L : f[k] = SubSeq(s, k + 1, L)}
  OBVIOUS
<1>3. L \in T
  <2>1. SubSeq(s, L + 1, L) = <<>>
    BY SubSeqEmpty
  <2>2. L \in 0 .. L
    OBVIOUS
  <2> QED BY <1>1, <1>2, <2>1, <2>2
<1>4. ASSUME NEW k \in 1 .. L, k \in T PROVE k - 1 \in T
  <2>1. f[k - 1] = <<s[k]>> \o SubSeq(s, k + 1, L)
    BY <1>1, <1>2, <1>4
  <2>2. SubSeq(s, k, L) = <<s[k]>> \o SubSeq(s, k + 1, L)
    <3>1. s \in Seq(S) /\ k \in 1 .. Len(s) /\ L \in k .. Len(s)
      BY <1>1
    <3> QED BY <3>1, SubSeqRecursiveFirst
  <2>3. k - 1 \in 0 .. L /\ (k - 1) + 1 = k
    OBVIOUS
  <2> QED BY <1>2, <2>1, <2>2, <2>3
<1>5. 0 \in T
  <2>1. 0 .. L \subseteq T
    BY <1>3, <1>4, InductDown
  <2> QED BY <2>1
<1>6. SubSeq(s, 1, L) = s
  BY <1>1, SubSeqFull
<1>7. f[0] = SubSeq(s, 0 + 1, L)
  BY <1>2, <1>5
<1> QED BY <1>6, <1>7

(* Each item of u is one of one of the sequences, at its place.            *)
ComesFrom(u, ss, p) ==
  \A j \in 1 .. Len(u) :
    \E k \in 1 .. Len(ss) : \E i \in 1 .. Len(ss[k]) : j = p[k - 1] + i /\ u[j] = ss[k][i]

(* So it is with what FlattenSeq() makes.                                  *)
LEMMA InPiece ==
  ASSUME NEW S, NEW ss \in Seq(Seq(S)), NEW u \in Seq(S),
         NEW p \in [0 .. Len(ss) -> Nat], Layout(p, ss, u)
  PROVE  ComesFrom(u, ss, p)
<1> USE DEF ComesFrom
<1> TAKE j \in 1 .. Len(u)
<1>1. PICK L \in Nat : L = Len(ss)
  OBVIOUS
<1>2. p[0] = 0 /\ p[L] = Len(u) /\ p \in [0 .. L -> Nat]
  BY <1>1 DEF Layout
<1>3. PICK T : T = {k \in 0 .. L : j <= p[k]}
  OBVIOUS
<1>4. L \in T /\ 0 \notin T
  <2>1. L \in 0 .. L /\ ~ (j <= 0) /\ j <= Len(u)
    OBVIOUS
  <2> QED BY <1>2, <1>3, <2>1
<1>5. T \in SUBSET Nat
  BY <1>3
<1>6. PICK k \in T : \A h \in T : k <= h
  BY <1>4, <1>5, HasLeast
<1>7. k \in 1 .. L /\ k - 1 \in 0 .. L
  BY <1>3, <1>4
<1>8. k - 1 \notin T
  <2>1. ~ (k <= k - 1)
    BY <1>7
  <2> QED BY <1>6, <2>1
<1>9. PICK m \in Nat, n \in Nat, t \in Seq(S) : m = p[k - 1] /\ n = p[k] /\ t = ss[k]
  <2>1. p[k - 1] \in Nat /\ p[k] \in Nat
    BY <1>2, <1>7
  <2>2. ss[k] \in Seq(S)
    BY <1>1, <1>7
  <2> QED BY <2>1, <2>2
<1>10. n = m + Len(t) /\ At(u, m, t) /\ j <= n /\ ~ (j <= m)
  BY <1>1, <1>3, <1>7, <1>8, <1>9 DEF Layout
<1>11. PICK i \in 1 .. Len(t) : i = j - m
  <2>1. j - m \in 1 .. Len(t)
    BY <1>10
  <2> QED BY <2>1
<1>12. u[m + i] = t[i] /\ m + i = j
  BY <1>10, <1>11 DEF At
<1> QED BY <1>1, <1>7, <1>9, <1>11, <1>12

-----------------------------------------------------------------------------
(* e()                                                                     *)

(* The names of the entities.                                              *)
EntityNames == {"amp;", "lt;", "gt;", "quot;", "#39;"}

(* The entities of different characters have different names.              *)
LEMMA EntitiesAre ==
  /\ DOMAIN Entities = {"&", "<", ">", "\"", "'"}
  /\ \A c \in DOMAIN Entities : Entities[c] = <<"&", Entities[c][2]>> /\ Entities[c][2] \in EntityNames
  /\ \A c, d \in DOMAIN Entities : Entities[c][2] = Entities[d][2] => c = d
  /\ EntityNames \cap DOMAIN Entities = {}
<1>1. DOMAIN Entities = {"&", "<", ">", "\"", "'"}
  BY DEF Entities
<1>2. /\ Entities["&"] = <<"&", "amp;">> /\ Entities["<"] = <<"&", "lt;">>
      /\ Entities[">"] = <<"&", "gt;">> /\ Entities["\""] = <<"&", "quot;">>
      /\ Entities["'"] = <<"&", "#39;">>
  BY DEF Entities
<1>6. /\ Entities["&"][2] = "amp;" /\ Entities["<"][2] = "lt;" /\ Entities[">"][2] = "gt;"
      /\ Entities["\""][2] = "quot;" /\ Entities["'"][2] = "#39;"
  <2>1. \A a, b : <<a, b>>[2] = b
    OBVIOUS
  <2>2. Entities["&"][2] = "amp;"
    BY <1>2, <2>1
  <2>3. Entities["<"][2] = "lt;"
    BY <1>2, <2>1
  <2>4. Entities[">"][2] = "gt;"
    BY <1>2, <2>1
  <2>5. Entities["\""][2] = "quot;"
    BY <1>2, <2>1
  <2>6. Entities["'"][2] = "#39;"
    BY <1>2, <2>1
  <2> QED BY <2>2, <2>3, <2>4, <2>5, <2>6
<1>3. EntityNames \cap DOMAIN Entities = {}
  BY <1>1 DEF EntityNames
<1>4. \A c \in DOMAIN Entities : Entities[c] = <<"&", Entities[c][2]>> /\ Entities[c][2] \in EntityNames
  BY <1>1, <1>2, <1>6 DEF EntityNames
<1>5. \A c, d \in DOMAIN Entities : Entities[c][2] = Entities[d][2] => c = d
  BY <1>1, <1>6
<1> QED BY <1>1, <1>3, <1>4, <1>5

(* Where an entity begins.                                                 *)
LEMMA EntityAt ==
  ASSUME NEW S, NEW s \in Seq(S), NEW i \in 1 .. Len(s), NEW c \in DOMAIN Entities
  PROVE  IsPrefix(Entities[c], SubSeq(s, i, Len(s)))
           <=> i + 1 \in 1 .. Len(s) /\ s[i] = "&" /\ s[i + 1] = Entities[c][2]
<1>1. PICK n : Entities[c] = <<"&", n>> /\ n = Entities[c][2]
  BY EntitiesAre
<1>2. PICK t \in Seq(S) : t = SubSeq(s, i, Len(s)) /\ Len(t) = Len(s) - i + 1
                          /\ \A j \in 1 .. Len(s) - i + 1 : t[j] = s[i + j - 1]
  <2>1. PICK n1 \in Int : n1 = Len(s) /\ i \in Int /\ i <= n1 /\ \A j \in i .. n1 : s[j] \in S
    OBVIOUS
  <2>2. PICK t : t = SubSeq(s, i, n1)
    OBVIOUS
  <2>3. t \in Seq(S) /\ Len(t) = n1 - i + 1 /\ \A j \in 1 .. n1 - i + 1 : t[j] = s[i + j - 1]
    BY <2>1, <2>2, SubSeqProperties
  <2> QED BY <2>1, <2>2, <2>3
<1>3. Len(s) \in Nat /\ Len(t) \in Nat
  OBVIOUS
<1>4. PICK e : e = Entities[c] /\ Len(e) = 2 /\ e[1] = "&" /\ e[2] = n /\ SubSeq(e, 1, 2) = e
               /\ e = <<"&", n>>
  <2> DEFINE x == <<"&", n>>
  <2>1. x \in Seq({"&", n}) /\ Len(x) = 2 /\ x[1] = "&" /\ x[2] = n
    OBVIOUS
  <2>2. x = Entities[c] /\ x = <<"&", n>>
    BY <1>1
  <2> HIDE DEF x
  <2>3. SubSeq(x, 1, 2) = x
    BY <2>1, SubSeqFull
  <2> QED BY <2>1, <2>2, <2>3
<1>5. ASSUME 2 <= Len(t) PROVE e = SubSeq(t, 1, 2) <=> s[i] = "&" /\ s[i + 1] = n
  <2>1. 1 \in 1 .. Len(s) - i + 1 /\ 2 \in 1 .. Len(s) - i + 1 /\ i + 1 - 1 = i /\ i + 2 - 1 = i + 1
    BY <1>2, <1>3, <1>5
  <2>2. t[1] = s[i] /\ t[2] = s[i + 1]
    BY <1>2, <2>1
  <2>3. PICK x : x = SubSeq(t, 1, 2)
    OBVIOUS
  <2>4. x \in Seq(S) /\ Len(x) = 2 /\ \A j \in 1 .. 2 : x[j] = t[1 + j - 1]
    <3>1. \A j \in 1 .. 2 : t[j] \in S
      BY <1>3, <1>5
    <3> QED BY <2>3, <3>1, SubSeqProperties
  <2>5. x[1] = t[1] /\ x[2] = t[2]
    BY <2>4
  <2>6. CASE e = x
    BY <1>4, <2>2, <2>3, <2>5, <2>6
  <2>7. CASE s[i] = "&" /\ s[i + 1] = n
    <3>1. x \in Seq(S \cup {"&", n}) /\ e \in Seq(S \cup {"&", n})
      BY <1>4, <2>4
    <3>2. Len(e) = Len(x) /\ \A j \in 1 .. Len(e) : e[j] = x[j]
      BY <1>4, <2>2, <2>4, <2>5, <2>7
    <3> QED BY <2>3, <2>7, <3>1, <3>2, SeqEqual, <1>4, <2>2, <2>5
  <2> QED BY <2>3, <2>6, <2>7
<1>6. 2 <= Len(t) <=> i + 1 \in 1 .. Len(s)
  BY <1>2, <1>3
<1>7. IsPrefix(e, t) <=> 2 <= Len(t) /\ e = SubSeq(t, 1, 2)
  BY <1>4 DEF IsPrefix
<1>8. IsPrefix(e, t) <=> 2 <= Len(t) /\ s[i] = "&" /\ s[i + 1] = n
  BY <1>5, <1>7
<1> QED BY <1>1, <1>2, <1>4, <1>6, <1>8

(* Where an entity begins, and which one.                                  *)
HasEntity(s, i) == \E c \in DOMAIN Entities : IsPrefix(Entities[c], SubSeq(s, i, Len(s)))
(* That character.                                                         *)
Meant(s, i) == CHOOSE c \in DOMAIN Entities : IsPrefix(Entities[c], SubSeq(s, i, Len(s)))

(* What a browser shows from the i-th character on, if "from" says that of *)
(* the later ones.                                                         *)
DecodedFrom(from, s, i) ==
  IF i > Len(s) THEN <<>>
  ELSE IF HasEntity(s, i) THEN <<Meant(s, i)>> \o from[i + 2]
  ELSE <<s[i]>> \o from[i + 1]

(* A browser reads according to these equations.                           *)
LEMMA DecodedIs ==
  ASSUME NEW S, NEW s \in Seq(S), DOMAIN Entities \subseteq S
  PROVE  \E from : /\ Decoded(s) = from[1]
                   /\ \A i \in 1 .. Len(s) + 2 : from[i] = DecodedFrom(from, s, i)
<1> DEFINE D == 1 .. Len(s) + 2
           V == Seq(S)
           Eq(g) == g = [i \in D |-> DecodedFrom(g, s, i)]
           G == CHOOSE g : Eq(g)
           H == [i \in D |-> [g \in [D -> V] |-> DecodedFrom(g, s, i)]]
           rk == [i \in D |-> Len(s) + 2 - i]
           L == Len(s) + 2
<1>1. Len(s) \in Nat /\ L \in Nat /\ 1 \in D /\ \A i \in D : i \in Nat
  OBVIOUS
<1>2. Decoded(s) = G[1]
  BY DEF Decoded, DecodedFrom, HasEntity, Meant
<1>3. \A i \in D : ~ (i > Len(s)) =>
        /\ i + 1 \in D /\ i + 2 \in D /\ i + 1 > i /\ i + 2 > i
        /\ s[i] \in S
  BY <1>1
<1>b. \A i \in D : HasEntity(s, i) => Meant(s, i) \in S
  BY DEF HasEntity, Meant
<1>4. rk \in [D -> 0 .. L] /\ \A i \in D : rk[i] = L - i
  BY <1>1
<1>5. \A i \in D, g \in [D -> V] : H[i][g] = DecodedFrom(g, s, i)
  OBVIOUS
<1>6. ASSUME NEW i \in D, NEW g \in [D -> V] PROVE DecodedFrom(g, s, i) \in V
  <2>1. CASE i > Len(s)
    BY <2>1 DEF DecodedFrom
  <2>2. CASE ~ (i > Len(s)) /\ HasEntity(s, i)
    <3>1. g[i + 2] \in V /\ Meant(s, i) \in S
      BY <1>3, <1>b, <2>2
    <3>2. <<Meant(s, i)>> \in V
      BY <3>1
    <3>3. <<Meant(s, i)>> \o g[i + 2] \in V
      BY <3>1, <3>2, ConcatProperties
    <3> QED BY <2>2, <3>3 DEF DecodedFrom
  <2>3. CASE ~ (i > Len(s)) /\ ~HasEntity(s, i)
    <3>1. g[i + 1] \in V /\ s[i] \in S
      BY <1>3, <2>3
    <3>2. <<s[i]>> \in V
      BY <3>1
    <3>3. <<s[i]>> \o g[i + 1] \in V
      BY <3>1, <3>2, ConcatProperties
    <3> QED BY <2>3, <3>3 DEF DecodedFrom
  <2> QED BY <2>1, <2>2, <2>3
<1>7. H \in [D -> [[D -> V] -> V]]
  <2>1. \A i \in D : H[i] \in [[D -> V] -> V]
    <3>1. ASSUME NEW i \in D PROVE H[i] \in [[D -> V] -> V]
      <4>1. H[i] = [g \in [D -> V] |-> DecodedFrom(g, s, i)]
        OBVIOUS
      <4> HIDE DEF H, D, V
      <4> QED BY <1>6, <4>1
    <3> QED BY <3>1
  <2>2. H = [i \in D |-> H[i]]
    OBVIOUS
  <2> HIDE DEF H, D, V
  <2> QED BY <2>1, <2>2
<1>8. V # {}
  <2>1. <<>> \in V
    OBVIOUS
  <2> QED BY <2>1
<1> HIDE DEF H, D, V, rk, L, G
<1>9. ASSUME NEW i \in D, NEW g \in [D -> V], NEW h \in [D -> V],
             \A j \in D : rk[j] < rk[i] => g[j] = h[j]
      PROVE  H[i][g] = H[i][h]
  <2>1. \A j \in D : j > i => g[j] = h[j]
    BY <1>1, <1>4, <1>9
  <2>2. DecodedFrom(g, s, i) = DecodedFrom(h, s, i)
    BY <1>3, <2>1 DEF DecodedFrom
  <2> QED BY <1>5, <2>2
<1>10. Local(D, V, rk, H)
  BY <1>9 DEF Local
<1>11. PICK f \in [D -> V] : Solves(f, D, H)
  BY <1>1, <1>4, <1>7, <1>8, <1>10, Recursion
<1>12. Eq(f)
  <2>1. \A i \in D : f[i] = DecodedFrom(f, s, i)
    BY <1>5, <1>11 DEF Solves
  <2> QED BY <2>1
<1>13. Eq(G)
  BY <1>12 DEF G
<1>14. \A i \in D : G[i] = DecodedFrom(G, s, i)
  BY <1>13
<1> QED BY <1>2, <1>14 DEF D

(* What e() makes of one character.                                        *)
Escaped(c) == IF c \in DOMAIN Entities THEN Entities[c] ELSE <<c>>

(* Of that, only "&" is markup.                                            *)
LEMMA EscapedIs ==
  ASSUME NEW S, EntityNames \cup DOMAIN Entities \subseteq S, NEW c \in S
  PROVE  /\ Escaped(c) \in Seq(S)
         /\ \A i \in 1 .. Len(Escaped(c)) : Escaped(c)[i] \in DOMAIN Entities => Escaped(c)[i] = "&"
         /\ IF c \in DOMAIN Entities
            THEN Len(Escaped(c)) = 2 /\ Escaped(c)[1] = "&" /\ Escaped(c)[2] = Entities[c][2]
            ELSE Len(Escaped(c)) = 1 /\ Escaped(c)[1] = c
<1>1. CASE c \in DOMAIN Entities
  <2>1. PICK n \in EntityNames : n = Entities[c][2] /\ Entities[c] = <<"&", n>>
    BY <1>1, EntitiesAre
  <2>2. n \notin DOMAIN Entities /\ n \in S /\ "&" \in S
    BY EntitiesAre
  <2> DEFINE x == <<"&", n>>
  <2>3. x \in Seq(S) /\ Len(x) = 2 /\ x[1] = "&" /\ x[2] = n
    BY <2>2
  <2>4. Escaped(c) = x
    BY <1>1, <2>1 DEF Escaped
  <2> HIDE DEF x
  <2>5. \A i \in 1 .. 2 : i = 1 \/ i = 2
    OBVIOUS
  <2> QED BY <1>1, <2>1, <2>2, <2>3, <2>4, <2>5
<1>2. CASE c \notin DOMAIN Entities
  <2> DEFINE x == <<c>>
  <2>1. x \in Seq(S) /\ Len(x) = 1 /\ x[1] = c
    OBVIOUS
  <2>2. Escaped(c) = x
    BY <1>2 DEF Escaped
  <2> HIDE DEF x
  <2>3. \A i \in 1 .. 1 : i = 1
    OBVIOUS
  <2> QED BY <1>2, <2>1, <2>2, <2>3
<1> QED BY <1>1, <1>2

(* What e() returns is laid out in pieces.                                 *)
LEMMA EscapedLies ==
  ASSUME NEW S, EntityNames \cup DOMAIN Entities \subseteq S, NEW s \in Seq(S)
  PROVE  /\ E(s) \in Seq(S)
         /\ \A j \in 1 .. Len(E(s)) : E(s)[j] \in DOMAIN Entities => E(s)[j] = "&"
         /\ \E p \in [0 .. Len(s) -> Nat] :
              /\ p[0] = 0 /\ Len(E(s)) = p[Len(s)]
              /\ \A k \in 1 .. Len(s) : /\ p[k] = p[k - 1] + Len(Escaped(s[k]))
                                        /\ At(E(s), p[k - 1], Escaped(s[k]))
<1>1. PICK L \in Nat : L = Len(s)
  OBVIOUS
<1>2. DOMAIN s = 1 .. L /\ \A k \in 1 .. L : s[k] \in S
  BY <1>1
<1>3. PICK ss \in Seq(Seq(S)) : ss = [k \in 1 .. L |-> Escaped(s[k])]
  <2> DEFINE f == [k \in 1 .. L |-> Escaped(s[k])]
  <2>1. f \in [1 .. L -> Seq(S)]
    <3>1. \A k \in 1 .. L : Escaped(s[k]) \in Seq(S)
      BY <1>2, EscapedIs
    <3> QED BY <3>1
  <2> HIDE DEF f
  <2>2. f \in Seq(Seq(S))
    BY <2>1
  <2> QED BY <2>2 DEF f
<1>4. Len(ss) = L /\ \A k \in 1 .. L : ss[k] = Escaped(s[k])
  BY <1>3
<1>5. E(s) = FlattenSeq(ss)
  BY <1>2, <1>3 DEF E, Escaped
<1>6. PICK u \in Seq(S), p \in [0 .. Len(ss) -> Nat] : u = E(s) /\ Layout(p, ss, u)
  BY <1>5, Flattened
<1>7. /\ p \in [0 .. L -> Nat] /\ p[0] = 0 /\ Len(u) = p[L]
      /\ \A k \in 1 .. L : p[k] = p[k - 1] + Len(Escaped(s[k])) /\ At(u, p[k - 1], Escaped(s[k]))
  BY <1>4, <1>6 DEF Layout
<1>8. ASSUME NEW j \in 1 .. Len(u), u[j] \in DOMAIN Entities PROVE u[j] = "&"
  <2>1. Layout(p, ss, u)
    BY <1>6
  <2>2. ComesFrom(u, ss, p)
    BY <2>1, InPiece
  <2>3. PICK k \in 1 .. Len(ss) : \E i \in 1 .. Len(ss[k]) : u[j] = ss[k][i]
    BY <2>2 DEF ComesFrom
  <2>4. PICK c \in S : c = s[k] /\ ss[k] = Escaped(c)
    BY <1>2, <1>4
  <2>5. PICK i \in 1 .. Len(Escaped(c)) : u[j] = Escaped(c)[i]
    BY <2>3, <2>4
  <2>6. Escaped(c)[i] \in DOMAIN Entities => Escaped(c)[i] = "&"
    BY EscapedIs
  <2> QED BY <1>8, <2>5, <2>6
<1> QED BY <1>1, <1>6, <1>7, <1>8

(* base.ts, e(): of every text, nothing is left that is markup, and what a *)
(* browser shows is the text.                                              *)
LEMMA Escapes ==
  ASSUME NEW S, EntityNames \cup DOMAIN Entities \subseteq S, NEW s \in Seq(S)
  PROVE  EscapeShows(s)
<1>1. PICK L \in Nat : L = Len(s)
  OBVIOUS
<1>2. PICK u \in Seq(S), p \in [0 .. L -> Nat] :
        /\ u = E(s) /\ p[0] = 0 /\ Len(u) = p[L]
        /\ \A j \in 1 .. Len(u) : u[j] \in DOMAIN Entities => u[j] = "&"
        /\ \A k \in 1 .. L : /\ p[k] = p[k - 1] + Len(Escaped(s[k]))
                             /\ At(u, p[k - 1], Escaped(s[k]))
  BY <1>1, EscapedLies
<1>3. PICK from : /\ Decoded(u) = from[1]
                  /\ \A i \in 1 .. Len(u) + 2 : from[i] = DecodedFrom(from, u, i)
  BY DecodedIs
<1>4. ASSUME NEW k \in 1 .. L
      PROVE  from[p[k - 1] + 1] = <<s[k]>> \o from[p[k] + 1]
  <2>1. PICK m \in Nat, n \in Nat, c \in S : m = p[k - 1] /\ n = p[k] /\ c = s[k]
    <3>1. k - 1 \in 0 .. L /\ k \in 0 .. L
      OBVIOUS
    <3>2. p[k - 1] \in Nat /\ p[k] \in Nat
      BY <3>1
    <3>3. s[k] \in S
      BY <1>1
    <3> QED BY <3>2, <3>3
  <2>2. PICK t \in Seq(S) : t = Escaped(c)
    BY EscapedIs
  <2>3. n = m + Len(t) /\ At(u, m, t)
    BY <1>2, <2>1, <2>2
  <2>4. PICK i \in Nat : i = m + 1
    OBVIOUS
  <2>5. CASE c \in DOMAIN Entities
    <3>1. Len(t) = 2 /\ t[1] = "&" /\ t[2] = Entities[c][2]
      BY <2>2, <2>5, EscapedIs
    <3>2. u[m + 1] = t[1] /\ u[m + 2] = t[2] /\ m + 2 <= Len(u)
      BY <2>3, <3>1 DEF At
    <3>3. i \in 1 .. Len(u) /\ i + 1 \in 1 .. Len(u) /\ i + 1 = m + 2 /\ i \in 1 .. Len(u) + 2
          /\ ~ (i > Len(u)) /\ i + 2 = n + 1
      BY <2>3, <2>4, <3>1, <3>2
    <3>4. \A d \in DOMAIN Entities :
            IsPrefix(Entities[d], SubSeq(u, i, Len(u))) <=> Entities[d][2] = Entities[c][2]
      BY <2>4, <3>1, <3>2, <3>3, EntityAt
    <3>5. \A d \in DOMAIN Entities :
            IsPrefix(Entities[d], SubSeq(u, i, Len(u))) <=> d = c
      BY <2>5, <3>4, EntitiesAre
    <3>6. HasEntity(u, i) /\ Meant(u, i) = c
      BY <2>5, <3>5 DEF HasEntity, Meant
    <3>7. from[i] = <<c>> \o from[i + 2]
      BY <1>3, <3>3, <3>6 DEF DecodedFrom
    <3> QED BY <2>1, <2>4, <3>3, <3>7
  <2>6. CASE c \notin DOMAIN Entities
    <3>1. Len(t) = 1 /\ t[1] = c
      BY <2>2, <2>6, EscapedIs
    <3>2. u[m + 1] = t[1] /\ m + 1 <= Len(u)
      BY <2>3, <3>1 DEF At
    <3>3. i \in 1 .. Len(u) /\ i \in 1 .. Len(u) + 2 /\ ~ (i > Len(u)) /\ i + 1 = n + 1
      BY <2>3, <2>4, <3>1, <3>2
    <3>4. u[i] = c /\ u[i] # "&"
      BY <2>4, <2>6, <3>1, <3>2, EntitiesAre
    <3>5. ~HasEntity(u, i)
      BY <3>3, <3>4, EntityAt DEF HasEntity
    <3>6. from[i] = <<c>> \o from[i + 1]
      BY <1>3, <3>3, <3>4, <3>5 DEF DecodedFrom
    <3> QED BY <2>1, <2>4, <3>3, <3>6
  <2> QED BY <2>5, <2>6
<1>5. PICK f : f = [k \in 0 .. L |-> from[p[k] + 1]]
  OBVIOUS
<1>6. f[Len(s)] = <<>>
  <2>1. PICK i \in Nat : i = p[L] + 1
    <3>1. p[L] \in Nat
      OBVIOUS
    <3> QED BY <3>1
  <2>2. i \in 1 .. Len(u) + 2 /\ i > Len(u)
    BY <1>2, <2>1
  <2>3. from[i] = <<>>
    BY <1>3, <2>2 DEF DecodedFrom
  <2> QED BY <1>1, <1>5, <2>1, <2>3
<1>7. \A k \in 1 .. Len(s) : f[k - 1] = <<s[k]>> \o f[k]
  <2>1. \A k \in 1 .. L : k - 1 \in 0 .. L /\ k \in 0 .. L
    OBVIOUS
  <2> QED BY <1>1, <1>4, <1>5, <2>1
<1>8. f[0] = s
  BY <1>6, <1>7, FromTheEnd
<1>9. f[0] = from[1]
  <2>1. 0 \in 0 .. L /\ 0 + 1 = 1
    OBVIOUS
  <2> QED BY <1>2, <1>5, <2>1
<1>10. Range(u) \cap DOMAIN Entities \subseteq {"&"}
  BY <1>2 DEF Range
<1> QED BY <1>2, <1>3, <1>8, <1>9, <1>10 DEF EscapeShows

(* What SubSeq() returns lies where it was.                                *)
LEMMA CutIs ==
  ASSUME NEW S, NEW s \in Seq(S), NEW i \in Nat, NEW j \in Nat, i <= j, j <= Len(s)
  PROVE  /\ SubSeq(s, i + 1, j) \in Seq(S) /\ Len(SubSeq(s, i + 1, j)) = j - i
         /\ At(s, i, SubSeq(s, i + 1, j))
<1>1. PICK L \in Nat, h \in Nat : L = Len(s) /\ h = i + 1
  OBVIOUS
<1>2. PICK t : t = SubSeq(s, h, j)
  OBVIOUS
<1>3. /\ t \in Seq(S) /\ Len(t) = j - i
      /\ \A k \in 1 .. j - i : t[k] = s[h + k - 1]
  <2>1. \A k \in h .. j : s[k] \in S
    BY <1>1
  <2>2. h \in Int /\ j \in Int /\ Len(t) = (IF h <= j THEN j - h + 1 ELSE 0)
        /\ t \in Seq(S) /\ \A k \in 1 .. j - h + 1 : t[k] = s[h + k - 1]
    BY <1>2, <2>1, SubSeqProperties
  <2>3. j - h + 1 = j - i /\ (IF h <= j THEN j - h + 1 ELSE 0) = j - i
    BY <1>1
  <2> QED BY <2>2, <2>3
<1>4. \A k \in 1 .. j - i : h + k - 1 = i + k
  BY <1>1
<1>5. At(s, i, t)
  BY <1>1, <1>3, <1>4 DEF At
<1> QED BY <1>1, <1>2, <1>3, <1>5

-----------------------------------------------------------------------------
(* trimLR()                                                                *)

(* What a class means from its i-th character on, if "from" says that of   *)
(* the later ones.                                                         *)
RangesFrom(from, chars, i) ==
  IF i > Len(chars) THEN {}
  ELSE IF i + 2 <= Len(chars) /\ chars[i + 1] = Dash
  THEN {<<chars[i], chars[i + 2]>>} \cup from[i + 3]
  ELSE {<<chars[i], chars[i]>>} \cup from[i + 1]

(* The ranges of a class obey these equations.                             *)
LEMMA RangesAre ==
  ASSUME NEW chars \in Seq(Nat)
  PROVE  \E from : /\ Ranges(chars) = from[1]
                   /\ \A i \in 1 .. Len(chars) + 3 : from[i] = RangesFrom(from, chars, i)
<1> DEFINE D == 1 .. Len(chars) + 3
           V == SUBSET (Nat \X Nat)
           Eq(g) == g = [i \in D |-> RangesFrom(g, chars, i)]
           G == CHOOSE g : Eq(g)
           H == [i \in D |-> [g \in [D -> V] |-> RangesFrom(g, chars, i)]]
           rk == [i \in D |-> Len(chars) + 3 - i]
           L == Len(chars) + 3
<1>1. Len(chars) \in Nat /\ L \in Nat /\ 1 \in D /\ \A i \in D : i \in Nat
  OBVIOUS
<1>2. Ranges(chars) = G[1]
  BY DEF Ranges, RangesFrom
<1>3. \A i \in D : ~ (i > Len(chars)) =>
        /\ i + 1 \in D /\ i + 1 > i /\ i + 3 > i /\ chars[i] \in Nat
        /\ i + 2 <= Len(chars) => i + 3 \in D /\ chars[i + 2] \in Nat
  BY <1>1
<1>4. rk \in [D -> 0 .. L] /\ \A i \in D : rk[i] = L - i
  BY <1>1
<1>5. \A i \in D, g \in [D -> V] : H[i][g] = RangesFrom(g, chars, i)
  OBVIOUS
<1>6. ASSUME NEW i \in D, NEW g \in [D -> V] PROVE RangesFrom(g, chars, i) \in V
  <2>1. CASE i > Len(chars)
    BY <2>1 DEF RangesFrom
  <2>2. CASE ~ (i > Len(chars)) /\ i + 2 <= Len(chars) /\ chars[i + 1] = Dash
    <3>1. g[i + 3] \in V /\ chars[i] \in Nat /\ chars[i + 2] \in Nat
      BY <1>3, <2>2
    <3> QED BY <2>2, <3>1 DEF RangesFrom
  <2>3. CASE ~ (i > Len(chars)) /\ ~ (i + 2 <= Len(chars) /\ chars[i + 1] = Dash)
    <3>1. g[i + 1] \in V /\ chars[i] \in Nat
      BY <1>3, <2>3
    <3> QED BY <2>3, <3>1 DEF RangesFrom
  <2> QED BY <2>1, <2>2, <2>3
<1>7. H \in [D -> [[D -> V] -> V]]
  <2>1. \A i \in D : H[i] \in [[D -> V] -> V]
    <3>1. ASSUME NEW i \in D PROVE H[i] \in [[D -> V] -> V]
      <4>1. H[i] = [g \in [D -> V] |-> RangesFrom(g, chars, i)]
        OBVIOUS
      <4> HIDE DEF H, D, V
      <4> QED BY <1>6, <4>1
    <3> QED BY <3>1
  <2>2. H = [i \in D |-> H[i]]
    OBVIOUS
  <2> HIDE DEF H, D, V
  <2> QED BY <2>1, <2>2
<1>8. V # {}
  OBVIOUS
<1> HIDE DEF H, D, V, rk, L, G
<1>9. ASSUME NEW i \in D, NEW g \in [D -> V], NEW h \in [D -> V],
             \A j \in D : rk[j] < rk[i] => g[j] = h[j]
      PROVE  H[i][g] = H[i][h]
  <2>1. \A j \in D : j > i => g[j] = h[j]
    BY <1>1, <1>4, <1>9
  <2>2. RangesFrom(g, chars, i) = RangesFrom(h, chars, i)
    BY <1>3, <2>1 DEF RangesFrom
  <2> QED BY <1>5, <2>2
<1>10. Local(D, V, rk, H)
  BY <1>9 DEF Local
<1>11. PICK f \in [D -> V] : Solves(f, D, H)
  BY <1>1, <1>4, <1>7, <1>8, <1>10, Recursion
<1>12. Eq(f)
  <2>1. \A i \in D : f[i] = RangesFrom(f, chars, i)
    BY <1>5, <1>11 DEF Solves
  <2> QED BY <2>1
<1>13. Eq(G)
  BY <1>12 DEF G
<1>14. \A i \in D : G[i] = RangesFrom(G, chars, i)
  BY <1>13
<1> QED BY <1>2, <1>14 DEF D

(* A "-" at an end of a class makes no range.                              *)
LEMMA ClassIs ==
  ASSUME NEW chars \in Seq(Nat),
         \A i \in DOMAIN chars : chars[i] = Dash => i \in {1, Len(chars)}
  PROVE  IsClass(chars) /\ Class(chars) = Range(chars)
<1>1. PICK L \in Nat : L = Len(chars) /\ DOMAIN chars = 1 .. L
  OBVIOUS
<1>2. PICK from : /\ Ranges(chars) = from[1]
                  /\ \A i \in 1 .. L + 3 : from[i] = RangesFrom(from, chars, i)
  BY <1>1, RangesAre
<1>3. PICK T : T = {k \in 0 .. L : from[k + 1] = {<<chars[j], chars[j]>> : j \in k + 1 .. L}}
  OBVIOUS
<1>4. L \in T
  <2>1. PICK i \in Nat : i = L + 1
    OBVIOUS
  <2>2. i \in 1 .. L + 3 /\ i > L /\ i .. L = {} /\ L \in 0 .. L
    BY <2>1
  <2>3. from[i] = {}
    BY <1>1, <1>2, <2>2 DEF RangesFrom
  <2>4. {<<chars[j], chars[j]>> : j \in i .. L} = {}
    BY <2>2
  <2> QED BY <1>3, <2>1, <2>2, <2>3, <2>4
<1>5. ASSUME NEW k \in 1 .. L, k \in T PROVE k - 1 \in T
  <2>1. k \in 1 .. L + 3 /\ ~ (k > L) /\ k - 1 \in 0 .. L /\ (k - 1) + 1 = k
    OBVIOUS
  <2>2. ~ (k + 2 <= L /\ chars[k + 1] = Dash)
    <3>1. k + 2 <= L => k + 1 \in 1 .. L /\ k + 1 # 1 /\ k + 1 # L
      OBVIOUS
    <3> QED BY <1>1, <3>1
  <2>3. from[k] = {<<chars[k], chars[k]>>} \cup from[k + 1]
    BY <1>1, <1>2, <2>1, <2>2 DEF RangesFrom
  <2>4. \A j : j \in k .. L <=> j = k \/ j \in k + 1 .. L
    OBVIOUS
  <2>5. from[k] = {<<chars[j], chars[j]>> : j \in k .. L}
    BY <1>3, <1>5, <2>3, <2>4
  <2> QED BY <1>3, <2>1, <2>5
<1>6. Ranges(chars) = {<<chars[j], chars[j]>> : j \in 1 .. L}
  <2>1. 0 .. L \subseteq T
    BY <1>4, <1>5, InductDown
  <2>2. 0 \in 0 .. L /\ 0 + 1 = 1
    OBVIOUS
  <2> QED BY <1>2, <1>3, <2>1, <2>2
<1>7. \A j \in 1 .. L : chars[j] \in Nat
  BY <1>1
<1>8. \A r \in Ranges(chars) : \E j \in 1 .. L : r[1] = chars[j] /\ r[2] = chars[j]
  BY <1>6
<1>9. IsClass(chars)
  BY <1>7, <1>8 DEF IsClass
<1>10. \A n \in Nat : n .. n = {n}
  OBVIOUS
<1>11. \A r \in Ranges(chars) : \E j \in 1 .. L : r[1] .. r[2] = {chars[j]}
  BY <1>7, <1>8, <1>10
<1>12. \A j \in 1 .. L : \E r \in Ranges(chars) : r[1] .. r[2] = {chars[j]}
  <2>1. ASSUME NEW j \in 1 .. L PROVE \E r \in Ranges(chars) : r[1] .. r[2] = {chars[j]}
    <3>1. PICK n \in Nat : n = chars[j]
      BY <1>7
    <3>2. <<n, n>> \in Ranges(chars) /\ <<n, n>>[1] = n /\ <<n, n>>[2] = n
      BY <1>6, <3>1
    <3> QED BY <1>10, <3>1, <3>2
  <2> QED BY <2>1
<1>13. Class(chars) = {chars[j] : j \in 1 .. L}
  BY <1>11, <1>12 DEF Class
<1>14. Range(chars) = {chars[j] : j \in 1 .. L}
  BY <1>1 DEF Range
<1> QED BY <1>9, <1>13, <1>14

(* What is not in C, and the parts of s between which it lies.             *)
Kept(s, C) == {i \in DOMAIN s : s[i] \notin C}

(* t is s without what is in C at its ends.                                *)
Stripped(s, C, t) ==
  \E i, j \in 0 .. Len(s) :
    /\ t = SubSeq(s, i + 1, j)
    /\ Range(SubSeq(s, 1, i) \o SubSeq(s, j + 1, Len(s))) \subseteq C
    /\ i < j => {s[i + 1], s[j]} \cap C = {}

(* What is between the first and the last that is kept is that.            *)
LEMMA EndsStripped ==
  ASSUME NEW S, NEW s \in Seq(S), NEW C, NEW i \in Nat, NEW j \in Nat, i <= j, j <= Len(s),
         \A k \in 1 .. Len(s) : k <= i \/ k > j => s[k] \in C,
         i < j => s[i + 1] \notin C /\ s[j] \notin C
  PROVE  Stripped(s, C, SubSeq(s, i + 1, j))
<1>1. PICK L \in Nat : L = Len(s)
  OBVIOUS
<1>2. PICK x \in Seq(S) : x = SubSeq(s, 1, i) /\ Len(x) = i /\ At(s, 0, x)
  <2>1. PICK n \in Nat : n = 0
    OBVIOUS
  <2>2. /\ SubSeq(s, n + 1, i) \in Seq(S) /\ Len(SubSeq(s, n + 1, i)) = i - n
        /\ At(s, n, SubSeq(s, n + 1, i))
    <3>1. n <= i /\ i <= Len(s)
      BY <2>1
    <3> QED BY <3>1, CutIs
  <2>3. n + 1 = 1 /\ i - n = i
    BY <2>1
  <2> QED BY <2>1, <2>2, <2>3
<1>3. PICK y \in Seq(S) : y = SubSeq(s, j + 1, L) /\ Len(y) = L - j /\ At(s, j, y)
  <2>1. j <= L /\ L <= Len(s)
    BY <1>1
  <2> QED BY <2>1, CutIs
<1>4. PICK z \in Seq(S) : z = x \o y /\ Len(z) = Len(x) + Len(y)
                          /\ \A k \in 1 .. Len(x) + Len(y) :
                               z[k] = IF k <= Len(x) THEN x[k] ELSE y[k - Len(x)]
  <2>1. PICK z : z = x \o y
    OBVIOUS
  <2>2. z \in Seq(S) /\ Len(z) = Len(x) + Len(y)
        /\ \A k \in 1 .. Len(x) + Len(y) :
             z[k] = IF k <= Len(x) THEN x[k] ELSE y[k - Len(x)]
    BY <2>1, ConcatProperties
  <2> QED BY <2>1, <2>2
<1>5. ASSUME NEW k \in 1 .. i PROVE x[k] \in C
  <2>1. k \in 1 .. L /\ k <= i /\ 0 + k = k
    BY <1>1
  <2>2. s[0 + k] = x[k]
    BY <1>2 DEF At
  <2> QED BY <1>1, <2>1, <2>2
<1>6. ASSUME NEW k \in 1 .. L - j PROVE y[k] \in C
  <2>1. s[j + k] = y[k]
    BY <1>3 DEF At
  <2>2. PICK h \in 1 .. L : h = j + k /\ h > j
    <3>1. j + k \in 1 .. L /\ j + k > j
      BY <1>1
    <3> QED BY <3>1
  <2> QED BY <1>1, <2>1, <2>2
<1>7. ASSUME NEW k \in 1 .. Len(z) PROVE z[k] \in C
  <2>1. CASE k <= i
    BY <1>2, <1>4, <1>5, <1>7, <2>1
  <2>2. CASE ~ (k <= i)
    <3>1. k - i \in 1 .. L - j
      <4>1. PICK n \in Nat : n = L - j
        <5>1. L - j \in Nat
          BY <1>1
        <5> QED BY <5>1
      <4>2. k \in 1 .. i + n
        BY <1>2, <1>3, <1>4, <4>1
      <4> QED BY <2>2, <4>1, <4>2
    <3>2. z[k] = y[k - i]
      BY <1>2, <1>4, <2>2
    <3> QED BY <1>6, <3>1, <3>2
  <2> QED BY <2>1, <2>2
<1>8. Range(z) \subseteq C
  BY <1>7 DEF Range
<1>9. i \in 0 .. L /\ j \in 0 .. L
  BY <1>1
<1>10. Range(SubSeq(s, 1, i) \o SubSeq(s, j + 1, Len(s))) \subseteq C
  BY <1>1, <1>2, <1>3, <1>4, <1>8
<1>11. i < j => {s[i + 1], s[j]} \cap C = {}
  OBVIOUS
<1>12. i \in 0 .. Len(s) /\ j \in 0 .. Len(s)
  BY <1>1, <1>9
<1> QED BY <1>10, <1>11, <1>12 DEF Stripped

(* trimLR() returns it, for what the class means.                          *)
LEMMA TrimIs ==
  ASSUME NEW chars \in Seq(Nat), NEW s \in Seq(Nat)
  PROVE  Stripped(s, Class(chars), TrimLR(s, chars))
<1>0. PICK C : C = Class(chars)
  OBVIOUS
<1>1. PICK L \in Nat : L = Len(s) /\ C = Class(chars)
  BY <1>0
<1>2. PICK K : K = Kept(s, C)
  OBVIOUS
<1>3. K \in SUBSET Nat /\ K = {i \in 1 .. L : s[i] \notin C}
  BY <1>1, <1>2 DEF Kept
<1>4. CASE K = {}
  <2>1. TrimL(s, chars) = <<>>
    BY <1>1, <1>2, <1>4 DEF TrimL, Kept
  <2>2. TrimLR(s, chars) = <<>>
    <3>1. DOMAIN <<>> = {}
      OBVIOUS
    <3>2. {i \in DOMAIN <<>> : <<>>[i] \notin Class(chars)} = {}
      BY <3>1
    <3> QED BY <2>1, <3>2 DEF TrimLR, TrimR
  <2>3. PICK n \in Nat : n = 0
    OBVIOUS
  <2>4. n <= n /\ n <= Len(s) /\ ~ (n < n)
    BY <2>3
  <2>5. \A k \in 1 .. Len(s) : s[k] \in C
    BY <1>1, <1>3, <1>4
  <2>6. Stripped(s, C, SubSeq(s, n + 1, n))
    BY <2>4, <2>5, EndsStripped
  <2>7. SubSeq(s, n + 1, n) = <<>>
    BY SubSeqEmpty
  <2> QED BY <1>1, <2>2, <2>6, <2>7
<1>5. CASE K # {}
  <2>1. PICK a \in K : a = Min(K) /\ \A k \in K : a <= k
    BY <1>3, <1>5, MinIsLeast
  <2>2. PICK i \in Nat : i + 1 = a /\ i <= L /\ i < L
    <3>1. a - 1 \in Nat /\ a - 1 + 1 = a /\ a - 1 <= L /\ a - 1 < L
      BY <1>3
    <3> QED BY <3>1
  <2>3. PICK t \in Seq(Nat) : t = SubSeq(s, i + 1, L) /\ Len(t) = L - i /\ At(s, i, t)
    <3>1. L \in Nat /\ L <= Len(s)
      BY <1>1
    <3> QED BY <2>2, <3>1, CutIs
  <2>4. TrimL(s, chars) = t
    BY <1>1, <1>2, <1>5, <2>1, <2>2, <2>3 DEF TrimL, Kept
  <2>5. PICK M : M = Kept(t, C)
    OBVIOUS
  <2>6. PICK n \in Nat : n = L - i /\ n >= 1
    BY <2>2
  <2>7. M = {k \in 1 .. n : t[k] \notin C} /\ M \in SUBSET Nat
    BY <2>3, <2>5, <2>6 DEF Kept
  <2>8. \A k \in 1 .. n : t[k] = s[i + k] /\ i + k \in 1 .. L
    <3>1. \A k \in 1 .. n : s[i + k] = t[k]
      BY <2>3, <2>6 DEF At
    <3>2. \A k \in 1 .. n : i + k \in 1 .. L
      BY <2>2, <2>6
    <3> QED BY <3>1, <3>2
  <2>9. 1 \in M
    <3>1. 1 \in 1 .. n /\ t[1] = s[a]
      <4>1. 1 \in 1 .. n
        BY <2>6
      <4>2. t[1] = s[i + 1]
        BY <2>8, <4>1
      <4> QED BY <2>2, <4>1, <4>2
    <3>2. s[a] \notin C
      BY <1>3
    <3> QED BY <2>7, <3>1, <3>2
  <2>10. PICK b \in M : b = Max(M) /\ \A k \in M : k <= b
    <3>1. \A k \in M : k <= n
      BY <2>7
    <3>2. M # {}
      BY <2>9
    <3> QED BY <2>7, <3>1, <3>2, MaxIsLargest
  <2>11. PICK o \in Nat : o = 0
    OBVIOUS
  <2>12. b \in 1 .. n /\ b \in Nat /\ o <= b /\ b <= Len(t)
    BY <2>3, <2>6, <2>7, <2>11
  <2>13. PICK x \in Seq(Nat) : x = SubSeq(t, o + 1, b) /\ Len(x) = b - o /\ At(t, o, x)
    BY <2>12, CutIs
  <2>14. TrimLR(s, chars) = x
    <3>1. {k \in DOMAIN t : t[k] \notin Class(chars)} = M
      BY <1>1, <2>5 DEF Kept
    <3>2. TrimR(t, chars) = SubSeq(t, 1, b)
      BY <2>9, <2>10, <3>1 DEF TrimR
    <3>3. o + 1 = 1
      BY <2>11
    <3> QED BY <2>4, <2>13, <3>2, <3>3 DEF TrimLR
  <2>15. At(s, i, x)
    <3>1. At(s, i + o, x)
      BY <2>3, <2>13, Within
    <3>2. i + o = i
      BY <2>11
    <3> QED BY <3>1, <3>2
  <2>16. PICK j \in Nat : j = i + b /\ i <= j /\ j <= L /\ Len(x) = b
    <3>1. i + b \in Nat /\ i <= i + b /\ i + b <= L /\ b - o = b
      BY <2>2, <2>6, <2>11, <2>12
    <3> QED BY <2>13, <3>1
  <2>17. SubSeq(s, i + 1, j) = x
    BY <2>15, <2>16, PartIs
  <2>18. \A k \in 1 .. Len(s) : k <= i \/ k > j => s[k] \in C
    <3>1. SUFFICES ASSUME NEW k \in 1 .. L, k <= i \/ k > j, s[k] \notin C PROVE FALSE
      BY <1>1
    <3>2. k \in K
      BY <1>3, <3>1
    <3>3. ~ (k <= i)
      BY <2>1, <2>2, <3>2
    <3>4. PICK h \in 1 .. n : h = k - i
      <4>1. k - i \in 1 .. n
        BY <2>2, <2>6, <3>3
      <4> QED BY <4>1
    <3>5. i + h = k /\ h > b
      BY <2>2, <2>12, <2>16, <3>1, <3>3, <3>4
    <3>6. h \in M
      BY <2>7, <2>8, <3>1, <3>5
    <3>7. h <= b
      BY <2>10, <3>6
    <3> QED BY <2>12, <3>5, <3>7
  <2>19. s[i + 1] \notin C /\ s[j] \notin C
    <3>1. s[a] \notin C /\ t[b] \notin C
      BY <1>3, <2>7
    <3>2. t[b] = s[i + b]
      BY <2>8, <2>12
    <3> QED BY <2>2, <2>16, <3>1, <3>2
  <2>20. Stripped(s, C, SubSeq(s, i + 1, j))
    BY <1>1, <2>16, <2>18, <2>19, EndsStripped
  <2> QED BY <1>1, <2>14, <2>17, <2>20
<1> QED BY <1>4, <1>5

(* trimLR() keeps its law, for characters and texts of any length.         *)
LEMMA Trims ==
  ASSUME NEW chars \in Seq(Nat), NEW s \in Seq(Nat)
  PROVE  TrimStrips(s, chars)
<1> SUFFICES ASSUME \A i \in DOMAIN chars : chars[i] = Dash => i \in {1, Len(chars)}
             PROVE  IsClass(chars) /\ Stripped(s, Range(chars), TrimLR(s, chars))
  BY DEF TrimStrips, Stripped
<1> QED BY ClassIs, TrimIs

(* One character is a part of a sequence if it occurs in it.               *)
LEMMA OneIsPart ==
  ASSUME NEW S, NEW t \in Seq(S), NEW c
  PROVE  <<c>> \in SubSeqs(t) <=> \E k \in 1 .. Len(t) : t[k] = c
<1>1. PICK L \in Nat : L = Len(t)
  OBVIOUS
<1>2. PICK e : e = <<c>> /\ Len(e) = 1 /\ e[1] = c
  <2> DEFINE x == <<c>>
  <2>1. Len(x) = 1 /\ x[1] = c /\ x = <<c>>
    OBVIOUS
  <2> HIDE DEF x
  <2> QED BY <2>1
<1>3. ASSUME NEW i \in 0 .. L, NEW j \in 0 .. L, e = SubSeq(t, i + 1, j)
      PROVE  \E k \in 1 .. L : t[k] = c
  <2>1. CASE i < j
    <3>1. PICK x : x = SubSeq(t, i + 1, j) /\ Len(x) = j - i /\ At(t, i, x)
      <4>1. i \in Nat /\ j \in Nat /\ i <= j /\ j <= Len(t)
        BY <1>1, <2>1
      <4> QED BY <4>1, CutIs
    <3>2. t[i + 1] = c
      BY <1>2, <1>3, <2>1, <3>1 DEF At
    <3>3. i + 1 \in 1 .. L
      BY <2>1
    <3> QED BY <3>2, <3>3
  <2>2. CASE ~ (i < j)
    <3>1. i + 1 > j /\ i + 1 \in Int /\ j \in Int
      BY <2>2
    <3>2. PICK x : x = <<>> /\ Len(x) = 0
      OBVIOUS
    <3>3. SubSeq(t, i + 1, j) = x
      BY <3>1, <3>2, SubSeqEmpty
    <3>4. e = x
      BY <1>3, <3>3
    <3>5. Len(e) = 1 /\ Len(x) = 0
      BY <1>2, <3>2
    <3> QED BY <3>4, <3>5
  <2> QED BY <2>1, <2>2
<1>4. ASSUME NEW k \in 1 .. L, t[k] = c PROVE \E i, j \in 0 .. L : e = SubSeq(t, i + 1, j)
  <2>1. PICK i \in 0 .. L : i + 1 = k
    <3>1. k - 1 \in 0 .. L /\ k - 1 + 1 = k
      OBVIOUS
    <3> QED BY <3>1
  <2>2. PICK x \in Seq({c}) : x = e
    <3>1. <<c>> \in Seq({c})
      OBVIOUS
    <3> QED BY <1>2, <3>1
  <2>3. t \in Seq(S \cup {c}) /\ x \in Seq(S \cup {c})
    OBVIOUS
  <2>4. At(t, i, x)
    <3>1. i + 1 <= Len(t) /\ Len(x) = 1 /\ t[i + 1] = x[1]
      BY <1>1, <1>2, <1>4, <2>1, <2>2
    <3> QED BY <3>1 DEF At
  <2>5. SubSeq(t, i + 1, i + Len(x)) = x
    <3>1. i \in Nat
      OBVIOUS
    <3> QED BY <2>3, <2>4, <3>1, PartIs
  <2>6. i + Len(x) = k /\ k \in 0 .. L
    BY <1>2, <2>1, <2>2
  <2> QED BY <2>2, <2>5, <2>6
<1> QED BY <1>1, <1>2, <1>3, <1>4 DEF SubSeqs

(* Where c occurs first.                                                   *)
IsFirst(t, c, k) == k \in 1 .. Len(t) /\ t[k] = c /\ \A j \in 1 .. k - 1 : t[j] # c

(* A replacement of one character is one of the first of them.             *)
ReplaceOne(r, c, t) == ReplaceFirstSubSeq(r, <<c>>, t)

(* Without it nothing happens.                                             *)
LEMMA NotReplaced ==
  ASSUME NEW S, NEW t \in Seq(S), NEW c, NEW r, \A k \in 1 .. Len(t) : t[k] # c
  PROVE  ReplaceOne(r, c, t) = t
BY OneIsPart DEF ReplaceFirstSubSeq, ReplaceOne

(* With it, the rest stays as it is on both sides.                         *)
LEMMA ReplacedIs ==
  ASSUME NEW S, NEW t \in Seq(S), NEW c, NEW r, NEW k \in Nat, IsFirst(t, c, k)
  PROVE  ReplaceOne(r, c, t) = (SubSeq(t, 1, k - 1) \o r) \o SubSeq(t, k + 1, Len(t))
<1>1. PICK L \in Nat : L = Len(t)
  OBVIOUS
<1>2. k \in 1 .. L /\ t[k] = c /\ \A j \in 1 .. k - 1 : t[j] # c
  BY <1>1 DEF IsFirst
<1>3. ASSUME NEW i \in 0 .. L
      PROVE  <<c>> \in SubSeqs(SubSeq(t, 1, i)) <=> k <= i
  <2>1. PICK o \in Nat : o = 0
    OBVIOUS
  <2>2. PICK x \in Seq(S) : x = SubSeq(t, 1, i) /\ Len(x) = i /\ At(t, o, x)
    <3>1. i \in Nat /\ o <= i /\ i <= Len(t) /\ o + 1 = 1 /\ i - o = i
      BY <1>1, <2>1
    <3>2. /\ SubSeq(t, o + 1, i) \in Seq(S) /\ Len(SubSeq(t, o + 1, i)) = i - o
          /\ At(t, o, SubSeq(t, o + 1, i))
      BY <3>1, CutIs
    <3> QED BY <3>1, <3>2
  <2>3. \A j \in 1 .. i : o + j = j /\ t[o + j] = x[j]
    BY <2>1, <2>2 DEF At
  <2>4. <<c>> \in SubSeqs(x) <=> \E j \in 1 .. i : x[j] = c
    BY <2>2, OneIsPart
  <2>5. <<c>> \in SubSeqs(x) <=> \E j \in 1 .. i : t[j] = c
    BY <2>3, <2>4
  <2>6. ASSUME NEW j \in 1 .. i, t[j] = c PROVE k <= i
    <3>1. j \notin 1 .. k - 1
      BY <1>2, <2>6
    <3> QED BY <1>2, <3>1
  <2>7. k <= i => k \in 1 .. i
    BY <1>2
  <2> QED BY <1>2, <2>2, <2>5, <2>6, <2>7
<1> DEFINE Q(i) == /\ <<c>> \in SubSeqs(SubSeq(t, 1, i))
                   /\ \A j \in 0 .. i - 1 : <<c>> \notin SubSeqs(SubSeq(t, 1, j))
<1>4. ASSUME NEW i \in 0 .. L PROVE Q(i) <=> i = k
  <2>1. \A j \in 0 .. i - 1 : j \in 0 .. L
    OBVIOUS
  <2>2. Q(i) <=> k <= i /\ \A j \in 0 .. i - 1 : ~ (k <= j)
    BY <1>3, <2>1
  <2>3. k < i => k \in 0 .. i - 1 /\ k <= k
    BY <1>2
  <2>4. \A j \in 0 .. k - 1 : ~ (k <= j)
    BY <1>2
  <2> QED BY <1>2, <2>2, <2>3, <2>4
<1>5. k \in 0 .. L
  BY <1>2
<1>6. (CHOOSE i \in 0 .. L : Q(i)) = k
  <2> HIDE DEF Q
  <2> QED BY <1>4, <1>5
<1>7. Len(<<c>>) = 1
  OBVIOUS
<1>8. IndexFirstSubSeq(<<c>>, t) = k
  <2>1. IndexFirstSubSeq(<<c>>, t) = k - (Len(<<c>>) - 1)
    BY <1>1, <1>6 DEF IndexFirstSubSeq
  <2> QED BY <1>2, <1>7, <2>1
<1>9. <<c>> \in SubSeqs(t)
  BY <1>1, <1>2, OneIsPart
<1> QED BY <1>7, <1>8, <1>9 DEF ReplaceFirstSubSeq, ReplaceSubSeqAt, ReplaceOne

-----------------------------------------------------------------------------
(* lname()                                                                 *)

(* The characters lname() promises to return.                              *)
Plain == Small \cup {"-"}
(* The characters that lname() exchanges.                                  *)
Signs == {"_", " ", "-"} \cup DOMAIN Lower
(* The characters of the names it is given.                                *)
Letters == Small \cup Signs

(* They are these.                                                         *)
LEMMA LettersAre ==
  /\ Small = {"a", "b"} /\ DOMAIN Lower = {"A", "B"} /\ Lower["A"] = "a" /\ Lower["B"] = "b"
  /\ \A c \in DOMAIN Lower : Lower[c] \in Small
  /\ Plain = {"a", "b", "-"} /\ Signs = {"_", " ", "-", "A", "B"}
<1>1. DOMAIN Lower = {"A", "B"} /\ Lower["A"] = "a" /\ Lower["B"] = "b"
  BY DEF Lower
<1>2. Small = {"a", "b"}
  BY <1>1 DEF Small, Range
<1> QED BY <1>1, <1>2 DEF Plain, Signs

(* A part of a sequence that begins or ends it.                            *)
LEMMA HeadIs ==
  ASSUME NEW G, NEW s \in Seq(Letters), NEW n \in Nat, n <= Len(s), \A k \in 1 .. n : s[k] \in G
  PROVE  SubSeq(s, 1, n) \in Seq(G)
<1>1. \A k \in 1 .. n : s[k] \in G
  OBVIOUS
<1>2. 1 \in Int /\ n \in Int
  OBVIOUS
<1> QED BY <1>1, <1>2, SubSeqProperties

(* The same for the part at the end.                                       *)
LEMMA TailIs ==
  ASSUME NEW G, NEW s \in Seq(Letters), NEW n \in Nat, n >= 1,
         \A k \in 1 .. Len(s) : k >= n => s[k] \in G
  PROVE  SubSeq(s, n, Len(s)) \in Seq(G)
<1>1. PICK L \in Nat : L = Len(s)
  OBVIOUS
<1>2. \A k \in n .. L : s[k] \in G
  BY <1>1
<1>3. n \in Int /\ L \in Int
  OBVIOUS
<1>4. SubSeq(s, n, L) \in Seq(G)
  BY <1>2, <1>3, SubSeqProperties
<1> QED BY <1>1, <1>4

(* Nothing is left to replace in a plain name but repeated dashes.         *)
LEMMA PlainStays ==
  ASSUME NEW s \in Seq(Plain)
  PROVE  Underscore(s) = s /\ Hump(s) = s /\ Foreign(s) = s /\ Dashes(s) \in Seq(Plain)
<1>1. PICK L \in Nat : L = Len(s) /\ DOMAIN s = 1 .. L /\ \A k \in 1 .. L : s[k] \in Plain
  OBVIOUS
<1>2. \A k \in 1 .. L : s[k] \notin {"_", " ", "A", "B"}
  BY <1>1, LettersAre
<1>3. s \in Seq(Letters)
  <2>1. Plain \subseteq Letters
    BY LettersAre DEF Letters
  <2> QED BY <2>1
<1>4. Underscore(s) = s
  BY <1>1, <1>2, NotReplaced DEF Underscore, ReplaceOne
<1>5. Hump(s) = s
  <2>1. \A k \in 1 .. L - 1 : k + 1 \in 1 .. L
    OBVIOUS
  <2>2. {i \in 1 .. Len(s) - 1 : s[i] \in Small /\ s[i + 1] \in DOMAIN Lower} = {}
    BY <1>1, <1>2, <2>1, LettersAre
  <2> QED BY <2>2 DEF Hump
<1>6. Foreign(s) = s
  <2>1. {i \in DOMAIN s : s[i] \in {"_", " "}} = {}
    BY <1>1, <1>2
  <2> QED BY <2>1 DEF Foreign
<1>7. Dashes(s) \in Seq(Plain)
  <2>1. PICK D : D = {i \in DOMAIN s : s[i] = "-"}
    OBVIOUS
  <2>2. CASE D = {}
    BY <2>1, <2>2 DEF Dashes
  <2>3. CASE D # {}
    <3>1. D \in SUBSET Nat
      BY <1>1, <2>1
    <3>2. PICK first \in D : first = Min(D)
      BY <2>3, <3>1, MinIsLeast
    <3>3. first \in 1 .. L
      BY <1>1, <2>1
    <3>4. PICK others : others = {i \in first .. Len(s) : s[i] # "-"}
      OBVIOUS
    <3>5. PICK rest \in Seq(Plain) : rest = IF others = {} THEN <<>>
                                            ELSE SubSeq(s, Min(others), Len(s))
      <4>1. CASE others = {}
        <5>1. <<>> \in Seq(Plain)
          OBVIOUS
        <5> QED BY <4>1, <5>1
      <4>2. CASE others # {}
        <5>1. others \in SUBSET Nat
          BY <3>3, <3>4
        <5>2. PICK n \in others : n = Min(others)
          BY <4>2, <5>1, MinIsLeast
        <5>3. n \in Nat /\ n >= 1
          BY <3>3, <3>4
        <5>4. SubSeq(s, n, Len(s)) \in Seq(Plain)
          BY <1>1, <1>3, <5>3, TailIs
        <5> QED BY <4>2, <5>2, <5>4
      <4> QED BY <4>1, <4>2
    <3>6. SubSeq(s, 1, first) \in Seq(Plain)
      <4>1. first \in Nat /\ first <= Len(s) /\ \A k \in 1 .. first : s[k] \in Plain
        BY <1>1, <3>3
      <4> QED BY <1>3, <4>1, HeadIs
    <3>7. SubSeq(s, 1, first) \o rest \in Seq(Plain)
      BY <3>6, ConcatProperties
    <3>8. Dashes(s) = SubSeq(s, 1, first) \o rest
      BY <2>1, <2>3, <3>2, <3>4, <3>5 DEF Dashes
    <3> QED BY <3>7, <3>8
  <2> QED BY <2>2, <2>3
<1> QED BY <1>4, <1>5, <1>6, <1>7

(* A set of positions with a cardinality of at most one.                   *)
LEMMA AtMostOne ==
  ASSUME NEW L \in Nat, NEW T, T \subseteq 1 .. L, Cardinality(T) <= 1
  PROVE  \A i, j \in T : i = j
<1>1. IsFiniteSet(T) /\ Cardinality(T) \in Nat
  <2>1. IsFiniteSet(1 .. L)
    BY FS_Interval
  <2>2. IsFiniteSet(T)
    BY <2>1, FS_Subset
  <2> QED BY <2>2, FS_CardinalityType
<1>2. Cardinality(T) = 0 \/ Cardinality(T) = 1
  BY <1>1
<1>3. CASE Cardinality(T) = 0
  BY <1>1, <1>3, FS_EmptySet
<1>4. CASE Cardinality(T) = 1
  BY <1>1, <1>4, FS_Singleton
<1> QED BY <1>2, <1>3, <1>4

(* At most one character is a sign.                                        *)
OneSign(s) == \A i, j \in 1 .. Len(s) : s[i] \in Signs /\ s[j] \in Signs => i = j

(* That is what the law counts.                                            *)
LEMMA SignsAreFew ==
  ASSUME NEW s \in Seq(Letters), Count(s, Signs) <= 1
  PROVE  OneSign(s)
<1>1. PICK L \in Nat : L = Len(s) /\ DOMAIN s = 1 .. L
  OBVIOUS
<1>2. PICK T : T = {i \in DOMAIN s : s[i] \in Signs}
  OBVIOUS
<1>3. \A i, j \in T : i = j
  <2>1. T \subseteq 1 .. L /\ Cardinality(T) <= 1
    BY <1>1, <1>2 DEF Count
  <2> QED BY <2>1, AtMostOne
<1> QED BY <1>1, <1>2, <1>3 DEF OneSign

(* Every other character than one sign is small.                           *)
LEMMA OthersAreSmall ==
  ASSUME NEW s \in Seq(Letters), OneSign(s), NEW q \in 1 .. Len(s), s[q] \in Signs
  PROVE  \A k \in 1 .. Len(s) : k # q => s[k] \in Plain /\ s[k] \in Small
<1>1. \A k \in 1 .. Len(s) : s[k] \in Letters
  OBVIOUS
<1> QED BY <1>1 DEF OneSign, Letters, Plain

(* lname() keeps its law, for names of any length.                         *)
LEMMA Lowers ==
  ASSUME NEW s \in Seq(Letters)
  PROVE  LnameIsLower(s)
<1> SUFFICES ASSUME OneSign(s), s # <<>> => s[1] \notin DOMAIN Lower
             PROVE  Lname(s) \in Seq(Plain)
  <2>1. Lname(s) \in Seq(Plain) => Range(Lname(s)) \subseteq Plain
    BY DEF Range
  <2> QED BY <2>1, SignsAreFew DEF LnameIsLower, Plain, Signs
<1>1. PICK L \in Nat : L = Len(s) /\ DOMAIN s = 1 .. L /\ \A k \in 1 .. L : s[k] \in Letters
  OBVIOUS
<1>2. CASE \A k \in 1 .. L : s[k] \in Plain
  <2>1. s \in Seq(Plain)
    BY <1>1, <1>2
  <2> QED BY <2>1, PlainStays DEF Lname
<1>3. ASSUME NEW q \in 1 .. L, s[q] \in {"_", " ", "A", "B"} PROVE Lname(s) \in Seq(Plain)
  <2>1. \A k \in 1 .. L : k # q => s[k] \in Plain /\ s[k] \in Small
    BY <1>1, <1>3, OthersAreSmall, LettersAre
  <2>2. SubSeq(s, 1, q - 1) \in Seq(Plain)
    <3>1. q - 1 \in Nat /\ q - 1 <= Len(s) /\ \A k \in 1 .. q - 1 : s[k] \in Plain
      BY <1>1, <2>1
    <3> QED BY <3>1, HeadIs
  <2>3. SubSeq(s, q + 1, Len(s)) \in Seq(Plain)
    <3>1. q + 1 \in Nat /\ q + 1 >= 1 /\ \A k \in 1 .. Len(s) : k >= q + 1 => s[k] \in Plain
      BY <1>1, <2>1
    <3> QED BY <3>1, TailIs
  <2>4. CASE s[q] = "_"
    <3>1. IsFirst(s, "_", q)
      <4>1. \A j \in 1 .. q - 1 : j \in 1 .. L /\ j # q
        OBVIOUS
      <4> QED BY <1>1, <2>1, <2>4, <4>1, LettersAre DEF IsFirst
    <3>2. Underscore(s) = SubSeq(s, 1, q - 1) \o <<"-">> \o SubSeq(s, q + 1, Len(s))
      <4>1. Underscore(s) = ReplaceOne(<<"-">>, "_", s)
        BY DEF Underscore, ReplaceOne
      <4>2. PICK x, c : x = <<"-">> /\ c = "_"
        OBVIOUS
      <4>3. ReplaceOne(x, c, s) = SubSeq(s, 1, q - 1) \o x \o SubSeq(s, q + 1, Len(s))
        <5>1. q \in Nat
          OBVIOUS
        <5>2. IsFirst(s, c, q)
          BY <3>1, <4>2
        <5> QED BY <5>1, <5>2, ReplacedIs
      <4> QED BY <4>1, <4>2, <4>3
    <3>3. PICK x \in Seq(Plain) : x = <<"-">>
      <4>1. "-" \in Plain
        BY LettersAre
      <4>2. <<"-">> \in Seq(Plain)
        BY <4>1
      <4> QED BY <4>2
    <3>4. Underscore(s) \in Seq(Plain)
      <4>1. PICK y : y = SubSeq(s, 1, q - 1) \o x
        OBVIOUS
      <4>2. y \in Seq(Plain)
        BY <2>2, <4>1, ConcatProperties
      <4>3. y \o SubSeq(s, q + 1, Len(s)) \in Seq(Plain)
        BY <2>3, <4>2, ConcatProperties
      <4> QED BY <3>2, <3>3, <4>1, <4>3
    <3> QED BY <3>4, PlainStays DEF Lname
  <2>5. CASE s[q] # "_"
    <3>1. \A k \in 1 .. L : s[k] # "_"
      BY <1>1, <2>1, <2>5, LettersAre
    <3>2. Underscore(s) = s
      BY <1>1, <3>1, NotReplaced DEF Underscore, ReplaceOne
    <3>3. PICK H : H = {i \in 1 .. Len(s) - 1 : s[i] \in Small /\ s[i + 1] \in DOMAIN Lower}
      OBVIOUS
    <3>4. \A k \in 1 .. L : s[k] \in DOMAIN Lower => k = q
      BY <1>1, <2>1, LettersAre
    <3>5. CASE s[q] = " "
      <4>1. \A i \in 1 .. L - 1 : i + 1 \in 1 .. L
        OBVIOUS
      <4>2. H = {}
        BY <1>1, <3>3, <3>4, <3>5, <4>1, LettersAre
      <4>3. Hump(s) = s
        BY <3>3, <4>2 DEF Hump
      <4>4. {i \in DOMAIN s : s[i] \in {"_", " "}} = {q}
        BY <1>1, <2>1, <3>5, LettersAre
      <4>5. Min({q}) = q
        <5>1. {q} \in SUBSET Nat /\ {q} # {}
          OBVIOUS
        <5> QED BY <5>1, MinIsLeast
      <4>6. Foreign(s) = [s EXCEPT ![q] = "-"]
        BY <4>4, <4>5 DEF Foreign, ReplaceAt
      <4>7. [s EXCEPT ![q] = "-"] \in Seq(Plain)
        <5>1. [s EXCEPT ![q] = "-"] = [k \in 1 .. L |-> IF k = q THEN "-" ELSE s[k]]
          BY <1>1
        <5>2. [k \in 1 .. L |-> IF k = q THEN "-" ELSE s[k]] \in [1 .. L -> Plain]
          BY <2>1, LettersAre
        <5>3. PICK f \in [1 .. L -> Plain] : f = [s EXCEPT ![q] = "-"]
          BY <5>1, <5>2
        <5>4. f \in Seq(Plain)
          OBVIOUS
        <5> QED BY <5>3, <5>4
      <4> QED BY <3>2, <4>3, <4>6, <4>7, PlainStays DEF Lname
    <3>6. CASE s[q] # " "
      <4>1. s[q] \in DOMAIN Lower
        BY <1>3, <2>5, <3>6, LettersAre
      <4>2. q # 1
        <5>1. s # <<>>
          BY <1>1
        <5> QED BY <4>1, <5>1
      <4>3. PICK i \in Nat : i + 1 = q /\ i \in 1 .. L - 1 /\ i \in 1 .. L /\ i # q
                             /\ i + 2 = q + 1 /\ i = q - 1
        <5>1. q - 1 \in Nat /\ (q - 1) + 1 = q /\ q - 1 \in 1 .. L - 1 /\ q - 1 \in 1 .. L
              /\ q - 1 # q /\ (q - 1) + 2 = q + 1
          BY <4>2
        <5> QED BY <5>1
      <4>4. H = {i}
        <5>1. i \in H
          BY <1>1, <2>1, <3>3, <4>1, <4>3
        <5>2. ASSUME NEW h \in H PROVE h = i
          <6>1. h \in 1 .. L - 1 /\ h + 1 \in 1 .. L /\ s[h + 1] \in DOMAIN Lower
            BY <1>1, <3>3
          <6>2. h + 1 = q
            BY <3>4, <6>1
          <6> QED BY <4>3, <6>1, <6>2
        <5> QED BY <5>1, <5>2
      <4>5. Min({i}) = i
        <5>1. {i} \in SUBSET Nat /\ {i} # {}
          OBVIOUS
        <5> QED BY <5>1, MinIsLeast
      <4>6. PICK c \in Plain : c = Lower[s[q]]
        BY <4>1, LettersAre
      <4>7. Hump(s) = SubSeq(s, 1, q - 1) \o <<"-", c>> \o SubSeq(s, q + 1, Len(s))
        BY <3>3, <4>3, <4>4, <4>5, <4>6 DEF Hump
      <4>8. <<"-", c>> \in Seq(Plain)
        <5>1. "-" \in Plain
          BY LettersAre
        <5> QED BY <5>1
      <4>9. Hump(s) \in Seq(Plain)
        <5>1. SubSeq(s, 1, q - 1) \o <<"-", c>> \in Seq(Plain)
          BY <2>2, <4>8, ConcatProperties
        <5> QED BY <2>3, <4>7, <5>1, ConcatProperties
      <4> QED BY <3>2, <4>9, PlainStays DEF Lname
    <3> QED BY <3>5, <3>6
  <2> QED BY <2>4, <2>5
<1>4. ASSUME NEW k \in 1 .. L, s[k] \notin Plain PROVE s[k] \in {"_", " ", "A", "B"}
  BY <1>1, <1>4, LettersAre DEF Letters, Plain
<1> QED BY <1>2, <1>3, <1>4

(* Later parts begin later.                                                *)
LEMMA Ascending ==
  ASSUME NEW S, NEW ss \in Seq(Seq(S)), NEW u \in Seq(S), NEW L \in Nat, L = Len(ss),
         NEW p \in [0 .. L -> Nat], Layout(p, ss, u), NEW g \in 0 .. L
  PROVE  \A h \in 0 .. L : g <= h => p[g] <= p[h]
<1>1. PICK T : T = {h \in 0 .. L : g <= h => p[g] <= p[h]}
  OBVIOUS
<1>2. \A k \in 1 .. L : k - 1 \in 0 .. L /\ k \in 0 .. L
  OBVIOUS
<1>3. ASSUME NEW k \in 1 .. L, k - 1 \in T PROVE k \in T
  <2>1. PICK a \in Nat, b \in Nat, n \in Nat : a = p[k - 1] /\ b = p[k] /\ n = Len(ss[k])
    <3>1. p[k - 1] \in Nat /\ p[k] \in Nat
      BY <1>2
    <3>2. Len(ss[k]) \in Nat
      <4>1. ss[k] \in Seq(S)
        OBVIOUS
      <4> QED BY <4>1
    <3> QED BY <3>1, <3>2
  <2>2. b = a + n
    BY <2>1 DEF Layout
  <2>3. CASE g <= k - 1
    <3>1. p[g] <= a /\ p[g] \in Nat
      BY <1>1, <1>3, <2>1, <2>3
    <3>2. p[g] <= b
      BY <2>2, <3>1
    <3> QED BY <1>1, <1>2, <2>1, <3>2
  <2>4. CASE ~ (g <= k - 1)
    <3>1. g <= k => g = k
      BY <2>4
    <3>2. p[k] <= p[k]
      BY <2>1
    <3> QED BY <1>1, <1>2, <3>1, <3>2
  <2> QED BY <2>3, <2>4
<1>4. 0 \in T
  <2>1. g <= 0 => g = 0
    OBVIOUS
  <2>2. 0 \in 0 .. L /\ p[0] \in Nat
    OBVIOUS
  <2>3. p[0] <= p[0]
    BY <2>2
  <2> QED BY <1>1, <2>1, <2>2, <2>3
<1>5. 1 .. L \subseteq T
  <2>1. L >= 1 => 1 \in T
    <3>1. L >= 1 => 1 \in 1 .. L /\ 1 - 1 = 0
      OBVIOUS
    <3> QED BY <1>3, <1>4, <3>1
  <2>2. \A k \in 1 .. L : k < L /\ k \in T => k + 1 \in T
    <3>1. \A k \in 1 .. L : k < L => k + 1 \in 1 .. L /\ (k + 1) - 1 = k
      OBVIOUS
    <3> QED BY <1>3, <3>1
  <2> QED BY <2>1, <2>2, InductUp
<1>6. \A h \in 0 .. L : h = 0 \/ h \in 1 .. L
  OBVIOUS
<1> QED BY <1>1, <1>4, <1>5, <1>6

(* What is laid out like the parts is what FlattenSeq() makes of them.     *)
LEMMA LayoutIsOne ==
  ASSUME NEW S, NEW ss \in Seq(Seq(S)), NEW v \in Seq(S),
         NEW q \in [0 .. Len(ss) -> Nat], Layout(q, ss, v)
  PROVE  v = FlattenSeq(ss)
<1>1. PICK L \in Nat : L = Len(ss)
  OBVIOUS
<1>2. PICK u \in Seq(S), p \in [0 .. L -> Nat] : u = FlattenSeq(ss) /\ Layout(p, ss, u)
  BY <1>1, Flattened
<1>3. PICK T : T = {k \in 0 .. L : p[k] = q[k]}
  OBVIOUS
<1>4. 0 \in T
  <2>1. 0 \in 0 .. L
    OBVIOUS
  <2> QED BY <1>2, <1>3, <2>1 DEF Layout
<1>5. ASSUME NEW k \in 1 .. L, k - 1 \in T PROVE k \in T
  <2>1. p[k] = p[k - 1] + Len(ss[k]) /\ q[k] = q[k - 1] + Len(ss[k])
    BY <1>1, <1>2 DEF Layout
  <2>2. k \in 0 .. L
    OBVIOUS
  <2> QED BY <1>3, <1>5, <2>1, <2>2
<1>6. 1 .. L \subseteq T
  <2>1. L >= 1 => 1 \in T
    <3>1. L >= 1 => 1 \in 1 .. L /\ 1 - 1 = 0
      OBVIOUS
    <3> QED BY <1>4, <1>5, <3>1
  <2>2. \A k \in 1 .. L : k < L /\ k \in T => k + 1 \in T
    <3>1. \A k \in 1 .. L : k < L => k + 1 \in 1 .. L /\ (k + 1) - 1 = k
      OBVIOUS
    <3> QED BY <1>5, <3>1
  <2> QED BY <2>1, <2>2, InductUp
<1>7. \A k \in 0 .. L : p[k] = q[k]
  <2>1. \A h \in 0 .. L : h = 0 \/ h \in 1 .. L
    OBVIOUS
  <2> QED BY <1>3, <1>4, <1>6, <2>1
<1>8. Len(u) = Len(v)
  <2>1. L \in 0 .. L
    OBVIOUS
  <2> QED BY <1>1, <1>2, <1>7, <2>1 DEF Layout
<1>9. ComesFrom(v, ss, q)
  BY InPiece
<1>10. ASSUME NEW j \in 1 .. Len(v) PROVE u[j] = v[j]
  <2>1. PICK k \in 1 .. L : \E i \in 1 .. Len(ss[k]) : j = q[k - 1] + i /\ v[j] = ss[k][i]
    BY <1>1, <1>9 DEF ComesFrom
  <2>2. PICK i \in 1 .. Len(ss[k]) : j = q[k - 1] + i /\ v[j] = ss[k][i]
    BY <2>1
  <2>3. k - 1 \in 0 .. L
    OBVIOUS
  <2>4. At(u, p[k - 1], ss[k]) /\ p[k - 1] = q[k - 1]
    BY <1>1, <1>2, <1>7, <2>3 DEF Layout
  <2>5. u[p[k - 1] + i] = ss[k][i]
    BY <2>4 DEF At
  <2> QED BY <2>2, <2>4, <2>5
<1>11. u = v
  BY <1>8, <1>10, SeqEqual
<1> QED BY <1>2, <1>11

(* What lies in a part of what another one lies in lies in that.           *)
LEMMA Inside ==
  ASSUME NEW S, NEW s \in Seq(S), NEW t \in Seq(S), NEW w \in Seq(S), NEW i \in Nat, NEW d \in Nat,
         At(s, i, t), At(s, i + d, w), d + Len(w) <= Len(t)
  PROVE  At(t, d, w)
<1>1. Len(t) \in Nat /\ Len(w) \in Nat
  OBVIOUS
<1>2. ASSUME NEW j \in 1 .. Len(w) PROVE t[d + j] = w[j]
  <2>1. PICK k \in 1 .. Len(t) : k = d + j
    <3>1. d + j \in 1 .. Len(t)
      BY <1>1
    <3> QED BY <3>1
  <2>2. s[i + k] = t[k]
    BY DEF At
  <2>3. s[i + d + j] = w[j]
    BY DEF At
  <2>4. i + k = i + d + j
    BY <2>1
  <2> QED BY <2>1, <2>2, <2>3, <2>4
<1> QED BY <1>2 DEF At

(* A sequence with its k-th part exchanged.                                *)
Exchanged(ss, k, a) == [h \in 1 .. Len(ss) |-> IF h = k THEN a ELSE ss[h]]

(* The k-th part is c, and c occurs in no other one.                       *)
IsAlone(ss, k, c) ==
  /\ Len(ss[k]) = 1 /\ ss[k][1] = c
  /\ \A h \in 1 .. Len(ss) : h # k => \A i \in 1 .. Len(ss[h]) : ss[h][i] # c

(* To replace the one occurrence of c, which is a part of its own, is to   *)
(* exchange that part.                                                     *)
LEMMA Replacing ==
  ASSUME NEW S, NEW ss \in Seq(Seq(S)), NEW k \in 1 .. Len(ss), NEW c, NEW a \in Seq(S),
         IsAlone(ss, k, c)
  PROVE  ReplaceOne(a, c, FlattenSeq(ss)) = FlattenSeq(Exchanged(ss, k, a))
<1>0. /\ Len(ss[k]) = 1 /\ ss[k][1] = c
      /\ \A h \in 1 .. Len(ss) : h # k => \A i \in 1 .. Len(ss[h]) : ss[h][i] # c
  BY DEF IsAlone
<1>1. PICK n \in Nat : n = Len(ss) /\ k \in 1 .. n /\ \A h \in 1 .. n : ss[h] \in Seq(S)
  OBVIOUS
<1>2. PICK u \in Seq(S), p \in [0 .. n -> Nat] : u = FlattenSeq(ss) /\ Layout(p, ss, u)
  BY <1>1, Flattened
<1>3. PICK m \in Nat, L \in Nat, la \in Nat : m = p[k - 1] /\ L = Len(u) /\ la = Len(a)
  <2>1. k - 1 \in 0 .. n
    BY <1>1
  <2>2. p[k - 1] \in Nat
    BY <2>1
  <2> QED BY <2>2
<1>4. /\ p[0] = 0 /\ L = p[n] /\ n \in 0 .. n
      /\ \A h \in 1 .. n : p[h] = p[h - 1] + Len(ss[h]) /\ At(u, p[h - 1], ss[h])
  BY <1>1, <1>2, <1>3 DEF Layout
<1>5. k \in 0 .. n /\ k - 1 \in 0 .. n /\ p[k] = m + 1
  <2>1. k \in 0 .. n /\ k - 1 \in 0 .. n
    BY <1>1
  <2>2. p[k] = m + Len(ss[k])
    BY <1>1, <1>3, <1>4
  <2>3. Len(ss[k]) = 1
    BY <1>0
  <2> QED BY <2>1, <2>2, <2>3
<1>6. \A g, h \in 0 .. n : g <= h => p[g] <= p[h]
  <2>1. ASSUME NEW g \in 0 .. n PROVE \A h \in 0 .. n : g <= h => p[g] <= p[h]
    BY <1>1, <1>2, Ascending
  <2> QED BY <2>1
<1>7. m + 1 <= L
  <2>1. p[k] <= p[n]
    BY <1>1, <1>4, <1>5, <1>6
  <2> QED BY <1>4, <1>5, <2>1
<1>8. IsFirst(u, c, m + 1)
  <2>1. At(u, m, ss[k]) /\ 1 \in 1 .. Len(ss[k])
    <3>1. At(u, m, ss[k])
      BY <1>1, <1>3, <1>4
    <3>2. 1 \in 1 .. Len(ss[k])
      BY <1>0
    <3> QED BY <3>1, <3>2
  <2>2. u[m + 1] = c
    BY <1>0, <2>1 DEF At
  <2>3. ComesFrom(u, ss, p)
    BY <1>1, <1>2, InPiece
  <2>4. ASSUME NEW j \in 1 .. m PROVE u[j] # c
    <3>1. j \in 1 .. L
      BY <1>7
    <3>2. PICK h \in 1 .. n : \E i \in 1 .. Len(ss[h]) : j = p[h - 1] + i /\ u[j] = ss[h][i]
      BY <1>1, <1>3, <2>3, <3>1 DEF ComesFrom
    <3>3. PICK i \in 1 .. Len(ss[h]) : j = p[h - 1] + i /\ u[j] = ss[h][i]
      BY <3>2
    <3>4. h # k
      <4>1. ~ (m + i <= m)
        OBVIOUS
      <4> QED BY <1>3, <3>3, <4>1
    <3> QED BY <1>0, <1>1, <3>3, <3>4
  <2>5. m + 1 \in 1 .. Len(u) /\ (m + 1) - 1 = m
    <3>1. m + 1 \in 1 .. L /\ (m + 1) - 1 = m
      BY <1>7
    <3> QED BY <1>3, <3>1
  <2> QED BY <2>2, <2>4, <2>5 DEF IsFirst
<1>9. PICK x \in Seq(S) : x = SubSeq(u, 1, m) /\ Len(x) = m /\ At(u, 0, x)
  <2>1. PICK o \in Nat : o = 0
    OBVIOUS
  <2>2. o <= m /\ m <= Len(u)
    BY <1>3, <1>7, <2>1
  <2>3. /\ SubSeq(u, o + 1, m) \in Seq(S) /\ Len(SubSeq(u, o + 1, m)) = m - o
        /\ At(u, o, SubSeq(u, o + 1, m))
    BY <2>2, CutIs
  <2>4. o + 1 = 1 /\ m - o = m
    BY <2>1
  <2> QED BY <2>1, <2>3, <2>4
<1>10. PICK i \in Nat, y \in Seq(S), ly \in Nat :
         /\ i = m + 1 /\ ly = L - i
         /\ y = SubSeq(u, i + 1, Len(u)) /\ Len(y) = ly /\ At(u, i, y)
  <2>1. PICK i \in Nat, ly \in Nat : i = m + 1 /\ ly = L - i /\ i <= L
    <3>1. m + 1 \in Nat /\ L - (m + 1) \in Nat
      BY <1>7
    <3> QED BY <1>7, <3>1
  <2>2. L \in Nat /\ i <= L /\ L <= Len(u)
    BY <1>3, <2>1
  <2>3. /\ SubSeq(u, i + 1, L) \in Seq(S) /\ Len(SubSeq(u, i + 1, L)) = L - i
        /\ At(u, i, SubSeq(u, i + 1, L))
    BY <2>2, CutIs
  <2> QED BY <1>3, <2>1, <2>3
<1>11. PICK w \in Seq(S) : w = x \o a /\ Len(w) = m + la /\ At(w, 0, x) /\ At(w, m, a)
  <2>1. /\ x \o a \in Seq(S) /\ Len(x \o a) = Len(x) + Len(a)
        /\ At(x \o a, 0, x) /\ At(x \o a, Len(x), a)
    BY Placed
  <2> QED BY <1>3, <1>9, <2>1
<1>12. PICK v \in Seq(S) : v = w \o y /\ Len(v) = m + la + ly /\ At(v, 0, w) /\ At(v, m + la, y)
  <2>1. /\ w \o y \in Seq(S) /\ Len(w \o y) = Len(w) + Len(y)
        /\ At(w \o y, 0, w) /\ At(w \o y, Len(w), y)
    BY Placed
  <2> QED BY <1>10, <1>11, <2>1
<1>13. v = ReplaceOne(a, c, u)
  <2>1. PICK j \in Nat : j = m + 1 /\ j - 1 = m /\ j = i
    <3>1. m + 1 \in Nat /\ (m + 1) - 1 = m
      OBVIOUS
    <3> QED BY <1>10, <3>1
  <2>2. IsFirst(u, c, j)
    BY <1>8, <2>1
  <2>3. ReplaceOne(a, c, u) = (SubSeq(u, 1, j - 1) \o a) \o SubSeq(u, j + 1, Len(u))
    BY <2>2, ReplacedIs
  <2> QED BY <1>9, <1>10, <1>11, <1>12, <2>1, <2>3
<1>14. At(v, 0, x) /\ At(v, m, a)
  <2>1. At(v, m, a)
    BY <1>11, <1>12, WithinFirst
  <2>2. PICK o \in Nat : o = 0
    OBVIOUS
  <2>3. At(v, o, x)
    BY <1>11, <1>12, <2>2, WithinFirst
  <2> QED BY <2>1, <2>2, <2>3
<1>15. PICK tt \in Seq(Seq(S)) :
         /\ tt = Exchanged(ss, k, a) /\ Len(tt) = n /\ tt[k] = a
         /\ \A h \in 1 .. n : h # k => tt[h] = ss[h]
  <2> DEFINE f == [h \in 1 .. n |-> IF h = k THEN a ELSE ss[h]]
  <2>1. f \in [1 .. n -> Seq(S)] /\ f = Exchanged(ss, k, a)
    BY <1>1 DEF Exchanged
  <2>2. f[k] = a /\ \A h \in 1 .. n : h # k => f[h] = ss[h]
    BY <1>1
  <2> HIDE DEF f
  <2>3. f \in Seq(Seq(S)) /\ Len(f) = n
    BY <2>1
  <2> QED BY <2>1, <2>2, <2>3
<1>16. \A h \in 0 .. n : k <= h => p[h] >= m + 1 /\ p[h] - 1 + la \in Nat
  <2>1. ASSUME NEW h \in 0 .. n, k <= h PROVE p[h] >= m + 1 /\ p[h] - 1 + la \in Nat
    <3>1. PICK z \in Nat : z = p[h]
      OBVIOUS
    <3>2. m + 1 <= z
      BY <1>5, <1>6, <2>1, <3>1
    <3>3. z >= m + 1 /\ z - 1 + la \in Nat
      BY <3>2
    <3> QED BY <3>1, <3>3
  <2> QED BY <2>1
<1>17. PICK q \in [0 .. n -> Nat] :
         /\ \A h \in 0 .. n : h < k => q[h] = p[h]
         /\ \A h \in 0 .. n : k <= h => q[h] = p[h] - 1 + la
  <2> DEFINE f == [h \in 0 .. n |-> IF h < k THEN p[h] ELSE p[h] - 1 + la]
  <2>1. \A h \in 0 .. n : (h < k \/ k <= h) /\ ~ (h < k /\ k <= h)
    BY <1>5
  <2>2. f \in [0 .. n -> Nat]
    BY <1>16, <2>1
  <2>3. /\ \A h \in 0 .. n : h < k => f[h] = p[h]
        /\ \A h \in 0 .. n : k <= h => f[h] = p[h] - 1 + la
    BY <2>1
  <2> HIDE DEF f
  <2> QED BY <2>2, <2>3
<1>18. q[0] = 0 /\ Len(v) = q[n]
  <2>1. 0 \in 0 .. n /\ 0 < k /\ k <= n
    BY <1>1
  <2>2. q[n] = L - 1 + la
    BY <1>4, <1>17, <2>1
  <2>3. m + la + ly = L - 1 + la
    BY <1>10
  <2> QED BY <1>4, <1>12, <1>17, <2>1, <2>2, <2>3
<1>19. ASSUME NEW h \in 1 .. n
       PROVE  q[h] = q[h - 1] + Len(tt[h]) /\ At(v, q[h - 1], tt[h])
  <2>1. PICK g \in 0 .. n : g = h - 1 /\ h \in 0 .. n /\ g < h
    <3>1. h - 1 \in 0 .. n /\ h \in 0 .. n /\ h - 1 < h
      OBVIOUS
    <3> QED BY <3>1
  <2>2. PICK t \in Seq(S), b \in Nat, e \in Nat, lt \in Nat :
          t = ss[h] /\ b = p[g] /\ e = p[h] /\ lt = Len(t)
    <3>1. ss[h] \in Seq(S) /\ p[g] \in Nat /\ p[h] \in Nat
      BY <1>1, <2>1
    <3>2. Len(ss[h]) \in Nat
      <4>1. PICK t \in Seq(S) : t = ss[h]
        BY <3>1
      <4>2. Len(t) \in Nat
        OBVIOUS
      <4> QED BY <4>1, <4>2
    <3> QED BY <3>1, <3>2
  <2>3. e = b + lt /\ At(u, b, t)
    BY <1>4, <2>1, <2>2
  <2>4. CASE h < k
    <3>1. g < k /\ h <= k - 1 /\ h # k
      BY <2>1, <2>4
    <3>2. q[h] = e /\ q[g] = b /\ tt[h] = t
      BY <1>15, <1>17, <2>1, <2>2, <2>4, <3>1
    <3>3. e <= m
      BY <1>3, <1>5, <1>6, <2>1, <2>2, <3>1
    <3>4. At(x, b, t)
      <4>1. PICK o \in Nat : o = 0 /\ o + b = b
        OBVIOUS
      <4>2. At(u, o, x) /\ At(u, o + b, t)
        BY <1>9, <2>3, <4>1
      <4>3. b + Len(t) <= Len(x)
        BY <1>9, <2>2, <2>3, <3>3
      <4> QED BY <4>2, <4>3, Inside
    <3>5. At(v, b, t)
      BY <1>14, <3>4, WithinFirst
    <3> QED BY <2>1, <2>2, <2>3, <3>2, <3>5
  <2>5. CASE h = k
    <3>1. g < k /\ k <= h
      BY <2>1, <2>5
    <3>2. q[g] = m /\ q[h] = m + 1 - 1 + la /\ tt[h] = a
      BY <1>3, <1>5, <1>15, <1>17, <2>1, <2>5, <3>1
    <3>3. m + 1 - 1 + la = m + la
      OBVIOUS
    <3> QED BY <1>3, <1>14, <2>1, <3>2, <3>3
  <2>6. CASE h > k
    <3>1. ~ (g < k) /\ k <= g /\ k <= h /\ h # k
      BY <1>1, <2>1, <2>6
    <3>2. q[g] = b - 1 + la /\ q[h] = e - 1 + la /\ tt[h] = t
      BY <1>15, <1>17, <2>1, <2>2, <3>1
    <3>3. b >= m + 1
      BY <1>16, <2>1, <2>2, <3>1
    <3>4. PICK d \in Nat : d = b - i /\ i + d = b
      <4>1. b - i \in Nat /\ i + (b - i) = b
        <5>1. i <= b
          BY <1>10, <3>3
        <5> QED BY <5>1
      <4> QED BY <4>1
    <3>5. e <= L
      BY <1>4, <1>6, <2>1, <2>2
    <3>6. At(y, d, t)
      <4>1. d + Len(t) <= Len(y)
        <5>1. i = m + 1 /\ ly = L - i /\ Len(y) = ly
          BY <1>10
        <5>2. d + lt <= ly
          BY <2>3, <3>4, <3>5, <5>1
        <5> QED BY <2>2, <5>1, <5>2
      <4>2. At(u, i + d, t)
        BY <2>3, <3>4
      <4>3. At(u, i, y)
        BY <1>10
      <4> QED BY <4>1, <4>2, <4>3, Inside
    <3>7. PICK r \in Nat : r = m + la
      OBVIOUS
    <3>8. At(v, r + d, t)
      <4>1. At(v, r, y)
        BY <1>12, <3>7
      <4> QED BY <3>6, <4>1, Within
    <3>9. r + d = b - 1 + la /\ e - 1 + la = b - 1 + la + lt
      BY <1>10, <2>3, <3>4, <3>7
    <3> QED BY <2>1, <2>2, <3>2, <3>8, <3>9
  <2>7. h < k \/ h = k \/ h > k
    BY <1>1
  <2> QED BY <2>4, <2>5, <2>6, <2>7
<1>20. Layout(q, tt, v)
  BY <1>15, <1>18, <1>19 DEF Layout
<1>21. v = FlattenSeq(tt)
  BY <1>15, <1>20, LayoutIsOne
<1> QED BY <1>2, <1>13, <1>15, <1>21

-----------------------------------------------------------------------------
(* format()                                                                *)

(* What format() has made of its text after the argument i.                *)
Filling(val, args, i) == ReplaceOne(Expand(args[i], i), Holes[i], val)

(* A replacement makes a text of a text.                                   *)
LEMMA ReplacesTexts ==
  ASSUME NEW S, NEW t \in Seq(S), NEW c, NEW r \in Seq(S)
  PROVE  ReplaceOne(r, c, t) \in Seq(S)
<1>1. PICK L \in Nat : L = Len(t)
  OBVIOUS
<1>2. CASE \A k \in 1 .. Len(t) : t[k] # c
  BY <1>2, NotReplaced
<1>3. CASE \E k \in 1 .. Len(t) : t[k] = c
  <2>1. PICK K : K = {k \in 1 .. L : t[k] = c}
    OBVIOUS
  <2>2. K \in SUBSET Nat /\ K # {}
    BY <1>1, <1>3, <2>1
  <2>3. PICK k \in K : \A h \in K : k <= h
    BY <2>2, HasLeast
  <2>4. k \in 1 .. L /\ t[k] = c /\ k \in Nat
    BY <2>1
  <2>5. ASSUME NEW j \in 1 .. k - 1 PROVE t[j] # c
    <3>1. j \in 1 .. L /\ ~ (k <= j)
      BY <2>4
    <3> QED BY <2>1, <2>3, <3>1
  <2>6. IsFirst(t, c, k)
    BY <1>1, <2>4, <2>5 DEF IsFirst
  <2>7. PICK x : x = SubSeq(t, 1, k - 1)
    OBVIOUS
  <2>8. x \in Seq(S)
    <3>1. 1 \in Int /\ k - 1 \in Int /\ \A j \in 1 .. k - 1 : t[j] \in S
      BY <1>1, <2>4
    <3> QED BY <2>7, <3>1, SubSeqProperties
  <2>9. PICK y : y = SubSeq(t, k + 1, Len(t))
    OBVIOUS
  <2>10. y \in Seq(S)
    <3>1. k + 1 \in Int /\ Len(t) \in Int /\ \A j \in k + 1 .. Len(t) : t[j] \in S
      BY <1>1, <2>4
    <3> QED BY <2>9, <3>1, SubSeqProperties
  <2>11. ReplaceOne(r, c, t) = (x \o r) \o y
    BY <2>4, <2>6, <2>7, <2>9, ReplacedIs
  <2>12. PICK w : w = x \o r
    OBVIOUS
  <2>13. w \in Seq(S)
    BY <2>8, <2>12, ConcatProperties
  <2>14. w \o y \in Seq(S)
    BY <2>10, <2>13, ConcatProperties
  <2> QED BY <2>11, <2>12, <2>14
<1> QED BY <1>2, <1>3

(* The texts made by one argument after the other.                         *)
IsFilledBy(R, text, args, n) ==
  R[0] = text /\ \A i \in 1 .. n : R[i] = Filling(R[i - 1], args, i)

(* format() makes the last of them.                                        *)
LEMMA FormatIs ==
  ASSUME NEW S, NEW text \in Seq(S), NEW args, NEW n \in Nat, DOMAIN args = 1 .. n,
         \A i \in 1 .. n : Expand(args[i], i) \in Seq(S)
  PROVE  \E R : IsFilledBy(R, text, args, n) /\ Format(text, args) = R[n]
<1> DEFINE idx == [i \in DOMAIN args |-> i]
           D == SUBSET (DOMAIN idx)
           V == Seq(S)
           F(g, X) == IF X = {} THEN text
                      ELSE ReplaceFirstSubSeq(Expand(args[idx[Max(X)]], idx[Max(X)]),
                                              <<Holes[idx[Max(X)]]>>, g[X \ {Max(X)}])
           Eq(g) == g = [X \in D |-> F(g, X)]
           G == CHOOSE g : Eq(g)
           H == [X \in D |-> [g \in [D -> V] |-> F(g, X)]]
           rk == [X \in D |-> IF X = {} THEN 0 ELSE Max(X)]
<1>1. Format(text, args) = G[DOMAIN idx]
  BY DEF Format, FoldLeftDomain, FoldLeft, MapThenFoldSet
<1>2. DOMAIN idx = 1 .. n /\ \A i \in 1 .. n : idx[i] = i
  OBVIOUS
<1> HIDE DEF idx
<1>3. D = SUBSET (1 .. n)
  BY <1>2
<1>4. ASSUME NEW X \in D, X # {}
      PROVE  Max(X) \in X /\ Max(X) \in 1 .. n /\ \A y \in X : y <= Max(X)
  <2>1. X \in SUBSET Nat /\ \A y \in X : y <= n
    BY <1>3
  <2>2. Max(X) \in X /\ \A y \in X : y <= Max(X)
    BY <1>4, <2>1, MaxIsLargest
  <2> QED BY <1>3, <2>2
<1>5. ASSUME NEW X \in D, NEW g
      PROVE  F(g, X) = IF X = {} THEN text ELSE Filling(g[X \ {Max(X)}], args, Max(X))
  <2>1. X # {} => idx[Max(X)] = Max(X)
    BY <1>2, <1>4
  <2> QED BY <2>1 DEF Filling, ReplaceOne
<1> HIDE DEF F
<1>6. ASSUME NEW X \in D PROVE X \ {Max(X)} \in D
  BY <1>3
<1>7. ASSUME NEW X \in D, NEW g \in [D -> V] PROVE F(g, X) \in V
  <2>1. CASE X = {}
    BY <1>5, <2>1
  <2>2. CASE X # {}
    <3>1. PICK i \in 1 .. n : i = Max(X)
      BY <1>4, <2>2
    <3>2. g[X \ {Max(X)}] \in V
      BY <1>6
    <3>3. Filling(g[X \ {Max(X)}], args, i) \in V
      BY <3>2, ReplacesTexts DEF Filling
    <3> QED BY <1>5, <2>2, <3>1, <3>3
  <2> QED BY <2>1, <2>2
<1>8. \A X \in D, g \in [D -> V] : H[X][g] = F(g, X)
  OBVIOUS
<1>9. H \in [D -> [[D -> V] -> V]]
  <2>1. \A X \in D : H[X] \in [[D -> V] -> V]
    <3>1. ASSUME NEW X \in D PROVE H[X] \in [[D -> V] -> V]
      <4>1. H[X] = [g \in [D -> V] |-> F(g, X)]
        OBVIOUS
      <4> HIDE DEF H, D, V
      <4> QED BY <1>7, <4>1
    <3> QED BY <3>1
  <2>2. H = [X \in D |-> H[X]]
    OBVIOUS
  <2> HIDE DEF H, D, V
  <2> QED BY <2>1, <2>2
<1>10. rk \in [D -> 0 .. n]
  <2>1. \A X \in D : (IF X = {} THEN 0 ELSE Max(X)) \in 0 .. n
    BY <1>4
  <2> QED BY <2>1
<1>11. ASSUME NEW X \in D, X # {} PROVE rk[X \ {Max(X)}] < rk[X]
  <2>1. PICK m \in 1 .. n, Y \in D : m = Max(X) /\ Y = X \ {m} /\ \A y \in X : y <= m
    BY <1>4, <1>6, <1>11
  <2>2. rk[X] = m
    BY <1>11, <2>1
  <2>3. CASE Y = {}
    BY <2>1, <2>2, <2>3
  <2>4. CASE Y # {}
    <3>1. PICK k \in 1 .. n : k = Max(Y) /\ k \in Y
      BY <1>4, <2>4
    <3>2. rk[Y] = k /\ k <= m /\ k # m
      BY <2>1, <2>4, <3>1
    <3> QED BY <2>1, <2>2, <3>2
  <2> QED BY <2>3, <2>4
<1>12. V # {}
  OBVIOUS
<1>13. DOMAIN idx \in D
  OBVIOUS
<1>b. {} \in D
  OBVIOUS
<1>c. \A k \in 0 .. n : 1 .. k \in D
  <2>1. ASSUME NEW k \in 0 .. n PROVE 1 .. k \subseteq 1 .. n
    OBVIOUS
  <2> HIDE DEF D
  <2> QED BY <1>3, <2>1
<1> HIDE DEF H, D, V, rk, G
<1>14. ASSUME NEW X \in D, NEW g \in [D -> V], NEW h \in [D -> V],
              \A Y \in D : rk[Y] < rk[X] => g[Y] = h[Y]
       PROVE  H[X][g] = H[X][h]
  <2>1. X # {} => g[X \ {Max(X)}] = h[X \ {Max(X)}]
    BY <1>6, <1>11, <1>14
  <2>2. F(g, X) = F(h, X)
    BY <1>5, <2>1
  <2> QED BY <1>8, <2>2
<1>15. Local(D, V, rk, H)
  BY <1>14 DEF Local
<1>16. PICK f \in [D -> V] : Solves(f, D, H)
  BY <1>9, <1>10, <1>12, <1>15, Recursion
<1>17. Eq(f)
  <2>1. \A X \in D : f[X] = F(f, X)
    BY <1>8, <1>16 DEF Solves
  <2> QED BY <2>1
<1>18. Eq(G)
  BY <1>17 DEF G
<1>19. \A X \in D : G[X] = F(G, X)
  BY <1>18
<1>20. PICK R : R = [i \in 0 .. n |-> G[1 .. i]]
  OBVIOUS
<1>21. R[0] = text
  <2>1. 1 .. 0 = {} /\ 0 \in 0 .. n
    OBVIOUS
  <2>2. G[{}] = text
    BY <1>5, <1>19, <1>b
  <2> QED BY <1>20, <2>1, <2>2
<1>22. R[n] = Format(text, args)
  <2>1. n \in 0 .. n
    OBVIOUS
  <2> QED BY <1>1, <1>2, <1>20, <2>1
<1>23. ASSUME NEW i \in 1 .. n PROVE R[i] = Filling(R[i - 1], args, i)
  <2>1. PICK X \in D : X = 1 .. i /\ X # {}
    <3>1. i \in 0 .. n
      OBVIOUS
    <3>2. 1 \in 1 .. i
      OBVIOUS
    <3>3. PICK X : X = 1 .. i
      OBVIOUS
    <3>4. X \in D
      BY <1>c, <3>1, <3>3
    <3> QED BY <3>2, <3>3, <3>4
  <2>2. Max(X) = i
    <3>1. Max(X) \in X /\ \A y \in X : y <= Max(X)
      BY <1>4, <2>1
    <3>2. i \in X
      BY <2>1
    <3>3. PICK m : m = Max(X) /\ m \in X /\ i <= m
      BY <3>1, <3>2
    <3>4. m \in 1 .. i
      BY <2>1, <3>3
    <3> QED BY <3>3, <3>4
  <2>3. X \ {Max(X)} = 1 .. i - 1
    BY <2>1, <2>2
  <2>4. G[X] = Filling(G[1 .. i - 1], args, i)
    BY <1>5, <1>19, <2>1, <2>2, <2>3
  <2>5. i \in 0 .. n /\ i - 1 \in 0 .. n
    OBVIOUS
  <2> QED BY <1>20, <2>1, <2>4, <2>5
<1> QED BY <1>21, <1>22, <1>23 DEF IsFilledBy

(* Every argument has a placeholder of its own.                            *)
LEMMA HolesAre ==
  /\ Holes[1] = "{0}" /\ Holes[2] = "{1}" /\ Len(Holes) = 2
  /\ Range(Holes) = {"{0}", "{1}"}
  /\ \A i, j \in 1 .. 2 : Holes[i] = Holes[j] => i = j
  /\ \A i \in 1 .. 2 : Holes[i] \in Range(Holes)
<1>1. Holes[1] = "{0}" /\ Holes[2] = "{1}" /\ Len(Holes) = 2 /\ DOMAIN Holes = 1 .. 2
  BY DEF Holes
<1>2. \A i \in 1 .. 2 : i = 1 \/ i = 2
  OBVIOUS
<1>3. Range(Holes) = {"{0}", "{1}"}
  <2>1. 1 \in 1 .. 2 /\ 2 \in 1 .. 2
    OBVIOUS
  <2>2. Range(Holes) = {Holes[i] : i \in 1 .. 2}
    BY <1>1 DEF Range
  <2> HIDE DEF Holes
  <2> QED BY <1>1, <1>2, <2>1, <2>2
<1>5. \A i \in 1 .. 2 : Holes[i] \in Range(Holes)
  BY <1>1, <1>2, <1>3
<1>4. \A i, j \in 1 .. 2 : Holes[i] = Holes[j] => i = j
  BY <1>1, <1>2
<1> QED BY <1>1, <1>3, <1>4, <1>5

(* What the first i arguments have made of the character c.                *)
Fill(args, i, c) ==
  IF \E j \in 1 .. i : c = Holes[j] THEN args[CHOOSE j \in 1 .. i : c = Holes[j]] ELSE <<c>>

(* It is the argument, or still the character.                             *)
FillIsRight(S, args, i, c) ==
  /\ Fill(args, i, c) \in Seq(S)
  /\ \A j \in 1 .. i : c = Holes[j] => Fill(args, i, c) = args[j]
  /\ (\A j \in 1 .. i : c # Holes[j])
       => Fill(args, i, c) = <<c>> /\ Len(Fill(args, i, c)) = 1 /\ Fill(args, i, c)[1] = c

(* So it is as long as there are placeholders.                             *)
LEMMA FillIs ==
  ASSUME NEW S, NEW c \in S, NEW n \in 0 .. 2, NEW i \in 0 .. n, NEW args,
         \A j \in 1 .. n : args[j] \in Seq(S)
  PROVE  FillIsRight(S, args, i, c)
<1>1. \A j \in 1 .. i : j \in 1 .. n /\ j \in 1 .. 2
  OBVIOUS
<1>2. ASSUME NEW j \in 1 .. i, c = Holes[j] PROVE Fill(args, i, c) = args[j]
  <2>1. \A h \in 1 .. i : c = Holes[h] <=> h = j
    BY <1>1, <1>2, HolesAre
  <2>2. (CHOOSE h \in 1 .. i : c = Holes[h]) = j
    BY <2>1
  <2> QED BY <1>2, <2>2 DEF Fill
<1>3. ASSUME \A j \in 1 .. i : c # Holes[j]
      PROVE  /\ Fill(args, i, c) = <<c>> /\ Fill(args, i, c) \in Seq(S)
             /\ Len(Fill(args, i, c)) = 1 /\ Fill(args, i, c)[1] = c
  <2>1. Fill(args, i, c) = <<c>>
    BY <1>3 DEF Fill
  <2>2. c \in S
    OBVIOUS
  <2>3. <<c>> \in Seq(S) /\ Len(<<c>>) = 1 /\ <<c>>[1] = c
    BY <2>2
  <2> QED BY <2>1, <2>3
<1>4. Fill(args, i, c) \in Seq(S)
  BY <1>1, <1>2, <1>3
<1> QED BY <1>2, <1>3, <1>4 DEF FillIsRight

(* What they have made of the text, character by character.                *)
FilledParts(text, args, i) == [k \in 1 .. Len(text) |-> Fill(args, i, text[k])]

(* No placeholder occurs twice in the text.                                *)
HolesAreSingle(text) ==
  \A h \in Range(Holes), j, k \in 1 .. Len(text) : text[j] = h /\ text[k] = h => j = k

(* The argument i comes to the place of its placeholder.                   *)
LEMMA FillingIs ==
  ASSUME NEW S, NEW text \in Seq(S), NEW n \in 0 .. 2, NEW i \in 1 .. n, NEW args,
         \A j \in 1 .. n : args[j] \in Seq(S),
         \A j \in 1 .. n : \A m \in 1 .. Len(args[j]) : args[j][m] \notin {"$&"} \cup Range(Holes),
         HolesAreSingle(text)
  PROVE  Filling(FlattenSeq(FilledParts(text, args, i - 1)), args, i)
           = FlattenSeq(FilledParts(text, args, i))
<1>1. PICK L \in Nat : L = Len(text) /\ \A k \in 1 .. L : text[k] \in S
  OBVIOUS
<1>2. \A m \in 0 .. n, d \in S : FillIsRight(S, args, m, d)
  <2>1. ASSUME NEW m \in 0 .. n, NEW d \in S PROVE FillIsRight(S, args, m, d)
    BY FillIs
  <2> QED BY <2>1
<1>3. PICK g \in 0 .. n : g = i - 1 /\ i \in 0 .. n /\ i \in 1 .. 2
  <2>1. i - 1 \in 0 .. n /\ i \in 0 .. n /\ i \in 1 .. 2
    OBVIOUS
  <2> QED BY <2>1
<1>4. PICK ss : ss = FilledParts(text, args, g)
  OBVIOUS
<1>5. ss \in Seq(Seq(S)) /\ Len(ss) = L /\ \A k \in 1 .. L : ss[k] = Fill(args, g, text[k])
  <2> DEFINE f == [k \in 1 .. L |-> Fill(args, g, text[k])]
  <2>1. \A k \in 1 .. L : Fill(args, g, text[k]) \in Seq(S)
    BY <1>1, <1>2 DEF FillIsRight
  <2>2. f \in [1 .. L -> Seq(S)] /\ \A k \in 1 .. L : f[k] = Fill(args, g, text[k])
    BY <2>1
  <2>3. f = ss
    BY <1>1, <1>4 DEF FilledParts
  <2> HIDE DEF f
  <2> QED BY <2>2, <2>3
<1>6. PICK a \in Seq(S) : a = args[i] /\ a = Expand(args[i], i)
  <2>1. args[i] \in Seq(S) /\ \A m \in 1 .. Len(args[i]) : args[i][m] # "$&"
    OBVIOUS
  <2>2. PICK b \in Seq(S) : b = args[i] /\ DOMAIN b = 1 .. Len(b) /\ \A m \in DOMAIN b : b[m] # "$&"
    BY <2>1
  <2>3. [m \in DOMAIN b |-> IF b[m] = "$&" THEN Holes[i] ELSE b[m]] = [m \in DOMAIN b |-> b[m]]
    BY <2>2
  <2>4. [m \in DOMAIN b |-> b[m]] = b
    OBVIOUS
  <2> QED BY <2>2, <2>3, <2>4 DEF Expand
<1>7. PICK c : c = Holes[i] /\ c \in Range(Holes)
  BY <1>3, HolesAre
<1>8. \A j \in 1 .. g : j \in 1 .. i /\ j \in 1 .. n /\ j \in 1 .. 2 /\ j # i
  BY <1>3
<1>9. \A j \in 1 .. g : Holes[j] # c
  BY <1>3, <1>7, <1>8, HolesAre
<1>10. ASSUME NEW k \in 1 .. L, text[k] # c
      PROVE  /\ \A m \in 1 .. Len(ss[k]) : ss[k][m] # c
             /\ ss[k] = Fill(args, i, text[k])
  <2>1. CASE \E j \in 1 .. g : text[k] = Holes[j]
    <3>1. PICK j \in 1 .. g : text[k] = Holes[j]
      BY <2>1
    <3>2. ss[k] = args[j] /\ Fill(args, i, text[k]) = args[j]
      <4>1. PICK d \in S : d = text[k] /\ d = Holes[j]
        BY <1>1, <3>1
      <4>2. j \in 1 .. i /\ i \in 0 .. n
        BY <1>3, <1>8
      <4>3. Fill(args, g, d) = args[j]
        BY <1>2, <4>1 DEF FillIsRight
      <4>4. Fill(args, i, d) = args[j]
        BY <1>2, <4>1, <4>2 DEF FillIsRight
      <4> QED BY <1>5, <4>1, <4>3, <4>4
    <3> QED BY <1>7, <1>8, <3>2
  <2>2. CASE \A j \in 1 .. g : text[k] # Holes[j]
    <3>1. \A j \in 1 .. i : j \in 1 .. g \/ j = i
      BY <1>3
    <3>2. \A j \in 1 .. i : text[k] # Holes[j]
      BY <1>7, <1>10, <2>2, <3>1
    <3>3. Fill(args, i, text[k]) = <<text[k]>>
      <4>1. PICK d \in S : d = text[k]
        BY <1>1
      <4>2. i \in 0 .. n /\ \A j \in 1 .. i : d # Holes[j]
        BY <1>3, <3>2, <4>1
      <4>3. FillIsRight(S, args, i, d)
        BY <1>2, <4>2
      <4> QED BY <4>1, <4>2, <4>3 DEF FillIsRight
    <3>4. ss[k] = <<text[k]>> /\ Len(ss[k]) = 1 /\ ss[k][1] = text[k]
      <4>1. PICK d \in S : d = text[k]
        BY <1>1
      <4>2. \A j \in 1 .. g : d # Holes[j]
        BY <2>2, <4>1
      <4>3. /\ Fill(args, g, d) = <<d>>
            /\ Len(Fill(args, g, d)) = 1 /\ Fill(args, g, d)[1] = d
        <5>1. FillIsRight(S, args, g, d)
          BY <1>2
        <5> QED BY <4>2, <5>1 DEF FillIsRight
      <4> QED BY <1>5, <4>1, <4>3
    <3>5. \A m \in 1 .. Len(ss[k]) : m = 1
      BY <3>4
    <3> QED BY <1>10, <3>3, <3>4, <3>5
  <2> QED BY <2>1, <2>2
<1>11. Filling(FlattenSeq(ss), args, i) = ReplaceOne(a, c, FlattenSeq(ss))
  BY <1>6, <1>7 DEF Filling
<1>12. CASE \A k \in 1 .. L : text[k] # c
  <2>1. PICK u \in Seq(S), p \in [0 .. Len(ss) -> Nat] : u = FlattenSeq(ss) /\ Layout(p, ss, u)
    BY <1>5, Flattened
  <2>2. ComesFrom(u, ss, p)
    BY <1>5, <2>1, InPiece
  <2>3. ASSUME NEW j \in 1 .. Len(u) PROVE u[j] # c
    <3>1. PICK k \in 1 .. L : \E m \in 1 .. Len(ss[k]) : j = p[k - 1] + m /\ u[j] = ss[k][m]
      BY <1>5, <2>2 DEF ComesFrom
    <3>2. PICK m \in 1 .. Len(ss[k]) : u[j] = ss[k][m]
      BY <3>1
    <3> QED BY <1>10, <1>12, <3>2
  <2>4. ReplaceOne(a, c, u) = u
    BY <2>3, NotReplaced
  <2>5. FilledParts(text, args, i) = FilledParts(text, args, g)
    <3>1. \A k \in 1 .. L : Fill(args, i, text[k]) = Fill(args, g, text[k])
      BY <1>5, <1>10, <1>12
    <3> QED BY <1>1, <3>1 DEF FilledParts
  <2> QED BY <1>3, <1>4, <1>11, <2>1, <2>4, <2>5
<1>13. CASE \E k \in 1 .. L : text[k] = c
  <2>1. PICK k \in 1 .. L : text[k] = c
    BY <1>13
  <2>2. \A h \in 1 .. L : h # k => text[h] # c
    BY <1>1, <1>7, <2>1 DEF HolesAreSingle
  <2>3. Len(ss[k]) = 1 /\ ss[k][1] = c
    <3>1. c \in S /\ \A j \in 1 .. g : c # Holes[j]
      BY <1>1, <1>9, <2>1
    <3>2. Len(Fill(args, g, c)) = 1 /\ Fill(args, g, c)[1] = c
      <4>1. FillIsRight(S, args, g, c)
        BY <1>2, <3>1
      <4> QED BY <3>1, <4>1 DEF FillIsRight
    <3> QED BY <1>5, <2>1, <3>2
  <2>4. \A h \in 1 .. L : h # k => \A m \in 1 .. Len(ss[h]) : ss[h][m] # c
    BY <1>10, <2>2
  <2>5. ReplaceOne(a, c, FlattenSeq(ss)) = FlattenSeq(Exchanged(ss, k, a))
    <3>1. k \in 1 .. Len(ss)
      BY <1>5
    <3>2. \A h \in 1 .. Len(ss) : h # k => \A m \in 1 .. Len(ss[h]) : ss[h][m] # c
      BY <1>5, <2>4
    <3>3. IsAlone(ss, k, c)
      BY <2>3, <3>2 DEF IsAlone
    <3>4. ss \in Seq(Seq(S))
      BY <1>5
    <3> QED BY <3>1, <3>3, <3>4, Replacing
  <2>6. Fill(args, i, c) = a
    <3>1. i \in 1 .. i /\ c \in S
      BY <1>1, <2>1
    <3>2. i \in 0 .. n
      BY <1>3
    <3>3. Fill(args, i, c) = args[i]
      <4>1. FillIsRight(S, args, i, c)
        BY <1>2, <3>1, <3>2
      <4> QED BY <1>7, <3>1, <4>1 DEF FillIsRight
    <3> QED BY <1>6, <3>3
  <2>7. \A h \in 1 .. L : (IF h = k THEN a ELSE ss[h]) = Fill(args, i, text[h])
    BY <1>10, <2>1, <2>2, <2>6
  <2>8. Exchanged(ss, k, a) = FilledParts(text, args, i)
    BY <1>1, <1>5, <2>7 DEF Exchanged, FilledParts
  <2> QED BY <1>3, <1>4, <1>11, <2>5, <2>8
<1> QED BY <1>12, <1>13

(* No placeholder in a text more than once, as the law says it.            *)
LEMMA HolesAreFew ==
  ASSUME NEW S, NEW text \in Seq(S),
         \A h \in Range(Holes) : Cardinality({k \in DOMAIN text : text[k] = h}) <= 1
  PROVE  HolesAreSingle(text)
<1>1. PICK L \in Nat : L = Len(text) /\ DOMAIN text = 1 .. L
  OBVIOUS
<1>2. ASSUME NEW h \in Range(Holes) PROVE \A j, k \in 1 .. L : text[j] = h /\ text[k] = h => j = k
  <2>1. PICK T : T = {m \in DOMAIN text : text[m] = h}
    OBVIOUS
  <2>2. T \subseteq 1 .. L /\ Cardinality(T) <= 1
    BY <1>1, <2>1
  <2>3. \A j, k \in T : j = k
    BY <2>2, AtMostOne
  <2> QED BY <1>1, <2>1, <2>3
<1> QED BY <1>1, <1>2 DEF HolesAreSingle

(* format() of the arguments of a text, for at most as many arguments as   *)
(* there are placeholders.                                                 *)
LEMMA Formats ==
  ASSUME NEW S, NEW text \in Seq(S), NEW args \in Seq(Seq(S)), Len(args) <= Len(Holes),
         HolesAreSingle(text),
         \A a \in Range(args) : Range(a) \cap ({"$&"} \cup Range(Holes)) = {}
  PROVE  Format(text, args) = Filled(text, args)
<1>1. PICK n \in 0 .. 2 : n = Len(args) /\ DOMAIN args = 1 .. n /\ n \in Nat
  <2>1. Len(Holes) = 2
    BY HolesAre
  <2>2. PICK n \in Nat : n = Len(args) /\ DOMAIN args = 1 .. n
    OBVIOUS
  <2>3. n <= 2
    BY <2>1, <2>2
  <2>4. n \in 0 .. 2
    BY <2>3
  <2> QED BY <2>2, <2>4
<1>2. \A j \in 1 .. n : args[j] \in Seq(S)
  BY <1>1
<1>3. ASSUME NEW j \in 1 .. n, NEW m \in 1 .. Len(args[j])
      PROVE  args[j][m] \notin {"$&"} \cup Range(Holes)
  <2>1. PICK a \in Seq(S) : a = args[j] /\ a \in Range(args)
    BY <1>1, <1>2 DEF Range
  <2>2. m \in DOMAIN a
    BY <2>1
  <2>3. a[m] \in Range(a)
    BY <2>2 DEF Range
  <2> QED BY <2>1, <2>3
<1>4. ASSUME NEW i \in 1 .. n PROVE Expand(args[i], i) \in Seq(S)
  <2>1. PICK b \in Seq(S) : b = args[i] /\ DOMAIN b = 1 .. Len(b)
    BY <1>2
  <2>2. \A m \in DOMAIN b : b[m] # "$&"
    BY <1>3, <2>1
  <2>3. [m \in DOMAIN b |-> IF b[m] = "$&" THEN Holes[i] ELSE b[m]] = [m \in DOMAIN b |-> b[m]]
    BY <2>2
  <2>4. [m \in DOMAIN b |-> b[m]] = b
    OBVIOUS
  <2> QED BY <2>1, <2>3, <2>4 DEF Expand
<1>5. PICK R : /\ R[0] = text /\ Format(text, args) = R[n]
               /\ \A i \in 1 .. n : R[i] = Filling(R[i - 1], args, i)
  <2>1. n \in Nat /\ DOMAIN args = 1 .. n
    BY <1>1
  <2>2. PICK R : IsFilledBy(R, text, args, n) /\ Format(text, args) = R[n]
    BY <1>4, <2>1, FormatIs
  <2> QED BY <2>2 DEF IsFilledBy
<1>6. PICK L \in Nat : L = Len(text) /\ DOMAIN text = 1 .. L /\ \A k \in 1 .. L : text[k] \in S
  OBVIOUS
<1>7. PICK T : T = {i \in 0 .. n : R[i] = FlattenSeq(FilledParts(text, args, i))}
  OBVIOUS
<1>8. 0 \in T
  <2>1. PICK ss : ss = FilledParts(text, args, 0)
    OBVIOUS
  <2>2. ASSUME NEW k \in 1 .. L PROVE Fill(args, 0, text[k]) = <<text[k]>>
    <3>1. ~ \E j \in 1 .. 0 : text[k] = Holes[j]
      OBVIOUS
    <3> QED BY <3>1 DEF Fill
  <2>3. ss = [k \in 1 .. L |-> <<text[k]>>]
    BY <1>6, <2>1, <2>2 DEF FilledParts
  <2>4. ss \in Seq(Seq(S)) /\ Len(ss) = L /\ \A k \in 1 .. L : Len(ss[k]) = 1 /\ ss[k][1] = text[k]
    <3> DEFINE f == [k \in 1 .. L |-> <<text[k]>>]
    <3>1. ASSUME NEW k \in 1 .. L
          PROVE  <<text[k]>> \in Seq(S) /\ Len(<<text[k]>>) = 1 /\ <<text[k]>>[1] = text[k]
      <4>1. text[k] \in S
        BY <1>6
      <4> QED BY <4>1
    <3>2. f \in [1 .. L -> Seq(S)]
      BY <3>1
    <3>3. \A k \in 1 .. L : Len(f[k]) = 1 /\ f[k][1] = text[k]
      BY <3>1
    <3> HIDE DEF f
    <3>4. f \in Seq(Seq(S)) /\ Len(f) = L
      BY <3>2
    <3>5. f = ss
      BY <2>3 DEF f
    <3> QED BY <3>3, <3>4, <3>5
  <2>5. PICK q \in [0 .. L -> Nat] : \A k \in 0 .. L : q[k] = k
    <3>1. [k \in 0 .. L |-> k] \in [0 .. L -> Nat]
      OBVIOUS
    <3> QED BY <3>1
  <2>6. Layout(q, ss, text)
    <3>1. q[0] = 0 /\ Len(text) = q[Len(ss)]
      BY <1>6, <2>4, <2>5
    <3>2. ASSUME NEW k \in 1 .. L PROVE q[k] = q[k - 1] + Len(ss[k]) /\ At(text, q[k - 1], ss[k])
      <4>1. q[k] = k /\ q[k - 1] = k - 1 /\ Len(ss[k]) = 1 /\ ss[k][1] = text[k]
        <5>1. k \in 0 .. L /\ k - 1 \in 0 .. L
          OBVIOUS
        <5> QED BY <2>4, <2>5, <5>1
      <4>2. \A j \in 1 .. 1 : j = 1
        OBVIOUS
      <4>3. k - 1 + 1 = k /\ k <= L
        OBVIOUS
      <4>4. \A j \in 1 .. Len(ss[k]) : text[q[k - 1] + j] = ss[k][j]
        BY <4>1, <4>2, <4>3
      <4> QED BY <1>6, <4>1, <4>3, <4>4 DEF At
    <3> QED BY <2>4, <3>1, <3>2 DEF Layout
  <2>7. text = FlattenSeq(ss)
    BY <2>4, <2>5, <2>6, LayoutIsOne
  <2>8. 0 \in 0 .. n
    OBVIOUS
  <2> QED BY <1>5, <1>7, <2>1, <2>7, <2>8
<1>9. ASSUME NEW i \in 1 .. n, i - 1 \in T PROVE i \in T
  <2>1. Filling(FlattenSeq(FilledParts(text, args, i - 1)), args, i)
          = FlattenSeq(FilledParts(text, args, i))
    BY <1>2, <1>3, FillingIs
  <2>2. i \in 0 .. n
    OBVIOUS
  <2> QED BY <1>5, <1>7, <1>9, <2>1, <2>2
<1>10. n \in T
  <2>1. n = 0 \/ n = 1 \/ n = 2
    OBVIOUS
  <2>2. n >= 1 => 1 \in T
    <3>1. n >= 1 => 1 \in 1 .. n /\ 1 - 1 = 0
      OBVIOUS
    <3> QED BY <1>8, <1>9, <3>1
  <2>3. n >= 2 => 2 \in T
    <3>1. n >= 2 => 2 \in 1 .. n /\ 2 - 1 = 1 /\ n >= 1
      OBVIOUS
    <3> QED BY <1>9, <2>2, <3>1
  <2> QED BY <1>8, <2>1, <2>2, <2>3
<1>11. Filled(text, args) = FlattenSeq(FilledParts(text, args, n))
  BY <1>1, <1>6 DEF Filled, FilledParts, Fill
<1> QED BY <1>5, <1>7, <1>10, <1>11

(* Escaping makes no placeholders.                                         *)
LEMMA HolesStaySingle ==
  ASSUME NEW S, EntityNames \cup DOMAIN Entities \subseteq S, NEW s \in Seq(S), HolesAreSingle(s)
  PROVE  HolesAreSingle(E(s))
<1>1. PICK L \in Nat : L = Len(s) /\ \A k \in 1 .. L : s[k] \in S
  OBVIOUS
<1>2. PICK u \in Seq(S), p \in [0 .. L -> Nat] :
        /\ u = E(s) /\ p[0] = 0 /\ Len(u) = p[L]
        /\ \A k \in 1 .. L : /\ p[k] = p[k - 1] + Len(Escaped(s[k]))
                             /\ At(u, p[k - 1], Escaped(s[k]))
  BY <1>1, EscapedLies
<1>3. PICK ss \in Seq(Seq(S)) : Len(ss) = L /\ \A k \in 1 .. L : ss[k] = Escaped(s[k])
  <2> DEFINE f == [k \in 1 .. L |-> Escaped(s[k])]
  <2>1. \A k \in 1 .. L : Escaped(s[k]) \in Seq(S)
    BY <1>1, EscapedIs
  <2>2. f \in [1 .. L -> Seq(S)] /\ \A k \in 1 .. L : f[k] = Escaped(s[k])
    BY <2>1
  <2> HIDE DEF f
  <2>3. f \in Seq(Seq(S)) /\ Len(f) = L
    BY <2>2
  <2> QED BY <2>2, <2>3
<1>4. Layout(p, ss, u)
  BY <1>2, <1>3 DEF Layout
<1>5. ComesFrom(u, ss, p)
  BY <1>2, <1>3, <1>4, InPiece
<1>6. ASSUME NEW h \in Range(Holes), NEW k \in 1 .. L, NEW i \in 1 .. Len(ss[k]), ss[k][i] = h
      PROVE  i = 1 /\ s[k] = h
  <2>1. PICK c \in S : c = s[k] /\ ss[k] = Escaped(c)
    BY <1>1, <1>3
  <2>2. h = "{0}" \/ h = "{1}"
    BY HolesAre
  <2>3. CASE c \in DOMAIN Entities
    <3>1. Len(ss[k]) = 2 /\ ss[k][1] = "&" /\ ss[k][2] = Entities[c][2]
      <4>1. Len(Escaped(c)) = 2 /\ Escaped(c)[1] = "&" /\ Escaped(c)[2] = Entities[c][2]
        BY <2>3, EscapedIs
      <4> QED BY <2>1, <4>1
    <3>2. i = 1 \/ i = 2
      <4>1. Len(ss[k]) = 2
        BY <3>1
      <4>2. i \in 1 .. 2
        BY <4>1
      <4> QED BY <4>2
    <3>3. Entities[c][2] \in EntityNames
      BY <2>3, EntitiesAre
    <3>4. h \notin EntityNames /\ h # "&"
      BY <2>2 DEF EntityNames
    <3> QED BY <1>6, <3>1, <3>2, <3>3, <3>4
  <2>4. CASE c \notin DOMAIN Entities
    <3>1. Len(ss[k]) = 1 /\ ss[k][1] = c
      BY <2>1, <2>4, EscapedIs
    <3>2. i = 1
      BY <3>1
    <3> QED BY <1>6, <2>1, <3>1, <3>2
  <2> QED BY <2>3, <2>4
<1>7. ASSUME NEW h \in Range(Holes), NEW j \in 1 .. Len(u), u[j] = h
      PROVE  \E k \in 1 .. L : s[k] = h /\ j = p[k - 1] + 1
  <2>1. PICK k \in 1 .. L : \E i \in 1 .. Len(ss[k]) : j = p[k - 1] + i /\ u[j] = ss[k][i]
    BY <1>3, <1>5 DEF ComesFrom
  <2>2. PICK i \in 1 .. Len(ss[k]) : j = p[k - 1] + i /\ u[j] = ss[k][i]
    BY <2>1
  <2>3. i = 1 /\ s[k] = h
    BY <1>6, <1>7, <2>2
  <2> QED BY <2>2, <2>3
<1>8. ASSUME NEW h \in Range(Holes), NEW j \in 1 .. Len(u), NEW m \in 1 .. Len(u),
             u[j] = h, u[m] = h
      PROVE  j = m
  <2>1. PICK k \in 1 .. L : s[k] = h /\ j = p[k - 1] + 1
    BY <1>7, <1>8
  <2>2. PICK g \in 1 .. L : s[g] = h /\ m = p[g - 1] + 1
    BY <1>7, <1>8
  <2>3. k = g
    BY <1>1, <2>1, <2>2 DEF HolesAreSingle
  <2> QED BY <2>1, <2>2, <2>3
<1>9. HolesAreSingle(u)
  BY <1>8 DEF HolesAreSingle
<1> QED BY <1>2, <1>9

(* The names of the types, and their classes.                              *)
LEMMA TypesAre ==
  /\ DOMAIN MessageType = {"Error", "Warning", "Info", "Debug", "All"}
  /\ MessageType.Error = 1
  /\ \A n \in DOMAIN MessageType : MessageType[n] = 1 <=> n = "Error"
  /\ \A n \in DOMAIN MessageType : n # "undefined" /\ (LowerCase[n] = "error" <=> n = "Error")
BY DEF MessageType, LowerCase

(* renderMessage() keeps its law.                                          *)
LEMMA Shows ==
  ASSUME NEW S, EntityNames \cup DOMAIN Entities \subseteq S,
         NEW m, m.text \in Seq(S), m.args \in Seq(Seq(S)), Len(m.args) <= Len(Holes)
  PROVE  MessageIsShown(m)
<1>1. PICK type : type = MessageTypeToStr(m.type)
  OBVIOUS
<1>2. CASE m.type \notin Range(MessageType)
  <2>1. RenderMessage(m) = [throws |-> TRUE]
    BY <1>2 DEF RenderMessage, MessageTypeToStr
  <2>2. RenderMessage(m).throws
    BY <2>1
  <2> QED BY <1>2, <2>2 DEF MessageIsShown, HasType
<1>3. CASE m.type \in Range(MessageType)
  <2>1. \E n \in DOMAIN MessageType : MessageType[n] = m.type
    BY <1>3 DEF Range
  <2>2. type \in DOMAIN MessageType /\ MessageType[type] = m.type
    BY <1>1, <1>3, <2>1 DEF MessageTypeToStr
  <2>3. type # "undefined"
    BY <2>2, TypesAre
  <2>4. PICK x : x = Format(E(m.text), m.args)
    OBVIOUS
  <2>5. RenderMessage(m) = [throws |-> FALSE, class |-> LowerCase[type], text |-> x]
    BY <1>1, <2>3, <2>4 DEF RenderMessage
  <2>6. ~ RenderMessage(m).throws /\ RenderMessage(m).class = LowerCase[type]
        /\ RenderMessage(m).text = x
    BY <2>5
  <2>7. RenderMessage(m).class = "error" <=> HasType(m, MessageType.Error)
    BY <2>2, <2>6, TypesAre DEF HasType
  <2>8. ASSUME \A h \in Range(Holes) : Cardinality({k \in DOMAIN m.text : m.text[k] = h}) <= 1,
               \A a \in Range(m.args) : Range(a) \cap ({"$&"} \cup Range(Holes)) = {}
        PROVE  x = Filled(E(m.text), m.args)
    <3>1. HolesAreSingle(m.text)
      BY <2>8, HolesAreFew
    <3>2. PICK u \in Seq(S) : u = E(m.text)
      BY EscapedLies
    <3>3. HolesAreSingle(u)
      BY <3>1, <3>2, HolesStaySingle
    <3> QED BY <2>4, <2>8, <3>2, <3>3, Formats
  <2> QED BY <2>6, <2>7, <2>8 DEF MessageIsShown
<1> QED BY <1>2, <1>3

(* bom.ts, base.ts and message.ts: whatever the texts, the characters and  *)
(* the arguments are, and however long, format() puts each argument in its *)
(* place, trimLR() takes exactly the given characters off both ends, e()   *)
(* leaves no markup and loses nothing, lname() makes a name lower case, and*)
(* a message is shown with its arguments and with the class of its type.   *)
(* (The texts for format() have as many placeholders as the model knows;   *)
(* the names for lname() are of the letters that stand for all.)           *)
THEOREM TextsAreAsPromised ==
  ASSUME NEW S,
         input.law \in {"format", "message"} =>
           /\ input.text \in Seq(S)
           /\ input.args \in Seq(Seq(S)) /\ Len(input.args) <= Len(Holes),
         input.law = "trim" => input.text \in Seq(Nat) /\ input.chars \in Seq(Nat),
         input.law = "escape" => input.text \in Seq(S),
         input.law = "lname" => input.text \in Seq(Letters)
  PROVE  TextsAreRight
<1>1. PICK T : S \subseteq T /\ EntityNames \cup DOMAIN Entities \subseteq T
  <2>1. S \subseteq S \cup (EntityNames \cup DOMAIN Entities)
    OBVIOUS
  <2>2. EntityNames \cup DOMAIN Entities \subseteq S \cup (EntityNames \cup DOMAIN Entities)
    OBVIOUS
  <2> QED BY <2>1, <2>2
<1>2. Seq(S) \subseteq Seq(T)
  BY <1>1
<1>3. Seq(Seq(S)) \subseteq Seq(Seq(T))
  BY <1>2
<1>4. CASE input.law = "format"
  <2>1. input.text \in Seq(T) /\ input.args \in Seq(Seq(T)) /\ Len(input.args) <= Len(Holes)
    BY <1>2, <1>3, <1>4
  <2>2. FormatFills(input.text, input.args)
    BY <2>1, HolesAreFew, Formats DEF FormatFills
  <2> QED BY <1>4, <2>2 DEF TextsAreRight
<1>5. CASE input.law = "trim"
  <2>1. TrimStrips(input.text, input.chars)
    BY <1>5, Trims
  <2> QED BY <1>5, <2>1 DEF TextsAreRight
<1>6. CASE input.law = "escape"
  <2>1. input.text \in Seq(T)
    BY <1>2, <1>6
  <2>2. EscapeShows(input.text)
    BY <1>1, <2>1, Escapes
  <2> QED BY <1>6, <2>2 DEF TextsAreRight
<1>7. CASE input.law = "lname"
  <2>1. LnameIsLower(input.text)
    BY <1>7, Lowers
  <2> QED BY <1>7, <2>1 DEF TextsAreRight
<1>8. CASE input.law = "message"
  <2>1. input.text \in Seq(T) /\ input.args \in Seq(Seq(T)) /\ Len(input.args) <= Len(Holes)
    BY <1>2, <1>3, <1>8
  <2>2. MessageIsShown(input)
    BY <1>1, <2>1, Shows
  <2> QED BY <1>8, <2>2 DEF TextsAreRight
<1>9. CASE input.law \notin {"format", "trim", "escape", "lname", "message"}
  BY <1>9 DEF TextsAreRight
<1> QED BY <1>4, <1>5, <1>6, <1>7, <1>8, <1>9

-----------------------------------------------------------------------------
(* Addresses, forms and results *)

(* A control of a form, and what a field of a result may be. *)
Controls(S) == [tag : S, type : S, name : S, value : S, checked : BOOLEAN]
Kinds == {"undefined", "falsy", "text", "list", "object"}

(* form.ts, fieldType(): where it answers it agrees with the selector. *)
LEMMA TypesAgreeAll ==
  ASSUME NEW c
  PROVE  TypesAgree(c)
<1>1. CASE c.tag = "INPUT" /\ c.type \in InputTypes
  <2>1. FieldType(c) = c.type
    BY <1>1 DEF FieldType
  <2>2. DomType(c) = c.type
    BY <1>1 DEF DomType
  <2> QED BY <1>1, <2>1, <2>2 DEF TypesAgree, IsSubmit
<1>2. CASE c.tag = "BUTTON" /\ c.type \in {"", "submit"}
  <2>1. FieldType(c) = "submit"
    BY <1>2 DEF FieldType
  <2>2. DomType(c) = "submit"
    BY <1>2 DEF DomType
  <2> QED BY <1>2, <2>1, <2>2 DEF TypesAgree, IsSubmit
<1>3. CASE c.tag = "BUTTON" /\ c.type = "button"
  <2>1. FieldType(c) = "button"
    BY <1>3 DEF FieldType
  <2>2. DomType(c) = "button"
    BY <1>3 DEF DomType
  <2> QED BY <2>1, <2>2 DEF TypesAgree, IsSubmit
<1>4. CASE c.tag \in {"TEXTAREA", "SELECT"}
  <2>1. FieldType(c) \in {"textarea", "select"}
    BY <1>4 DEF FieldType
  <2> QED BY <1>4, <2>1 DEF TypesAgree, IsSubmit
<1>5. CASE /\ ~ (c.tag = "INPUT" /\ c.type \in InputTypes)
           /\ ~ (c.tag = "BUTTON" /\ c.type \in {"", "submit", "button"})
           /\ c.tag \notin {"TEXTAREA", "SELECT"}
  <2>1. FieldType(c) = "throws"
    BY <1>5 DEF FieldType
  <2> QED BY <2>1 DEF TypesAgree
<1> QED BY <1>1, <1>2, <1>3, <1>4, <1>5

(* http.ts, widget.ts and form.ts: those who judge a result agree as the law says. *)
LEMMA ResultsAreJudged ==
  ASSUME NEW r, r.ok \in Kinds, r.err \in Kinds
  PROVE  ResultIsJudged(r)
<1>1. CASE r.err = "list"
  <2>1. HandledAs(r) = "errors"
    BY <1>1 DEF HandledAs
  <2> QED BY <1>1, <2>1
    DEF ResultIsJudged, IsResponseError, Truthy, ShowResponseErr, ErrorToast, Kinds
<1>2. CASE r.err \in {"falsy", "text", "object"}
  <2>1. HandledAs(r) = "invalid"
    BY <1>2 DEF HandledAs
  <2> QED BY <1>2, <2>1
    DEF ResultIsJudged, IsResponseError, Truthy, ShowResponseErr, ErrorToast, Kinds
<1>3. CASE r.err = "undefined" /\ r.ok # "undefined"
  <2>1. HandledAs(r) = "ok"
    BY <1>3 DEF HandledAs
  <2> QED BY <1>3, <2>1
    DEF ResultIsJudged, IsResponseError, Truthy, ShowResponseErr, ErrorToast, Kinds
<1>4. CASE r.err = "undefined" /\ r.ok = "undefined"
  <2>1. HandledAs(r) = "invalid"
    BY <1>4 DEF HandledAs
  <2> QED BY <1>4, <2>1
    DEF ResultIsJudged, IsResponseError, Truthy, ShowResponseErr, ErrorToast, Kinds
<1> QED BY <1>1, <1>2, <1>3, <1>4 DEF Kinds

(* x is the last item of u that is in P. *)
IsLast(u, P, x) ==
  \E j \in 1 .. Len(u) : u[j] = x /\ x \in P /\ \A i \in 1 .. Len(u) : i > j => u[i] \notin P

(* There is one if any item is. *)
LEMMA HasLast ==
  ASSUME NEW S, NEW u \in Seq(S), NEW P, NEW k \in 1 .. Len(u), u[k] \in P
  PROVE  \E x \in S : IsLast(u, P, x)
<1>1. PICK L \in Nat : L = Len(u) /\ \A i \in 1 .. L : u[i] \in S
  OBVIOUS
<1>2. PICK T : T = {i \in 1 .. L : u[i] \in P}
  OBVIOUS
<1>3. T \in SUBSET Nat /\ T # {} /\ \A i \in T : i <= L
  <2>1. k \in T
    BY <1>1, <1>2
  <2>2. \A i \in T : i \in Nat /\ i <= L
    BY <1>2
  <2> QED BY <2>1, <2>2
<1>4. PICK j \in T : \A i \in T : i <= j
  BY <1>3, MaxIsLargest
<1>5. ASSUME NEW i \in 1 .. L, i > j PROVE u[i] \notin P
  <2>1. j \in Nat /\ ~ (i <= j)
    BY <1>3, <1>5
  <2> QED BY <1>2, <1>4, <2>1
<1> QED BY <1>1, <1>2, <1>4, <1>5 DEF IsLast

(* x is the last item of u that has the name n. *)
LastNamed(u, n, x) ==
  \E j \in 1 .. Len(u) : u[j] = x /\ x.name = n /\ \A i \in 1 .. Len(u) : i > j => u[i].name # n

(* The value that is received for a name is that of the last one. *)
LEMMA ReceivedIs ==
  ASSUME NEW S, NEW u \in Seq(S), NEW n, NEW x, LastNamed(u, n, x)
  PROVE  Received(u, n) = x.value
<1>1. PICK L \in Nat : L = Len(u) /\ DOMAIN u = 1 .. L /\ \A i \in 1 .. L : u[i] \in S
  OBVIOUS
<1>2. PICK j \in 1 .. L : u[j] = x /\ x.name = n /\ \A i \in 1 .. L : i > j => ~ (u[i].name = n)
  BY <1>1 DEF LastNamed
<1>3. PICK T : T = {i \in DOMAIN u : u[i].name = n}
  OBVIOUS
<1>4. T \in SUBSET Nat /\ j \in T /\ \A i \in T : i <= L /\ i <= j
  <2>1. ASSUME NEW i \in T PROVE i \in Nat /\ i <= L /\ i <= j
    <3>1. i \in 1 .. L /\ u[i].name = n
      BY <1>1, <1>3
    <3>2. ~ (i > j)
      BY <1>2, <3>1
    <3> QED BY <3>1, <3>2
  <2> QED BY <1>1, <1>2, <1>3, <2>1
<1>5. Max(T) \in T /\ \A i \in T : i <= Max(T)
  BY <1>4, MaxIsLargest
<1>6. Max(T) = j
  <2>1. PICK m \in Nat : m = Max(T) /\ m <= j /\ j <= m
    BY <1>4, <1>5
  <2> QED BY <2>1
<1> QED BY <1>2, <1>3, <1>6 DEF Received

(* Each part is one item or none, and the l-th one is the last in P. *)
IsLastPart(ss, P, l, x) ==
  /\ \A k \in 1 .. Len(ss) : Len(ss[k]) \in {0, 1}
  /\ Len(ss[l]) = 1 /\ ss[l][1] = x /\ x \in P
  /\ \A k \in 1 .. Len(ss) : k > l /\ Len(ss[k]) = 1 => ss[k][1] \notin P

(* FlattenSeq(): then it is the last in P of what the parts make together. *)
LEMMA LastKept ==
  ASSUME NEW S, NEW ss \in Seq(Seq(S)), NEW P, NEW l \in 1 .. Len(ss), NEW x, IsLastPart(ss, P, l, x)
  PROVE  IsLast(FlattenSeq(ss), P, x)
<1>0. /\ \A k \in 1 .. Len(ss) : Len(ss[k]) \in {0, 1}
      /\ Len(ss[l]) = 1 /\ ss[l][1] = x /\ x \in P
      /\ \A k \in 1 .. Len(ss) : k > l /\ Len(ss[k]) = 1 => ss[k][1] \notin P
  BY DEF IsLastPart
<1>1. PICK n \in Nat : n = Len(ss) /\ l \in 1 .. n
  OBVIOUS
<1>2. PICK u \in Seq(S), p \in [0 .. n -> Nat] : u = FlattenSeq(ss) /\ Layout(p, ss, u)
  BY <1>1, Flattened
<1>3. ComesFrom(u, ss, p)
  BY <1>1, <1>2, InPiece
<1>4. PICK m \in Nat : m = p[l - 1]
  <2>1. l - 1 \in 0 .. n
    BY <1>1
  <2> QED BY <1>2, <2>1
<1>5. u[m + 1] = x /\ m + 1 <= Len(u)
  <2>1. At(u, m, ss[l])
    BY <1>1, <1>2, <1>4 DEF Layout
  <2>2. 1 \in 1 .. Len(ss[l]) /\ ss[l][1] = x /\ m + Len(ss[l]) <= Len(u)
    BY <1>0, <2>1 DEF At
  <2>3. u[m + 1] = ss[l][1]
    BY <2>1, <2>2 DEF At
  <2>4. Len(ss[l]) = 1
    BY <1>0
  <2> QED BY <2>2, <2>3, <2>4
<1>6. ASSUME NEW i \in 1 .. Len(u), i > m + 1 PROVE u[i] \notin P
  <2>1. PICK k \in 1 .. n : \E h \in 1 .. Len(ss[k]) : i = p[k - 1] + h /\ u[i] = ss[k][h]
    BY <1>1, <1>3 DEF ComesFrom
  <2>2. PICK h \in 1 .. Len(ss[k]) : i = p[k - 1] + h /\ u[i] = ss[k][h]
    BY <2>1
  <2>3. Len(ss[k]) = 1 /\ h = 1
    <3>1. Len(ss[k]) \in {0, 1}
      BY <1>0, <1>1
    <3>2. Len(ss[k]) = 1
      BY <3>1
    <3>3. h \in 1 .. 1
      BY <3>2
    <3> QED BY <3>2, <3>3
  <2>4. PICK g \in 0 .. n, e \in 0 .. n : g = k - 1 /\ e = l - 1 /\ (~ (k > l) => g <= e)
    <3>1. k - 1 \in 0 .. n /\ l - 1 \in 0 .. n /\ (~ (k > l) => k - 1 <= l - 1)
      BY <1>1
    <3> QED BY <3>1
  <2>5. k > l
    <3>1. SUFFICES ASSUME g <= e PROVE FALSE
      BY <2>4
    <3>2. p[g] <= p[e]
      BY <1>1, <1>2, <3>1, Ascending
    <3>3. PICK a \in Nat : a = p[g] /\ a <= m
      BY <1>4, <2>4, <3>2
    <3>4. i = a + 1
      BY <2>2, <2>3, <2>4, <3>3
    <3> QED BY <1>6, <3>3, <3>4
  <2> QED BY <1>0, <1>1, <2>2, <2>3, <2>5
<1>7. m + 1 \in 1 .. Len(u)
  BY <1>5
<1> QED BY <1>0, <1>2, <1>5, <1>6, <1>7 DEF IsLast

(* A function of 1 .. n is a sequence. *)
LEMMA SeqMade ==
  ASSUME NEW A, NEW n \in Nat, NEW f, f = [i \in 1 .. n |-> f[i]], \A i \in 1 .. n : f[i] \in A
  PROVE  f \in Seq(A) /\ Len(f) = n
OBVIOUS

(* An image is not among the elements of a form. *)
IsEl(c) == DomType(c) # "image"

(* A control without a name sends nothing. *)
IsName(n) == n # ""

(* What is sent for a control that has a name. *)
Sent(c) == [name |-> c.name, value |-> ElValue(c)]

(* formData() sends it for a control that has a name, and nothing for another. *)
LEMMA DatumIs ==
  ASSUME NEW D, NEW d, Sent(d) \in D
  PROVE  /\ Datum(d) \in Seq(D)
         /\ ~ IsName(d.name) => Len(Datum(d)) = 0
         /\ IsName(d.name) => Len(Datum(d)) = 1 /\ Datum(d)[1] = Sent(d)
<1>1. CASE ~ IsName(d.name)
  <2>1. Datum(d) = <<>>
    BY <1>1 DEF Datum, IsName
  <2> QED BY <1>1, <2>1
<1>2. CASE IsName(d.name)
  <2>1. Datum(d) = <<Sent(d)>>
    BY <1>2 DEF Datum, Sent, IsName
  <2>2. <<Sent(d)>> \in Seq(D) /\ Len(<<Sent(d)>>) = 1 /\ <<Sent(d)>>[1] = Sent(d)
    OBVIOUS
  <2> QED BY <1>2, <2>1, <2>2
<1> QED BY <1>1, <1>2

(* The data of a form have for each name that of the last control. *)
LEMMA DataAre ==
  ASSUME NEW S, NEW form \in Seq(Controls(S)), NEW n, IsName(n), NEW last \in 1 .. Len(form),
         form[last].name = n, IsEl(form[last]),
         \A i \in 1 .. Len(form) : form[i].name = n /\ IsEl(form[i]) => i <= last
  PROVE  Received(FormData(form), n) = ElValue(form[last])
<1>1. PICK C : C = Controls(S)
  OBVIOUS
<1>2. PICK L \in Nat : L = Len(form) /\ DOMAIN form = 1 .. L /\ \A i \in 1 .. L : form[i] \in C
  BY <1>1
<1>3. PICK ss \in Seq(Seq(C)) :
        /\ Len(ss) = L /\ FlattenSeq(ss) = Els(form)
        /\ \A i \in 1 .. L : IF ~ IsEl(form[i]) THEN Len(ss[i]) = 0
                             ELSE Len(ss[i]) = 1 /\ ss[i][1] = form[i]
  <2> DEFINE f == [i \in 1 .. L |-> IF DomType(form[i]) = "image" THEN <<>> ELSE <<form[i]>>]
  <2>1. ASSUME NEW i \in 1 .. L
        PROVE  /\ f[i] \in Seq(C)
               /\ IF ~ IsEl(form[i]) THEN Len(f[i]) = 0
                  ELSE Len(f[i]) = 1 /\ f[i][1] = form[i]
    <3>1. form[i] \in C
      BY <1>2
    <3>2. CASE ~ IsEl(form[i])
      <4>1. f[i] = <<>>
        BY <3>2 DEF IsEl
      <4> QED BY <3>2, <4>1
    <3>3. CASE IsEl(form[i])
      <4>1. f[i] = <<form[i]>>
        BY <3>3 DEF IsEl
      <4> QED BY <3>1, <3>3, <4>1
    <3> QED BY <3>2, <3>3
  <2>2. FlattenSeq(f) = Els(form)
    BY <1>2 DEF Els
  <2>3. f = [i \in 1 .. L |-> f[i]]
    OBVIOUS
  <2> HIDE DEF f
  <2>4. f \in Seq(Seq(C)) /\ Len(f) = L
    BY <2>1, <2>3, SeqMade
  <2> QED BY <2>1, <2>2, <2>4
<1>4. PICK c \in C : c = form[last] /\ c.name = n
  BY <1>2
<1>5. PICK P : P = {d \in C : d.name = n}
  OBVIOUS
<1>6. IsLastPart(ss, P, last, c)
  <2>1. \A k \in 1 .. L : Len(ss[k]) \in {0, 1}
    BY <1>3
  <2>2. Len(ss[last]) = 1 /\ ss[last][1] = c
    BY <1>2, <1>3, <1>4
  <2>3. c \in P
    BY <1>4, <1>5
  <2>4. ASSUME NEW k \in 1 .. L, k > last, Len(ss[k]) = 1 PROVE ss[k][1] \notin P
    <3>1. IsEl(form[k]) /\ ss[k][1] = form[k]
      <4>1. ~ IsEl(form[k]) => Len(ss[k]) = 0
        BY <1>3
      <4> QED BY <1>3, <2>4, <4>1
    <3>2. ~ (k <= last)
      BY <1>2, <2>4
    <3>3. form[k].name # n
      BY <1>2, <3>1, <3>2
    <3> QED BY <1>5, <3>1, <3>3
  <2> QED BY <1>3, <2>1, <2>2, <2>3, <2>4 DEF IsLastPart
<1>7. PICK u \in Seq(C) : u = Els(form) /\ IsLast(u, P, c)
  <2>1. last \in 1 .. Len(ss)
    BY <1>2, <1>3
  <2>2. IsLast(FlattenSeq(ss), P, c)
    BY <1>6, <2>1, LastKept
  <2>3. FlattenSeq(ss) \in Seq(C)
    BY Flattened
  <2> QED BY <1>3, <2>2, <2>3
<1>8. PICK M \in Nat : M = Len(u) /\ DOMAIN u = 1 .. M /\ \A i \in 1 .. M : u[i] \in C
  OBVIOUS
<1>9. PICK j \in 1 .. M : u[j] = c /\ \A i \in 1 .. M : i > j => u[i] \notin P
  BY <1>7, <1>8 DEF IsLast
<1>10. PICK D : D = {Sent(d) : d \in C}
  OBVIOUS
<1>11. ASSUME NEW d \in C
       PROVE  /\ Datum(d) \in Seq(D) /\ Sent(d) \in D
              /\ ~ IsName(d.name) => Len(Datum(d)) = 0
              /\ IsName(d.name) => Len(Datum(d)) = 1 /\ Datum(d)[1] = Sent(d)
  <2>1. Sent(d) \in D
    BY <1>10
  <2> QED BY <2>1, DatumIs
<1>12. PICK tt \in Seq(Seq(D)) :
         /\ Len(tt) = M /\ FlattenSeq(tt) = FormData(form)
         /\ \A i \in 1 .. M : tt[i] = Datum(u[i])
  <2> DEFINE f == [i \in 1 .. M |-> Datum(u[i])]
  <2>1. \A i \in 1 .. M : f[i] \in Seq(D) /\ f[i] = Datum(u[i])
    BY <1>8, <1>11
  <2>2. FlattenSeq(f) = FormData(form)
    BY <1>7, <1>8 DEF FormData
  <2>3. f = [i \in 1 .. M |-> f[i]]
    OBVIOUS
  <2> HIDE DEF f
  <2>4. f \in Seq(Seq(D)) /\ Len(f) = M
    BY <2>1, <2>3, SeqMade
  <2> QED BY <2>1, <2>2, <2>4
<1>13. PICK Q, x : Q = {d \in D : d.name = n} /\ x = Sent(c)
  OBVIOUS
<1>14. IsLastPart(tt, Q, j, x)
  <2>1. \A k \in 1 .. M : Len(tt[k]) \in {0, 1}
    BY <1>8, <1>11, <1>12
  <2>2. Len(tt[j]) = 1 /\ tt[j][1] = x /\ x \in D
    <3>1. tt[j] = Datum(c)
      BY <1>9, <1>12
    <3>2. Len(Datum(c)) = 1 /\ Datum(c)[1] = x /\ x \in D
      BY <1>4, <1>11, <1>13
    <3> QED BY <3>1, <3>2
  <2>3. x \in Q
    <3>1. x.name = n
      BY <1>4, <1>13 DEF Sent
    <3> QED BY <1>13, <2>2, <3>1
  <2>4. ASSUME NEW k \in 1 .. M, k > j, Len(tt[k]) = 1 PROVE tt[k][1] \notin Q
    <3>1. PICK d \in C : d = u[k]
      BY <1>8
    <3>2. d \notin P
      BY <1>9, <2>4, <3>1
    <3>3. d.name # n
      BY <1>5, <3>2
    <3>4. Sent(d).name # n
      BY <3>3 DEF Sent
    <3>5. tt[k] = Datum(d)
      BY <1>12, <3>1
    <3>6. tt[k][1] = Sent(d)
      <4>1. PICK m \in Nat : m = Len(Datum(d)) /\ m = 1
        BY <2>4, <3>5
      <4>2. ~ IsName(d.name) => m = 0
        BY <1>11, <4>1
      <4>3. IsName(d.name)
        BY <4>1, <4>2
      <4> QED BY <1>11, <3>5, <4>3
    <3> QED BY <1>13, <3>4, <3>6
  <2> QED BY <1>12, <2>1, <2>2, <2>3, <2>4 DEF IsLastPart
<1>15. PICK v \in Seq(D) : v = FormData(form) /\ IsLast(v, Q, x)
  <2>1. j \in 1 .. Len(tt)
    BY <1>12
  <2>2. IsLast(FlattenSeq(tt), Q, x)
    BY <1>14, <2>1, LastKept
  <2>3. FlattenSeq(tt) \in Seq(D)
    BY Flattened
  <2> QED BY <1>12, <2>2, <2>3
<1>16. Received(v, n) = x.value
  <2>1. PICK N \in Nat : N = Len(v) /\ \A i \in 1 .. N : v[i] \in D
    OBVIOUS
  <2>2. PICK h \in 1 .. N : v[h] = x /\ x \in Q /\ \A i \in 1 .. N : i > h => v[i] \notin Q
    BY <1>15, <2>1 DEF IsLast
  <2>3. x.name = n /\ \A i \in 1 .. N : i > h => v[i].name # n
    BY <1>13, <2>1, <2>2
  <2>4. LastNamed(v, n, x)
    BY <2>1, <2>2, <2>3 DEF LastNamed
  <2> QED BY <2>4, ReceivedIs
<1>17. x.value = ElValue(c)
  BY <1>13 DEF Sent
<1> QED BY <1>4, <1>15, <1>16, <1>17

(* The law of one name, for the controls "of" that have it. *)
ArrivesFor(form, n, of, last, on) ==
  IF DomType(form[last]) = "checkbox"
  THEN Received(FormData(form), n) = "1" <=> form[last].checked
  ELSE IF on # {}
  THEN Received(FormData(form), n) = form[Max(on)].value
         <=> last \in on \/ form[last].value = form[Max(on)].value
  ELSE Received(FormData(form), n) = form[last].value

(* These are they, the last of them, and those that a browser sends. *)
ChoicesOf(form, n, of, last, on) ==
  /\ of = {i \in DOMAIN form : form[i].name = n /\ DomType(form[i]) # "image"} /\ of # {}
  /\ last = Max(of)
  /\ on = {i \in of : ~Off(form[i])}

(* form.ts, formData(): each name arrives as the law says. *)
LEMMA ChoiceOfOne ==
  ASSUME NEW S, NEW form \in Seq(Controls(S)), NEW n, IsName(n),
         NEW of, NEW last, NEW on, ChoicesOf(form, n, of, last, on)
  PROVE  ArrivesFor(form, n, of, last, on)
<1>0. PICK L \in Nat : /\ L = Len(form) /\ DOMAIN form = 1 .. L
                       /\ \A i \in 1 .. L : form[i] \in Controls(S)
  OBVIOUS
<1>1. of \in SUBSET Nat /\ \A i \in of : i <= L
  <2>1. of \subseteq 1 .. L
    BY <1>0 DEF ChoicesOf
  <2> QED BY <2>1
<1>2. last \in of /\ \A i \in of : i <= last
  <2>1. of # {} /\ last = Max(of)
    BY DEF ChoicesOf
  <2> QED BY <1>1, <2>1, MaxIsLargest
<1>3. PICK c \in Controls(S) : c = form[last]
  <2>1. last \in 1 .. L
    BY <1>0, <1>2 DEF ChoicesOf
  <2> QED BY <1>0, <2>1
<1>4. Received(FormData(form), n) = ElValue(c)
  <2>1. /\ last \in 1 .. Len(form) /\ form[last].name = n /\ IsEl(form[last])
        /\ \A i \in 1 .. Len(form) : form[i].name = n /\ IsEl(form[i]) => i <= last
    BY <1>0, <1>2 DEF ChoicesOf, IsEl
  <2> QED BY <1>3, <2>1, DataAre
<1>5. CASE DomType(c) = "checkbox"
  <2>1. ElValue(c) = "1" <=> c.checked
    <3>1. c.checked \in BOOLEAN
      BY DEF Controls
    <3> QED BY <1>5, <3>1 DEF ElValue
  <2> QED BY <1>3, <1>4, <1>5, <2>1 DEF ArrivesFor
<1>6. CASE DomType(c) # "checkbox" /\ on # {}
  <2>1. ElValue(c) = c.value
    BY <1>6 DEF ElValue
  <2>2. on \in SUBSET Nat /\ \A i \in on : i <= L /\ i <= last
    <3>1. on \subseteq of
      BY DEF ChoicesOf
    <3> QED BY <1>1, <1>2, <3>1
  <2>3. Max(on) \in on /\ \A i \in on : i <= Max(on)
    BY <1>6, <2>2, MaxIsLargest
  <2>4. last \in on => Max(on) = last
    <3>1. SUFFICES ASSUME last \in on PROVE Max(on) = last
      OBVIOUS
    <3>2. PICK m \in Nat, h \in Nat : m = Max(on) /\ h = last /\ m <= h /\ h <= m
      BY <2>2, <2>3, <3>1
    <3> QED BY <3>2
  <2> QED BY <1>3, <1>4, <1>6, <2>1, <2>3, <2>4 DEF ArrivesFor
<1>7. CASE DomType(c) # "checkbox" /\ on = {}
  <2>1. ElValue(c) = c.value
    BY <1>7 DEF ElValue
  <2> QED BY <1>3, <1>4, <1>7, <2>1 DEF ArrivesFor
<1> QED BY <1>5, <1>6, <1>7

(* form.ts, formData(): so the choice arrives as the law says. *)
LEMMA ChoicesArrive ==
  ASSUME NEW S, NEW form \in Seq(Controls(S))
  PROVE  ChoiceArrives(form)
<1> DEFINE Of(n) == {i \in DOMAIN form : form[i].name = n /\ DomType(form[i]) # "image"}
<1>1. ASSUME NEW n, IsName(n), Of(n) # {}
      PROVE  LET last == Max(Of(n))
                 on == {i \in Of(n) : ~Off(form[i])}
             IN  CASE DomType(form[last]) = "checkbox" ->
                        Received(FormData(form), n) = "1" <=> form[last].checked
                   [] DomType(form[last]) # "checkbox" /\ on # {} ->
                        Received(FormData(form), n) = form[Max(on)].value
                          <=> last \in on \/ form[last].value = form[Max(on)].value
                   [] OTHER -> Received(FormData(form), n) = form[last].value
  <2>1. PICK of : of = Of(n)
    OBVIOUS
  <2>2. PICK last : last = Max(of)
    OBVIOUS
  <2>3. PICK on : on = {i \in of : ~Off(form[i])}
    OBVIOUS
  <2>4. ArrivesFor(form, n, of, last, on)
    <3>1. ChoicesOf(form, n, of, last, on)
      BY <1>1, <2>1, <2>2, <2>3 DEF ChoicesOf
    <3> QED BY <1>1, <3>1, ChoiceOfOne
  <2> HIDE DEF Of
  <2> QED BY <2>1, <2>2, <2>3, <2>4 DEF ArrivesFor
<1> QED BY <1>1 DEF ChoiceArrives, IsName

(* The arguments of an address, or the data of a form; an address; the names. *)
Pairs(S) == [name : S, value : S]
Targets(S) == [path : S, args : Seq(Pairs(S))]
NamesIn(args) == {args[i].name : i \in DOMAIN args}

(* $.ajax(): what is appended counts, and what was there before stays. *)
LEMMA AppendedCounts ==
  ASSUME NEW P, NEW s \in Seq(P), NEW t \in Seq(P)
  PROVE  /\ \A n \in NamesIn(t) : Received(s \o t, n) = Received(t, n)
         /\ NamesIn(s \o t) = NamesIn(s) \cup NamesIn(t)
<1>0. PICK u : u = s \o t
  OBVIOUS
<1>1. PICK a \in Nat, b \in Nat : a = Len(s) /\ b = Len(t) /\ DOMAIN s = 1 .. a /\ DOMAIN t = 1 .. b
  OBVIOUS
<1>2. u \in Seq(P) /\ Len(u) = a + b /\ At(u, 0, s) /\ At(u, a, t)
  BY <1>0, <1>1, Placed
<1>3. /\ DOMAIN u = 1 .. a + b
      /\ \A i \in 1 .. a : u[i] = s[i]
      /\ \A i \in 1 .. b : u[a + i] = t[i]
  <2>1. DOMAIN u = 1 .. a + b
    BY <1>2
  <2>2. \A i \in 1 .. a : u[0 + i] = s[i] /\ 0 + i = i
    BY <1>1, <1>2 DEF At
  <2>3. \A i \in 1 .. b : u[a + i] = t[i]
    BY <1>1, <1>2 DEF At
  <2> QED BY <2>1, <2>2, <2>3
<1>4. ASSUME NEW n \in NamesIn(t) PROVE Received(u, n) = Received(t, n)
  <2>1. PICK k \in 1 .. b : t[k].name = n
    BY <1>1 DEF NamesIn
  <2>2. PICK Q : Q = {d \in P : d.name = n}
    OBVIOUS
  <2>3. t[k] \in Q
    <3>1. t[k] \in P
      BY <1>1
    <3> QED BY <2>1, <2>2, <3>1
  <2>4. PICK x \in P : IsLast(t, Q, x)
    BY <1>1, <2>3, HasLast
  <2>5. PICK j \in 1 .. b : t[j] = x /\ x \in Q /\ \A i \in 1 .. b : i > j => t[i] \notin Q
    BY <1>1, <2>4 DEF IsLast
  <2>6. x.name = n /\ \A i \in 1 .. b : i > j => t[i].name # n
    <3>1. \A i \in 1 .. b : t[i] \in P
      BY <1>1
    <3> QED BY <2>2, <2>5, <3>1
  <2>7. LastNamed(t, n, x)
    BY <1>1, <2>5, <2>6 DEF LastNamed
  <2>8. LastNamed(u, n, x)
    <3>1. a + j \in 1 .. a + b /\ u[a + j] = x
      BY <1>3, <2>5
    <3>2. ASSUME NEW i \in 1 .. a + b, i > a + j PROVE u[i].name # n
      <4>1. PICK h \in 1 .. b : i = a + h /\ h > j
        <5>1. i - a \in 1 .. b /\ i = a + (i - a) /\ i - a > j
          BY <3>2
        <5> QED BY <5>1
      <4> QED BY <1>3, <2>6, <4>1
    <3> QED BY <1>2, <2>6, <3>1, <3>2 DEF LastNamed
  <2>9. Received(t, n) = x.value
    BY <2>7, ReceivedIs
  <2>10. Received(u, n) = x.value
    BY <1>2, <2>8, ReceivedIs
  <2> QED BY <2>9, <2>10
<1>5. NamesIn(u) \subseteq NamesIn(s) \cup NamesIn(t)
  <2>1. ASSUME NEW i \in 1 .. a + b PROVE u[i].name \in NamesIn(s) \cup NamesIn(t)
    <3>1. CASE i <= a
      <4>1. i \in 1 .. a
        BY <3>1
      <4> QED BY <1>1, <1>3, <4>1 DEF NamesIn
    <3>2. CASE ~ (i <= a)
      <4>1. PICK h \in 1 .. b : i = a + h
        <5>1. i - a \in 1 .. b /\ i = a + (i - a)
          BY <3>2
        <5> QED BY <5>1
      <4> QED BY <1>1, <1>3, <4>1 DEF NamesIn
    <3> QED BY <3>1, <3>2
  <2> QED BY <1>3, <2>1 DEF NamesIn
<1>6. NamesIn(s) \cup NamesIn(t) \subseteq NamesIn(u)
  <2>1. ASSUME NEW i \in 1 .. a PROVE s[i].name \in NamesIn(u)
    <3>1. i \in 1 .. a + b
      OBVIOUS
    <3> QED BY <1>3, <3>1 DEF NamesIn
  <2>2. ASSUME NEW i \in 1 .. b PROVE t[i].name \in NamesIn(u)
    <3>1. a + i \in 1 .. a + b
      OBVIOUS
    <3> QED BY <1>3, <3>1 DEF NamesIn
  <2> QED BY <1>1, <2>1, <2>2 DEF NamesIn
<1> QED BY <1>0, <1>4, <1>5, <1>6

(* form.ts, uri() and ajax: the data of a form reach what the browser asks. *)
LEMMA SendsToTheSame ==
  ASSUME NEW S, NEW form, NEW here \in Targets(S), NEW data \in Seq(Pairs(S)),
         form.action = <<>> \/ \E a \in Targets(S) : form.action = <<a>>
  PROVE  SentToTheSame(form, here, data)
<1> DEFINE asked == Requested(form, here, data)
           native == IF form.action = <<>> THEN here ELSE form.action[1]
           Names(args) == {args[i].name : i \in DOMAIN args}
<1>1. PICK uri \in Targets(S) : uri = Uri(form, here)
  <2>1. CASE form.action = <<>>
    <3>1. Uri(form, here) = here
      BY <2>1 DEF Uri
    <3> QED BY <3>1
  <2>2. CASE \E a \in Targets(S) : form.action = <<a>>
    <3>1. PICK a \in Targets(S) : form.action = <<a>>
      BY <2>2
    <3>2. Uri(form, here) = a
      BY <3>1 DEF Uri
    <3> QED BY <3>2
  <2> QED BY <2>1, <2>2
<1>2. PICK v : v = uri.args \o data
  OBVIOUS
<1>4. asked = IF SubmitMethod(form) = "GET" THEN [uri EXCEPT !.args = v] ELSE uri
  BY <1>1, <1>2 DEF Requested
<1>5. asked.path = uri.path /\ asked.args = IF SubmitMethod(form) = "GET" THEN v ELSE uri.args
  BY <1>4 DEF Targets
<1>6. /\ \A n \in NamesIn(data) : Received(v, n) = Received(data, n)
      /\ NamesIn(v) = NamesIn(uri.args) \cup NamesIn(data)
  <2>1. PICK P, s : P = Pairs(S) /\ s = uri.args
    OBVIOUS
  <2>2. s \in Seq(P) /\ data \in Seq(P)
    BY <2>1 DEF Targets
  <2>3. v = s \o data
    BY <1>2, <2>1
  <2>4. /\ \A n \in NamesIn(data) : Received(v, n) = Received(data, n)
        /\ NamesIn(v) = NamesIn(s) \cup NamesIn(data)
    <3>1. /\ \A n \in NamesIn(data) : Received(s \o data, n) = Received(data, n)
          /\ NamesIn(s \o data) = NamesIn(s) \cup NamesIn(data)
      BY <2>2, AppendedCounts
    <3> QED BY <2>3, <3>1
  <2> QED BY <2>1, <2>4
<1>7. SubmitMethod(form) = "GET" =>
        /\ \A n \in NamesIn(data) : Received(asked.args, n) = Received(data, n)
        /\ NamesIn(asked.args) \ NamesIn(data) = NamesIn(uri.args) \ NamesIn(data)
  BY <1>5, <1>6
<1>8. SubmitMethod(form) = "POST" => asked.args = uri.args
  BY <1>5
<1>9. native = uri
  BY <1>1 DEF Uri
<1>11. /\ asked.path = native.path
       /\ SubmitMethod(form) = "GET" =>
            /\ \A n \in NamesIn(data) : Received(asked.args, n) = Received(data, n)
            /\ NamesIn(asked.args) \ NamesIn(data) = NamesIn(native.args) \ NamesIn(data)
       /\ SubmitMethod(form) = "POST" => asked.args = native.args
  BY <1>5, <1>7, <1>8, <1>9
<1> HIDE DEF asked, native
<1>12. /\ asked.path = native.path
       /\ SubmitMethod(form) = "GET" =>
            /\ \A n \in Names(data) : Received(asked.args, n) = Received(data, n)
            /\ Names(asked.args) \ Names(data) = Names(native.args) \ Names(data)
       /\ SubmitMethod(form) = "POST" => asked.args = native.args
  BY <1>11 DEF NamesIn
<1> USE DEF asked, native
<1> QED BY <1>12 DEF SentToTheSame

(* http.ts, app.ts, form.ts and widget.ts: whatever is written, however  *)
(* long, a query is read as it was written, a link is active on its own    *)
(* page, fieldType() agrees with the selector of the buttons, the data of a*)
(* form have for each name the user's choice (but for a group of radio     *)
(* buttons whose last one is off), they reach the address that the browser *)
(* itself would take next to what that had, and the judges of a result     *)
(* agree but for one that succeeds with a falsy value or is both.          *)
THEOREM DataArrivesAlways ==
  ASSUME NEW S, Special \subseteq S,
         input.law = "query" => input.args \in Seq(Arguments(S)),
         input.law = "link" => input.link \in Seq(S) /\ input.path \in Seq(S),
         input.law = "data" => input.form \in Seq(Controls(S)),
         input.law = "submit" =>
           /\ input.form.action = <<>> \/ \E a \in Targets(S) : input.form.action = <<a>>
           /\ input.here \in Targets(S) /\ input.data \in Seq(Pairs(S)),
         input.law = "result" => input.ok \in Kinds /\ input.err \in Kinds
  PROVE  DataArrives
<1>1. CASE input.law = "query"
  BY <1>1, ArgumentsAreRead DEF DataArrives
<1>2. CASE input.law = "link"
  BY <1>2, LinksAreFound DEF DataArrives
<1>3. CASE input.law = "data"
  BY <1>3, ChoicesArrive DEF DataArrives
<1>4. CASE input.law = "type"
  BY <1>4, TypesAgreeAll DEF DataArrives
<1>5. CASE input.law = "submit"
  BY <1>5, SendsToTheSame DEF DataArrives
<1>6. CASE input.law = "result"
  BY <1>6, ResultsAreJudged DEF DataArrives
<1>7. CASE input.law \notin {"query", "link", "data", "type", "submit", "result"}
  BY <1>7 DEF DataArrives
<1> QED BY <1>1, <1>2, <1>3, <1>4, <1>5, <1>6, <1>7
=============================================================================
