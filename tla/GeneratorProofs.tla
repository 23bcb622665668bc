---------------------------- MODULE GeneratorProofs ----------------------------
(***************************************************************************)
(* What the parsers make of files of any length, and what the libraries    *)
(* built from those files therefore agree on.                              *)
(***************************************************************************)
EXTENDS Generators, WellFoundedInduction, TLAPS

(***************************************************************************)
(* Reading a file line by line.                                            *)
(***************************************************************************)
\* Induction: a nonempty set of natural numbers has a least element, the first line
\* at which something is not so.
LEMMA FirstLine ==
    ASSUME NEW T, T \subseteq Nat, T # {}
    PROVE  \E m \in T : \A k \in T : m <= k
<1> DEFINE R == OpToRel(<, Nat)
<1>1. IsWellFoundedOn(R, Nat)
  BY NatLessThanWellFounded
<1>2. \A x, y \in Nat : x < y => <<x, y>> \in R
  BY DEF OpToRel
<1> HIDE DEF R
<1>3. PICK m \in T : \A k \in T : ~(<<k, m>> \in R)
  BY <1>1, WFMin
<1>4. ASSUME NEW k \in T PROVE m <= k
  <2>1. k \in Nat /\ m \in Nat
    OBVIOUS
  <2>2. ~(k < m)
    BY <1>2, <1>3, <2>1
  <2> QED BY <2>1, <2>2
<1> QED BY <1>4

\* What is known after n declarations.
HeaderRun(h, decls, n) ==
    h = [i \in 0..n |->
            IF i = 0 THEN NoDeclarations ELSE HeaderLine(h[i - 1], decls[i])]

\* The parser of headers goes through any number of declarations.
LEMMA HeaderRuns ==
    ASSUME NEW decls, NEW n \in Nat
    PROVE  \E h : HeaderRun(h, decls, n)
<1> DEFINE T == {k \in Nat : ~\E h : HeaderRun(h, decls, k)}
<1> SUFFICES ASSUME T # {} PROVE FALSE
  OBVIOUS
<1>1. PICK m \in T : \A k \in T : m <= k
  BY FirstLine
<1>2. m \in Nat /\ ~\E h : HeaderRun(h, decls, m)
  OBVIOUS
<1>3. CASE m = 0
  <2> DEFINE h == [i \in 0..0 |-> NoDeclarations]
  <2>1. \A i \in 0..0 : i = 0
    OBVIOUS
  <2>2. h = [i \in 0..0 |->
               IF i = 0 THEN NoDeclarations ELSE HeaderLine(h[i - 1], decls[i])]
    BY <2>1
  <2> HIDE DEF h
  <2>3. HeaderRun(h, decls, 0)
    BY <2>2 DEF HeaderRun
  <2> QED BY <1>2, <1>3, <2>3
<1>4. CASE m # 0
  <2>1. m - 1 \in Nat /\ m - 1 \notin T
    BY <1>1, <1>2, <1>4
  <2>2. PICK g : HeaderRun(g, decls, m - 1)
    BY <2>1
  <2> DEFINE h == [i \in 0..m |->
                     IF i = m THEN HeaderLine(g[m - 1], decls[m]) ELSE g[i]]
  <2>3. \A i \in 0..(m - 1) :
           g[i] = IF i = 0 THEN NoDeclarations ELSE HeaderLine(g[i - 1], decls[i])
    BY <2>2 DEF HeaderRun
  <2>4. ASSUME NEW i \in 0..m
        PROVE  h[i] = IF i = 0 THEN NoDeclarations ELSE HeaderLine(h[i - 1], decls[i])
    <3>1. CASE i = m
      <4>1. m - 1 \in 0..m /\ m - 1 # m /\ m \in 0..m
        BY <1>2, <1>4
      <4>2. h[m] = HeaderLine(g[m - 1], decls[m]) /\ h[m - 1] = g[m - 1]
        BY <4>1
      <4> HIDE DEF h
      <4> QED BY <1>4, <3>1, <4>2
    <3>2. CASE i # m
      <4>1. i \in 0..(m - 1) /\ i # 0 => i - 1 \in 0..m /\ i - 1 # m
        BY <1>2, <3>2
      <4>2. i \in 0..(m - 1) /\ h[i] = g[i] /\ (i # 0 => h[i - 1] = g[i - 1])
        BY <1>2, <3>2, <4>1
      <4> HIDE DEF h
      <4> QED BY <2>3, <4>2
    <3> QED BY <3>1, <3>2
  <2>5. h = [i \in 0..m |-> h[i]]
    OBVIOUS
  <2> HIDE DEF h
  <2>6. HeaderRun(h, decls, m)
    BY <2>4, <2>5 DEF HeaderRun
  <2> QED BY <1>2, <2>6
<1> QED BY <1>3, <1>4

\* What HeaderAfter is.
LEMMA HeaderAfterDef ==
    ASSUME NEW decls \in Seq(Declarations)
    PROVE  /\ HeaderAfter(decls)[0] = NoDeclarations
           /\ \A n \in 1..Len(decls) :
                 HeaderAfter(decls)[n] = HeaderLine(HeaderAfter(decls)[n - 1], decls[n])
<1>1. PICK g : HeaderRun(g, decls, Len(decls))
  BY HeaderRuns
<1>2. HeaderRun(HeaderAfter(decls), decls, Len(decls))
  BY <1>1 DEF HeaderRun, HeaderAfter
<1> PICK h, l : h = HeaderAfter(decls) /\ l = Len(decls)
  OBVIOUS
<1>3. /\ l \in Nat
      /\ \A i \in 0..l :
            h[i] = IF i = 0 THEN NoDeclarations ELSE HeaderLine(h[i - 1], decls[i])
  BY <1>2 DEF HeaderRun
<1>4. 0 \in 0..l /\ \A n \in 1..l : n \in 0..l /\ n # 0
  BY <1>3
<1> QED BY <1>3, <1>4

\* What is known after n lines of metadata.
MetaRun(h, lines, n) ==
    h = [i \in 0..n |->
            IF i = 0 THEN NoLines ELSE MetaLine(h[i - 1], lines[i])]

\* So does the parser of metadata.
LEMMA MetaRuns ==
    ASSUME NEW lines, NEW n \in Nat
    PROVE  \E h : MetaRun(h, lines, n)
<1> DEFINE T == {k \in Nat : ~\E h : MetaRun(h, lines, k)}
<1> SUFFICES ASSUME T # {} PROVE FALSE
  OBVIOUS
<1>1. PICK m \in T : \A k \in T : m <= k
  BY FirstLine
<1>2. m \in Nat /\ ~\E h : MetaRun(h, lines, m)
  OBVIOUS
<1>3. CASE m = 0
  <2> DEFINE h == [i \in 0..0 |-> NoLines]
  <2>1. \A i \in 0..0 : i = 0
    OBVIOUS
  <2>2. h = [i \in 0..0 |->
               IF i = 0 THEN NoLines ELSE MetaLine(h[i - 1], lines[i])]
    BY <2>1
  <2> HIDE DEF h
  <2>3. MetaRun(h, lines, 0)
    BY <2>2 DEF MetaRun
  <2> QED BY <1>2, <1>3, <2>3
<1>4. CASE m # 0
  <2>1. m - 1 \in Nat /\ m - 1 \notin T
    BY <1>1, <1>2, <1>4
  <2>2. PICK g : MetaRun(g, lines, m - 1)
    BY <2>1
  <2> DEFINE h == [i \in 0..m |->
                     IF i = m THEN MetaLine(g[m - 1], lines[m]) ELSE g[i]]
  <2>3. \A i \in 0..(m - 1) :
           g[i] = IF i = 0 THEN NoLines ELSE MetaLine(g[i - 1], lines[i])
    BY <2>2 DEF MetaRun
  <2>4. ASSUME NEW i \in 0..m
        PROVE  h[i] = IF i = 0 THEN NoLines ELSE MetaLine(h[i - 1], lines[i])
    <3>1. CASE i = m
      <4>1. m - 1 \in 0..m /\ m - 1 # m /\ m \in 0..m
        BY <1>2, <1>4
      <4>2. h[m] = MetaLine(g[m - 1], lines[m]) /\ h[m - 1] = g[m - 1]
        BY <4>1
      <4> HIDE DEF h
      <4> QED BY <1>4, <3>1, <4>2
    <3>2. CASE i # m
      <4>1. i \in 0..(m - 1) /\ i # 0 => i - 1 \in 0..m /\ i - 1 # m
        BY <1>2, <3>2
      <4>2. i \in 0..(m - 1) /\ h[i] = g[i] /\ (i # 0 => h[i - 1] = g[i - 1])
        BY <1>2, <3>2, <4>1
      <4> HIDE DEF h
      <4> QED BY <2>3, <4>2
    <3> QED BY <3>1, <3>2
  <2>5. h = [i \in 0..m |-> h[i]]
    OBVIOUS
  <2> HIDE DEF h
  <2>6. MetaRun(h, lines, m)
    BY <2>4, <2>5 DEF MetaRun
  <2> QED BY <1>2, <2>6
<1> QED BY <1>3, <1>4

\* What MetaAfter is.
LEMMA MetaAfterDef ==
    ASSUME NEW lines \in Seq(MetaLines)
    PROVE  /\ MetaAfter(lines)[0] = NoLines
           /\ \A n \in 1..Len(lines) :
                 MetaAfter(lines)[n] = MetaLine(MetaAfter(lines)[n - 1], lines[n])
<1>1. PICK g : MetaRun(g, lines, Len(lines))
  BY MetaRuns
<1>2. MetaRun(MetaAfter(lines), lines, Len(lines))
  BY <1>1 DEF MetaRun, MetaAfter
<1> PICK h, l : h = MetaAfter(lines) /\ l = Len(lines)
  OBVIOUS
<1>3. /\ l \in Nat
      /\ \A i \in 0..l :
            h[i] = IF i = 0 THEN NoLines ELSE MetaLine(h[i - 1], lines[i])
  BY <1>2 DEF MetaRun
<1>4. 0 \in 0..l /\ \A n \in 1..l : n \in 0..l /\ n # 0
  BY <1>3
<1> QED BY <1>3, <1>4

\* What the template has after n declarations.
TemplateRun(h, decls, n) ==
    h = [i \in 0..n |->
            IF i = 0 THEN NoBlocks ELSE TemplateLine(h[i - 1], decls[i])]

\* So does the one that writes the template.
LEMMA TemplateRuns ==
    ASSUME NEW decls, NEW n \in Nat
    PROVE  \E h : TemplateRun(h, decls, n)
<1> DEFINE T == {k \in Nat : ~\E h : TemplateRun(h, decls, k)}
<1> SUFFICES ASSUME T # {} PROVE FALSE
  OBVIOUS
<1>1. PICK m \in T : \A k \in T : m <= k
  BY FirstLine
<1>2. m \in Nat /\ ~\E h : TemplateRun(h, decls, m)
  OBVIOUS
<1>3. CASE m = 0
  <2> DEFINE h == [i \in 0..0 |-> NoBlocks]
  <2>1. \A i \in 0..0 : i = 0
    OBVIOUS
  <2>2. h = [i \in 0..0 |->
               IF i = 0 THEN NoBlocks ELSE TemplateLine(h[i - 1], decls[i])]
    BY <2>1
  <2> HIDE DEF h
  <2>3. TemplateRun(h, decls, 0)
    BY <2>2 DEF TemplateRun
  <2> QED BY <1>2, <1>3, <2>3
<1>4. CASE m # 0
  <2>1. m - 1 \in Nat /\ m - 1 \notin T
    BY <1>1, <1>2, <1>4
  <2>2. PICK g : TemplateRun(g, decls, m - 1)
    BY <2>1
  <2> DEFINE h == [i \in 0..m |->
                     IF i = m THEN TemplateLine(g[m - 1], decls[m]) ELSE g[i]]
  <2>3. \A i \in 0..(m - 1) :
           g[i] = IF i = 0 THEN NoBlocks ELSE TemplateLine(g[i - 1], decls[i])
    BY <2>2 DEF TemplateRun
  <2>4. ASSUME NEW i \in 0..m
        PROVE  h[i] = IF i = 0 THEN NoBlocks ELSE TemplateLine(h[i - 1], decls[i])
    <3>1. CASE i = m
      <4>1. m - 1 \in 0..m /\ m - 1 # m /\ m \in 0..m
        BY <1>2, <1>4
      <4>2. h[m] = TemplateLine(g[m - 1], decls[m]) /\ h[m - 1] = g[m - 1]
        BY <4>1
      <4> HIDE DEF h
      <4> QED BY <1>4, <3>1, <4>2
    <3>2. CASE i # m
      <4>1. i \in 0..(m - 1) /\ i # 0 => i - 1 \in 0..m /\ i - 1 # m
        BY <1>2, <3>2
      <4>2. i \in 0..(m - 1) /\ h[i] = g[i] /\ (i # 0 => h[i - 1] = g[i - 1])
        BY <1>2, <3>2, <4>1
      <4> HIDE DEF h
      <4> QED BY <2>3, <4>2
    <3> QED BY <3>1, <3>2
  <2>5. h = [i \in 0..m |-> h[i]]
    OBVIOUS
  <2> HIDE DEF h
  <2>6. TemplateRun(h, decls, m)
    BY <2>4, <2>5 DEF TemplateRun
  <2> QED BY <1>2, <2>6
<1> QED BY <1>3, <1>4

\* What TemplateAfter is.
LEMMA TemplateAfterDef ==
    ASSUME NEW decls \in Seq(Declarations)
    PROVE  /\ TemplateAfter(decls)[0] = NoBlocks
           /\ \A n \in 1..Len(decls) :
                 TemplateAfter(decls)[n] = TemplateLine(TemplateAfter(decls)[n - 1], decls[n])
<1>1. PICK g : TemplateRun(g, decls, Len(decls))
  BY TemplateRuns
<1>2. TemplateRun(TemplateAfter(decls), decls, Len(decls))
  BY <1>1 DEF TemplateRun, TemplateAfter
<1> PICK h, l : h = TemplateAfter(decls) /\ l = Len(decls)
  OBVIOUS
<1>3. /\ l \in Nat
      /\ \A i \in 0..l :
            h[i] = IF i = 0 THEN NoBlocks ELSE TemplateLine(h[i - 1], decls[i])
  BY <1>2 DEF TemplateRun
<1>4. 0 \in 0..l /\ \A n \in 1..l : n \in 0..l /\ n # 0
  BY <1>3
<1> QED BY <1>3, <1>4

\* A template is a metadata file.
LEMMA TemplateType ==
    ASSUME NEW decls \in Seq(Declarations)
    PROVE  Template(decls) \in Seq(MetaLines)
<1> DEFINE A == TemplateAfter(decls)
           T == {n \in 0..Len(decls) : A[n] \notin Seq(MetaLines)}
<1>1. A[0] = NoBlocks /\ \A n \in 1..Len(decls) : A[n] = TemplateLine(A[n - 1], decls[n])
  BY TemplateAfterDef
<1> HIDE DEF A
<1>2. A[0] \in Seq(MetaLines)
  <2>1. /\ [cmd |-> "header", name |-> NoName] \in MetaLines
        /\ [cmd |-> "endheader", name |-> NoName] \in MetaLines
    BY DEF MetaLines
  <2> QED BY <1>1, <2>1 DEF NoBlocks
<1>3. T = {}
  <2> SUFFICES ASSUME T # {} PROVE FALSE
    OBVIOUS
  <2>1. PICK m \in T : \A k \in T : m <= k
    <3>1. T \subseteq Nat
      OBVIOUS
    <3> QED BY <3>1, FirstLine
  <2>2. m \in 0..Len(decls) /\ m # 0 /\ Len(decls) \in Nat /\ A[m] \notin Seq(MetaLines)
    BY <1>2, <2>1
  <2>3. m - 1 \in 0..Len(decls) /\ m \in 1..Len(decls) /\ m - 1 \notin T
    BY <2>1, <2>2
  <2>4. A[m - 1] \in Seq(MetaLines) /\ A[m] = TemplateLine(A[m - 1], decls[m])
    BY <1>1, <2>3
  <2>5. [cmd |-> "func", name |-> decls[m].name] \in MetaLines
    <3>1. decls[m] \in Declarations
      BY <2>3
    <3>2. decls[m].name \in Names
      BY <3>1, GeneratorsAssumption
    <3> QED BY <3>2 DEF MetaLines
  <2> QED BY <2>2, <2>4, <2>5 DEF TemplateLine
<1>4. Len(decls) \in 0..Len(decls)
  OBVIOUS
<1> QED BY <1>3, <1>4 DEF Template, A

-----------------------------------------------------------------------------
(***************************************************************************)
(* Headers.                                                                *)
(***************************************************************************)
\* What the parser knows after n declarations: the last declaration of each
\* function with its number, and each function once, in an order in which none
\* comes later than it was first declared.
LastDeclared(decls, n, functions) ==
    /\ DOMAIN functions = {decls[j].name : j \in 1..n}
    /\ \A f \in DOMAIN functions : \E k \in 1..n :
          /\ decls[k].name = f
          /\ functions[f] = [decl |-> decls[k], hash |-> k - 1]
          /\ \A j \in 1..n : j > k => decls[j].name # f

InFirstOrder(decls, n, functions, order) ==
    /\ order \in Seq(Names)
    /\ Len(order) <= n
    /\ \A i \in DOMAIN order : \A j \in 1..n : j < i => decls[j].name # order[i]
    /\ \A f \in DOMAIN functions : \E i \in DOMAIN order : order[i] = f

HeaderKnown(decls, n, h) ==
    /\ h.count = n
    /\ LastDeclared(decls, n, h.functions)
    /\ InFirstOrder(decls, n, h.functions, h.order)

\* One more declaration.
LEMMA HeaderStep ==
    ASSUME NEW decls \in Seq(Declarations), NEW n \in Nat, n + 1 \in 1..Len(decls),
           NEW h, HeaderKnown(decls, n, h),
           DOMAIN h = {"order", "functions", "count"}
    PROVE  LET g == HeaderLine(h, decls[n + 1])
           IN  HeaderKnown(decls, n + 1, g) /\ DOMAIN g = {"order", "functions", "count"}
<1> PICK d : d = decls[n + 1]
  OBVIOUS
<1> PICK g : g = HeaderLine(h, d)
  OBVIOUS
<1>1. d.name \in Names
  <2>1. d \in Declarations
    OBVIOUS
  <2> QED BY <2>1, GeneratorsAssumption
<1>2. /\ g.functions = Put(h.functions, d.name, [decl |-> d, hash |-> h.count])
      /\ g.order = IF d.name \in DOMAIN h.functions
                     THEN h.order ELSE Append(h.order, d.name)
      /\ g.count = h.count + 1
      /\ DOMAIN g = {"order", "functions", "count"}
  BY DEF HeaderLine
<1>3. 1..(n + 1) = 1..n \cup {n + 1}
  OBVIOUS
<1>4. DOMAIN g.functions = {decls[j].name : j \in 1..(n + 1)}
  BY <1>2, <1>3 DEF Put, HeaderKnown, LastDeclared
<1>5. ASSUME NEW f \in DOMAIN g.functions
      PROVE  \E k \in 1..(n + 1) :
                /\ decls[k].name = f
                /\ g.functions[f] = [decl |-> decls[k], hash |-> k - 1]
                /\ \A j \in 1..(n + 1) : j > k => decls[j].name # f
  <2>1. CASE f = d.name
    <3>1. g.functions[f] = [decl |-> decls[n + 1], hash |-> (n + 1) - 1]
      BY <1>2, <2>1 DEF Put, HeaderKnown
    <3>2. n + 1 \in 1..(n + 1) /\ \A j \in 1..(n + 1) : ~(j > n + 1)
      OBVIOUS
    <3> QED BY <2>1, <3>1, <3>2
  <2>2. CASE f # d.name
    <3>1. f \in DOMAIN h.functions /\ g.functions[f] = h.functions[f]
      BY <1>2, <2>2 DEF Put
    <3>2. PICK k \in 1..n : /\ decls[k].name = f
                            /\ h.functions[f] = [decl |-> decls[k], hash |-> k - 1]
                            /\ \A j \in 1..n : j > k => decls[j].name # f
      BY <3>1 DEF HeaderKnown, LastDeclared
    <3>3. k \in 1..(n + 1)
      OBVIOUS
    <3> QED BY <1>3, <2>2, <3>1, <3>2, <3>3
  <2> QED BY <2>1, <2>2
<1>6. ASSUME d.name \in DOMAIN h.functions
      PROVE  InFirstOrder(decls, n + 1, g.functions, g.order)
  <2>1. g.order = h.order
    BY <1>2, <1>6
  <2>2. ASSUME NEW i \in DOMAIN g.order, NEW j \in 1..(n + 1), j < i
        PROVE  decls[j].name # g.order[i]
    <3>1. i \in 1..Len(h.order) /\ Len(h.order) \in Nat /\ Len(h.order) <= n
      BY <2>1 DEF HeaderKnown, InFirstOrder
    <3>2. j \in 1..n
      BY <2>2, <3>1
    <3> QED BY <2>1, <2>2, <3>2 DEF HeaderKnown, InFirstOrder
  <2>3. ASSUME NEW f \in DOMAIN g.functions
        PROVE  \E i \in DOMAIN g.order : g.order[i] = f
    <3>1. f \in DOMAIN h.functions
      BY <1>2, <1>6 DEF Put
    <3> QED BY <2>1, <3>1 DEF HeaderKnown, InFirstOrder
  <2>4. h.order \in Seq(Names) /\ Len(h.order) \in Nat /\ Len(h.order) <= n
    BY DEF HeaderKnown, InFirstOrder
  <2>5. g.order \in Seq(Names) /\ Len(g.order) <= n + 1
    BY <2>1, <2>4
  <2> QED BY <2>2, <2>3, <2>5 DEF InFirstOrder
<1>7. ASSUME d.name \notin DOMAIN h.functions
      PROVE  InFirstOrder(decls, n + 1, g.functions, g.order)
  <2> PICK o, l : o = h.order /\ l = Len(h.order)
    OBVIOUS
  <2>1. /\ o \in Seq(Names) /\ l \in Nat /\ l <= n /\ DOMAIN o = 1..l
        /\ g.order = Append(o, d.name)
    BY <1>2, <1>7 DEF HeaderKnown, InFirstOrder
  <2>2. /\ g.order \in Seq(Names) /\ Len(g.order) = l + 1
        /\ DOMAIN g.order = 1..(l + 1)
        /\ g.order[l + 1] = d.name /\ \A i \in 1..l : g.order[i] = o[i]
    BY <1>1, <2>1
  <2>3. ASSUME NEW i \in DOMAIN g.order, NEW j \in 1..(n + 1), j < i
        PROVE  decls[j].name # g.order[i]
    <3>1. j \in 1..n
      BY <2>1, <2>2, <2>3
    <3>2. CASE i = l + 1
      <4>1. decls[j].name \in DOMAIN h.functions
        BY <3>1 DEF HeaderKnown, LastDeclared
      <4> QED BY <1>7, <2>2, <3>2, <4>1
    <3>3. CASE i # l + 1
      <4>1. i \in DOMAIN o /\ g.order[i] = o[i]
        BY <2>1, <2>2, <3>3
      <4> QED BY <2>3, <3>1, <4>1 DEF HeaderKnown, InFirstOrder
    <3> QED BY <3>2, <3>3
  <2>4. ASSUME NEW f \in DOMAIN g.functions
        PROVE  \E i \in DOMAIN g.order : g.order[i] = f
    <3>1. CASE f = d.name
      <4>1. l + 1 \in DOMAIN g.order
        BY <2>1, <2>2
      <4> QED BY <2>2, <3>1, <4>1
    <3>2. CASE f # d.name
      <4>1. f \in DOMAIN h.functions
        BY <1>2, <3>2 DEF Put
      <4>2. PICK i \in DOMAIN o : o[i] = f
        BY <4>1 DEF HeaderKnown, InFirstOrder
      <4>3. i \in DOMAIN g.order
        BY <2>1, <2>2
      <4> QED BY <2>1, <2>2, <4>2, <4>3
    <3> QED BY <3>1, <3>2
  <2>5. Len(g.order) <= n + 1
    BY <2>1, <2>2
  <2> QED BY <2>2, <2>3, <2>4, <2>5 DEF InFirstOrder
<1>8. g.count = n + 1
  BY <1>2 DEF HeaderKnown
<1>9. LastDeclared(decls, n + 1, g.functions)
  BY <1>4, <1>5 DEF LastDeclared
<1> QED BY <1>2, <1>6, <1>7, <1>8, <1>9 DEF HeaderKnown

\* What the parser knows after the whole header, however long it is.
LEMMA HeaderRead ==
    ASSUME NEW decls \in Seq(Declarations)
    PROVE  HeaderKnown(decls, Len(decls), parseHeaderFile(decls))
<1> DEFINE H == HeaderAfter(decls)
           Known(n) == /\ HeaderKnown(decls, n, H[n])
                       /\ DOMAIN H[n] = {"order", "functions", "count"}
           T == {n \in 0..Len(decls) : ~Known(n)}
<1>1. H[0] = NoDeclarations /\ \A n \in 1..Len(decls) : H[n] = HeaderLine(H[n - 1], decls[n])
  BY HeaderAfterDef
<1>2. Known(0)
  <2>1. H[0] = [order |-> <<>>, functions |-> <<>>, count |-> 0]
    BY <1>1 DEF NoDeclarations
  <2>2. /\ H[0].order = <<>> /\ H[0].functions = <<>> /\ H[0].count = 0
        /\ DOMAIN H[0] = {"order", "functions", "count"}
    BY <2>1
  <2> HIDE DEF H
  <2> QED BY <2>2 DEF HeaderKnown, LastDeclared, InFirstOrder
<1> HIDE DEF H
<1>3. T = {}
  <2> SUFFICES ASSUME T # {} PROVE FALSE
    OBVIOUS
  <2>1. PICK m \in T : \A k \in T : m <= k
    <3>1. T \subseteq Nat
      OBVIOUS
    <3> QED BY <3>1, FirstLine
  <2>2. m \in 0..Len(decls) /\ m # 0 /\ Len(decls) \in Nat
    BY <1>2, <2>1
  <2>3. m - 1 \in 0..Len(decls) /\ m \in 1..Len(decls) /\ m - 1 \notin T
    BY <2>1, <2>2
  <2>4. Known(m - 1) /\ H[m] = HeaderLine(H[m - 1], decls[m])
    BY <1>1, <2>3
  <2> PICK n, h : n = m - 1 /\ h = H[m - 1]
    OBVIOUS
  <2>5. n \in Nat /\ m = n + 1
    BY <2>2
  <2>6. HeaderKnown(decls, n + 1, HeaderLine(h, decls[n + 1]))
           /\ DOMAIN HeaderLine(h, decls[n + 1]) = {"order", "functions", "count"}
    BY <2>3, <2>4, <2>5, HeaderStep
  <2> QED BY <2>1, <2>4, <2>5, <2>6
<1>4. Known(Len(decls))
  <2>1. Len(decls) \in 0..Len(decls)
    OBVIOUS
  <2> HIDE DEF Known
  <2> QED BY <1>3, <2>1
<1> QED BY <1>4 DEF parseHeaderFile, H

\* With an array in the order of its hashes, a header has declared each function
\* once, and a header that it begins with has the same hashes and declarations.
LEMMA SamePlace ==
    ASSUME NEW old \in Seq(Declarations), NEW new \in Seq(Declarations),
           IsPrefix(old, new), HashesInOrder(parseHeaderFile(new)),
           NEW f \in DOMAIN parseHeaderFile(old).functions
    PROVE  LET place == parseHeaderFile(old).functions[f].hash + 1
           IN  /\ place \in DOMAIN parseHeaderFile(new).order
               /\ parseHeaderFile(new).order[place] = f
               /\ f \in DOMAIN parseHeaderFile(new).functions
               /\ parseHeaderFile(new).functions[f].decl =
                     parseHeaderFile(old).functions[f].decl
<1> PICK l, n : l = Len(old) /\ n = Len(new)
  OBVIOUS
<1> PICK g, h : g = parseHeaderFile(old) /\ h = parseHeaderFile(new)
  OBVIOUS
<1>1. /\ l \in Nat /\ n \in Nat /\ l <= n
      /\ \A i \in 1..l : old[i] = new[i]
  <2>1. l \in Nat /\ n \in Nat /\ l <= n
    BY DEF IsPrefix
  <2>2. ASSUME NEW i \in 1..l PROVE old[i] = new[i]
    <3>1. SubSeq(old, 1, l)[i] = old[i] /\ SubSeq(new, 1, l)[i] = new[i]
      BY <2>1
    <3> QED BY <3>1 DEF IsPrefix
  <2> QED BY <2>1, <2>2
<1>2. LastDeclared(old, l, g.functions) /\ LastDeclared(new, n, h.functions)
        /\ InFirstOrder(new, n, h.functions, h.order)
  BY HeaderRead DEF HeaderKnown
<1>3. PICK k \in 1..l : /\ old[k].name = f
                        /\ g.functions[f] = [decl |-> old[k], hash |-> k - 1]
  <2>1. f \in DOMAIN g.functions /\ LastDeclared(old, l, g.functions)
    BY <1>2
  <2>2. PICK k \in 1..l : /\ old[k].name = f
                          /\ g.functions[f] = [decl |-> old[k], hash |-> k - 1]
                          /\ \A j \in 1..l : j > k => old[j].name # f
    BY <2>1, ZenonT(60) DEF LastDeclared
  <2> QED BY <2>2
<1>4. k \in 1..n /\ new[k] = old[k] /\ f \in DOMAIN h.functions
  <2>1. k \in 1..n /\ new[k] = old[k]
    BY <1>1
  <2> QED BY <1>2, <1>3, <2>1 DEF LastDeclared
<1>5. PICK i \in DOMAIN h.order : h.order[i] = f
  BY <1>2, <1>4 DEF InFirstOrder
<1>6. PICK m \in 1..n : /\ new[m].name = f
                        /\ h.functions[f] = [decl |-> new[m], hash |-> m - 1]
                        /\ \A j \in 1..n : j > m => new[j].name # f
  BY <1>2, <1>4 DEF LastDeclared
<1>7. i \in Nat /\ m = i
  <2>1. i \in Nat /\ m \in Nat
    BY <1>1, <1>2 DEF InFirstOrder
  <2>2. h.functions[f].hash = i - 1
    BY <1>5 DEF HashesInOrder
  <2>3. m - 1 = i - 1
    BY <1>6, <2>2
  <2> QED BY <2>1, <2>3
<1>8. k = i
  <2>1. ~(k > m)
    BY <1>3, <1>4, <1>6
  <2>2. ~(k < i)
    BY <1>2, <1>3, <1>4, <1>5 DEF InFirstOrder
  <2>3. k \in Nat
    BY <1>1
  <2> QED BY <1>7, <2>1, <2>2, <2>3
<1>9. g.functions[f].hash + 1 = k /\ g.functions[f].decl = new[k]
        /\ h.functions[f].decl = new[k]
  <2>1. k \in Nat /\ (k - 1) + 1 = k
    BY <1>1
  <2> QED BY <1>3, <1>4, <1>6, <1>7, <1>8, <2>1
<1> QED BY <1>4, <1>5, <1>8, <1>9

-----------------------------------------------------------------------------
(***************************************************************************)
(* The libraries.                                                          *)
(***************************************************************************)
\* A library that was built, from these two files.
ClientLibrary(decls, lines) ==
    [built |-> TRUE, header |-> decls, meta |-> lines,
     functions |-> Generated(parseMetaFile(lines), parseHeaderFile(decls), ClientFunction),
     array |-> <<>>]

ServerLibrary(decls, lines) ==
    [built |-> TRUE, header |-> decls, meta |-> lines,
     functions |-> Generated(parseMetaFile(lines), parseHeaderFile(decls), ServerFunction),
     array |-> parseHeaderFile(decls).order]

\* Each library is that of the files it was built from, which the scripts could read.
LibrariesInv ==
    /\ header \in Seq(Declarations) /\ meta \in Seq(MetaLines)
    /\ client = NotBuilt \/
          \E decls \in Seq(Declarations), lines \in Seq(MetaLines) :
             ~parseMetaFile(lines).failed /\ client = ClientLibrary(decls, lines)
    /\ server = NotBuilt \/
          \E decls \in Seq(Declarations), lines \in Seq(MetaLines) :
             /\ ~parseMetaFile(lines).failed
             /\ HashesInOrder(parseHeaderFile(decls))
             /\ server = ServerLibrary(decls, lines)

\* What a library has for a function of its header.
LEMMA Libraries ==
    ASSUME NEW decls, NEW lines
    PROVE  LET h == parseHeaderFile(decls)
               a(f) == MetaArgs(parseMetaFile(lines), f)
           IN  /\ DOMAIN ClientLibrary(decls, lines).functions = DOMAIN h.functions
               /\ DOMAIN ServerLibrary(decls, lines).functions = DOMAIN h.functions
               /\ \A f \in DOMAIN h.functions :
                    /\ ClientLibrary(decls, lines).functions[f] =
                          ClientFunction(a(f), h.functions[f])
                    /\ ServerLibrary(decls, lines).functions[f] =
                          ServerFunction(a(f), h.functions[f])
BY DEF ClientLibrary, ServerLibrary, Generated

\* A file that is edited has lines of the same kind.
LEMMA Edited ==
    ASSUME NEW S, NEW s \in Seq(S), NEW i \in DOMAIN s
    PROVE  RemoveAt(s, i) \in Seq(S)
<1>1. SubSeq(s, 1, i - 1) \in Seq(S)
  <2>1. \A j \in 1..(i - 1) : j \in 1..Len(s)
    OBVIOUS
  <2> QED BY <2>1
<1>2. SubSeq(s, i + 1, Len(s)) \in Seq(S)
  <2>1. \A j \in (i + 1)..Len(s) : j \in 1..Len(s)
    OBVIOUS
  <2> QED BY <2>1
<1> QED BY <1>1, <1>2 DEF RemoveAt

\* Whatever is edited before, between and after the builds, each library is that of
\* the files it was built from, and those had the types of the files of a protocol.
THEOREM LibrariesInvariance == Spec => []LibrariesInv
<1>1. Init => LibrariesInv
  <2>1. \A S, n : Files(S, n) \subseteq Seq(S) \/ n \notin Nat
    BY DEF Files
  <2> QED BY <2>1, GeneratorsAssumption DEF Init, LibrariesInv
<1>2. LibrariesInv /\ [Next]_vars => LibrariesInv'
  <2> SUFFICES ASSUME LibrariesInv, [Next]_vars PROVE LibrariesInv'
    OBVIOUS
  <2>1. CASE BuildClient
    <3>1. ~parseMetaFile(meta).failed /\ client' = ClientLibrary(header, meta)
            /\ UNCHANGED <<header, meta, server>>
      BY <2>1 DEF BuildClient, ClientLibrary
    <3> QED BY <3>1 DEF LibrariesInv
  <2>2. CASE BuildServer
    <3>1. /\ ~parseMetaFile(meta).failed /\ HashesInOrder(parseHeaderFile(header))
          /\ server' = ServerLibrary(header, meta)
          /\ UNCHANGED <<header, meta, client>>
      BY <2>2 DEF BuildServer, ServerLibrary
    <3> QED BY <3>1 DEF LibrariesInv
  <2>3. CASE EditHeader
    <3>1. header \in Seq(Declarations) /\ UNCHANGED <<meta, client, server>>
      BY <2>3 DEF EditHeader, LibrariesInv
    <3>2. ASSUME NEW x \in Declarations, header' = Append(header, x) PROVE header' \in Seq(Declarations)
      BY <3>1, <3>2
    <3>3. ASSUME NEW i \in DOMAIN header, header' = RemoveAt(header, i)
          PROVE  header' \in Seq(Declarations)
      BY <3>1, <3>3, Edited
    <3>4. header' \in Seq(Declarations)
      BY <2>3, <3>2, <3>3 DEF EditHeader
    <3> QED BY <3>1, <3>4 DEF LibrariesInv
  <2>4. CASE EditMeta
    <3>1. meta \in Seq(MetaLines) /\ UNCHANGED <<header, client, server>>
      BY <2>4 DEF EditMeta, LibrariesInv
    <3>2. ASSUME NEW x \in MetaLines, meta' = Append(meta, x) PROVE meta' \in Seq(MetaLines)
      BY <3>1, <3>2
    <3>3. ASSUME NEW i \in DOMAIN meta, meta' = RemoveAt(meta, i)
          PROVE  meta' \in Seq(MetaLines)
      BY <3>1, <3>3, Edited
    <3>4. meta' \in Seq(MetaLines)
      BY <2>4, <3>2, <3>3 DEF EditMeta
    <3> QED BY <3>1, <3>4 DEF LibrariesInv
  <2>5. CASE CreateMetaTemplate
    <3>1. meta' \in Seq(MetaLines) /\ UNCHANGED <<header, client, server>>
      BY <2>5, TemplateType DEF CreateMetaTemplate, LibrariesInv
    <3> QED BY <3>1 DEF LibrariesInv
  <2>6. CASE UNCHANGED vars
    BY <2>6 DEF vars, LibrariesInv
  <2> QED BY <2>1, <2>2, <2>3, <2>4, <2>5, <2>6 DEF Next
<1> QED BY <1>1, <1>2, PTL DEF Spec

\* What compatible libraries were built from.
LEMMA CompatibleFiles ==
    ASSUME LibrariesInv, Compatible
    PROVE  \E old \in Seq(Declarations), new \in Seq(Declarations),
              lines \in Seq(MetaLines) :
              /\ IsPrefix(old, new) /\ HashesInOrder(parseHeaderFile(new))
              /\ client = ClientLibrary(old, lines)
              /\ server = ServerLibrary(new, lines)
<1>1. client # NotBuilt /\ server # NotBuilt
  BY DEF Compatible, NotBuilt
<1>2. PICK old \in Seq(Declarations), a \in Seq(MetaLines) : client = ClientLibrary(old, a)
  BY <1>1 DEF LibrariesInv
<1>3. PICK new \in Seq(Declarations), b \in Seq(MetaLines) :
         HashesInOrder(parseHeaderFile(new)) /\ server = ServerLibrary(new, b)
  BY <1>1 DEF LibrariesInv
<1>4. a = b /\ IsPrefix(old, new)
  BY <1>2, <1>3 DEF Compatible, ClientLibrary, ServerLibrary
<1> QED BY <1>2, <1>3, <1>4

\* What a request of the client and its redirect have in common.
LEMMA SameFunction ==
    ASSUME LibrariesInv, Compatible, NEW f \in Requests
    PROVE  \E a, g, h :
              /\ client.functions[f] = ClientFunction(a, g)
              /\ server.functions[f] = ServerFunction(a, h)
              /\ g.decl = h.decl
              /\ g.hash + 1 \in DOMAIN server.array /\ server.array[g.hash + 1] = f
<1>1. PICK old \in Seq(Declarations), new \in Seq(Declarations), lines \in Seq(MetaLines) :
         /\ IsPrefix(old, new) /\ HashesInOrder(parseHeaderFile(new))
         /\ client = ClientLibrary(old, lines)
         /\ server = ServerLibrary(new, lines)
  BY CompatibleFiles
<1>2. f \in DOMAIN parseHeaderFile(old).functions
  BY <1>1, Libraries DEF Requests
<1>3. server.array = parseHeaderFile(new).order
  BY <1>1 DEF ServerLibrary
<1> DEFINE a == MetaArgs(parseMetaFile(lines), f)
           g == parseHeaderFile(old).functions[f]
           h == parseHeaderFile(new).functions[f]
<1>4. /\ g.decl = h.decl /\ f \in DOMAIN parseHeaderFile(new).functions
      /\ g.hash + 1 \in DOMAIN server.array /\ server.array[g.hash + 1] = f
  BY <1>1, <1>2, <1>3, SamePlace
<1>5. client.functions[f] = ClientFunction(a, g) /\ server.functions[f] = ServerFunction(a, h)
  BY <1>1, <1>2, <1>4, Libraries
<1> HIDE DEF a, g, h
<1> QED BY <1>4, <1>5

\* A request finds its function, whatever was added at the header's end since.
THEOREM RequestsFindFunctions == Spec => []HashFindsFunction
<1>1. LibrariesInv => HashFindsFunction
  <2> SUFFICES ASSUME LibrariesInv, Compatible, NEW f \in Requests
               PROVE  LET place == client.functions[f].hash + 1
                      IN  /\ place \in DOMAIN server.array
                          /\ server.array[place] = f
                          /\ server.functions[f].code = "redirect"
    BY DEF HashFindsFunction
  <2>1. PICK a, g, h : /\ client.functions[f] = ClientFunction(a, g)
                       /\ server.functions[f] = ServerFunction(a, h)
                       /\ g.hash + 1 \in DOMAIN server.array
                       /\ server.array[g.hash + 1] = f
    BY SameFunction
  <2>2. client.functions[f].hash = g.hash
    BY <2>1 DEF ClientFunction
  <2>3. "custom" \notin a.flags /\ "unsupported" \notin a.flags
    <3>1. client.functions[f].code = "request"
      BY DEF Requests
    <3> QED BY <2>1, <3>1 DEF ClientFunction
  <2>4. server.functions[f].code = "redirect"
    BY <2>1, <2>3 DEF ServerFunction
  <2> QED BY <2>1, <2>2, <2>4
<1> QED BY <1>1, LibrariesInvariance, PTL

\* Compatible libraries take each argument of a request for the same kind.
THEOREM KindsAlwaysAgree == Spec => []KindsAgree
<1>1. LibrariesInv => KindsAgree
  <2> SUFFICES ASSUME LibrariesInv, Compatible, NEW f \in Requests
               PROVE  client.functions[f].kinds = server.functions[f].kinds
    BY DEF KindsAgree
  <2>1. PICK a, g, h : /\ client.functions[f] = ClientFunction(a, g)
                       /\ server.functions[f] = ServerFunction(a, h)
                       /\ g.decl = h.decl
    BY SameFunction
  <2> QED BY <2>1 DEF ClientFunction, ServerFunction, ServerArgumentType
<1> QED BY <1>1, LibrariesInvariance, PTL

\* Whatever a redirect returns, the client that called it waits for.
THEOREM ResultsAlwaysAwaited == Spec => []ResultsAwaited
<1>1. LibrariesInv => ResultsAwaited
  <2> SUFFICES ASSUME LibrariesInv, Compatible, NEW f \in Requests,
                      \/ server.functions[f].returnedSomething
                      \/ \E i \in DOMAIN server.functions[f].kinds :
                            server.functions[f].kinds[i] = "return"
               PROVE  client.functions[f].wait
    BY DEF ResultsAwaited
  <2>1. PICK a, g, h : /\ client.functions[f] = ClientFunction(a, g)
                       /\ server.functions[f] = ServerFunction(a, h)
                       /\ g.decl = h.decl
    BY SameFunction
  <2>2. \/ g.decl.nonVoid
        \/ \E i \in DOMAIN g.decl.args : ArgumentType(a, g.decl.args[i]) = "return"
    BY <2>1 DEF ServerFunction, ServerArgumentType
  <2>3. client.functions[f].wait = WaitForReturn(a, g.decl)
    BY <2>1 DEF ClientFunction
  <2> QED BY <2>2, <2>3 DEF WaitForReturn
<1> QED BY <1>1, LibrariesInvariance, PTL

-----------------------------------------------------------------------------
(***************************************************************************)
(* Metadata.                                                               *)
(***************************************************************************)
\* The j-th line is not text.
CommandAt(lines, j) ==
    \A i \in 1..(j - 1) : lines[i].cmd = "header" =>
        \E k \in (i + 1)..(j - 1) : lines[k].cmd = "endheader"

FuncAt(lines, j) == CommandAt(lines, j) /\ lines[j].cmd = "func"

\* The last block of a function in the first n lines.
Block(lines, n, f) ==
    {j \in 1..n : CommandAt(lines, j) /\ \E i \in 1..n :
        /\ FuncAt(lines, i) /\ i < j /\ lines[i].name = f
        /\ \A k \in 1..n : FuncAt(lines, k) /\ k > i => k > j /\ lines[k].name # f}

\* What the parser stores for a function is what is in its block.
Kind(cmd) == IF cmd = "bsize" THEN "blob" ELSE "return"

EntryKnown(lines, block, entry) ==
    /\ DOMAIN entry = {"flags", "args"} /\ DOMAIN entry.args \subseteq Args
    /\ \A flag \in Flags : flag \in entry.flags <=> \E j \in block : lines[j].cmd = flag
    /\ \A a \in Args \ DOMAIN entry.args : \A j \in block : lines[j].name # a
    /\ \A a \in DOMAIN entry.args : \E j \in block :
          /\ lines[j].name = a /\ lines[j].cmd \in {"bsize", "rsize"}
          /\ entry.args[a] = Kind(lines[j].cmd)
          /\ \A l \in block : l > j => lines[l].name # a

\* What it knows after n lines: whether it reads text, which functions have a block
\* and what is in it, and which block it is in.
MetaFields == {"current", "functions", "text", "failed"}

MetaKnown(lines, n, m) ==
    /\ m.text = ~CommandAt(lines, n + 1)
    /\ DOMAIN m.functions = {lines[i].name : i \in {j \in 1..n : FuncAt(lines, j)}}
    /\ m.current # NoName => \E i \in 1..n :
          /\ FuncAt(lines, i) /\ lines[i].name = m.current
          /\ \A k \in 1..n : FuncAt(lines, k) => k <= i
    /\ \A f \in DOMAIN m.functions : EntryKnown(lines, Block(lines, n, f), m.functions[f])

\* Text begins with a header and ends with the next endheader.
LEMMA TextStep ==
    ASSUME NEW lines \in Seq(MetaLines), NEW n \in Nat
    PROVE  CommandAt(lines, n + 2) <=>
              IF CommandAt(lines, n + 1) THEN lines[n + 1].cmd # "header"
                                         ELSE lines[n + 1].cmd = "endheader"
<1>1. /\ (n + 2) - 1 = n + 1 /\ (n + 1) - 1 = n
      /\ 1..(n + 1) = 1..n \cup {n + 1}
  OBVIOUS
<1>2. ASSUME NEW i \in 1..n
      PROVE  (i + 1)..(n + 1) = ((i + 1)..n) \cup {n + 1}
  OBVIOUS
<1>3. (n + 1 + 1)..(n + 1) = {}
  OBVIOUS
<1>4. CommandAt(lines, n + 1) <=>
         \A i \in 1..n : lines[i].cmd = "header" =>
            \E k \in (i + 1)..n : lines[k].cmd = "endheader"
  BY <1>1 DEF CommandAt
<1>5. CommandAt(lines, n + 2) <=>
         /\ \A i \in 1..n : lines[i].cmd = "header" =>
               \E k \in (i + 1)..(n + 1) : lines[k].cmd = "endheader"
         /\ lines[n + 1].cmd # "header"
  <2>1. CommandAt(lines, n + 2) <=>
           \A i \in 1..(n + 1) : lines[i].cmd = "header" =>
              \E k \in (i + 1)..(n + 1) : lines[k].cmd = "endheader"
    BY <1>1 DEF CommandAt
  <2> QED BY <1>1, <1>3, <2>1
<1>6. CASE lines[n + 1].cmd = "endheader"
  <2>1. CommandAt(lines, n + 2)
    BY <1>2, <1>5, <1>6
  <2> QED BY <1>6, <2>1
<1>7. CASE lines[n + 1].cmd # "endheader"
  <2>1. ASSUME NEW i \in 1..n
        PROVE  (\E k \in (i + 1)..(n + 1) : lines[k].cmd = "endheader") <=>
               (\E k \in (i + 1)..n : lines[k].cmd = "endheader")
    BY <1>2, <1>7
  <2> QED BY <1>4, <1>5, <1>7, <2>1
<1> QED BY <1>6, <1>7

\* What one more line does to the blocks.
LEMMA BlockStep ==
    ASSUME NEW lines, NEW n \in Nat, NEW f
    PROVE  /\ Block(lines, n, f) \subseteq 1..n
           /\ ~CommandAt(lines, n + 1) => Block(lines, n + 1, f) = Block(lines, n, f)
           /\ FuncAt(lines, n + 1) =>
                 Block(lines, n + 1, f) =
                    IF lines[n + 1].name = f THEN {} ELSE Block(lines, n, f)
           /\ CommandAt(lines, n + 1) /\ ~FuncAt(lines, n + 1) =>
                 Block(lines, n + 1, f) =
                    IF \E i \in 1..n : /\ FuncAt(lines, i) /\ lines[i].name = f
                                      /\ \A k \in 1..n : FuncAt(lines, k) => k <= i
                      THEN Block(lines, n, f) \cup {n + 1} ELSE Block(lines, n, f)
<1>1. 1..(n + 1) = 1..n \cup {n + 1} /\ \A i \in 1..n : i \in Nat /\ i < n + 1
  OBVIOUS
<1>2. Block(lines, n, f) \subseteq 1..n
  BY DEF Block
<1> DEFINE C(j) == CommandAt(lines, j)
           F(j) == FuncAt(lines, j)
           B(p) == {j \in 1..p : C(j) /\ \E i \in 1..p :
                      /\ F(i) /\ i < j /\ lines[i].name = f
                      /\ \A k \in 1..p : F(k) /\ k > i => k > j /\ lines[k].name # f}
<1>3. Block(lines, n, f) = B(n) /\ Block(lines, n + 1, f) = B(n + 1)
  BY DEF Block
<1>4. \A j : F(j) => C(j)
  BY DEF FuncAt
<1>5. F(n + 1) => lines[n + 1].cmd = "func"
  BY DEF FuncAt
<1> HIDE DEF C, F
<1>6. ASSUME NEW j \in 1..n, ~F(n + 1) PROVE j \in B(n + 1) <=> j \in B(n)
  BY <1>1, <1>6
<1>7. ASSUME F(n + 1), lines[n + 1].name # f, NEW j \in 1..n
      PROVE  j \in B(n + 1) <=> j \in B(n)
  BY <1>1, <1>7
<1>8. F(n + 1) => n + 1 \notin B(n + 1)
  BY <1>1
<1>9. F(n + 1) /\ lines[n + 1].name = f => B(n + 1) = {}
  BY <1>1
<1>10. ASSUME C(n + 1), ~F(n + 1)
       PROVE  n + 1 \in B(n + 1) <=>
                 \E i \in 1..n : /\ F(i) /\ lines[i].name = f
                                /\ \A k \in 1..n : F(k) => k <= i
  <2>1. ASSUME NEW i \in 1..n, NEW k \in 1..n
        PROVE  k <= i <=> (k > i => k > n + 1 /\ lines[k].name # f)
    BY <1>1
  <2> QED BY <1>1, <1>10, <2>1
<1>11. ~C(n + 1) => n + 1 \notin B(n + 1)
  OBVIOUS
<1> HIDE DEF B
<1>12. B(n) \subseteq 1..n /\ B(n + 1) \subseteq 1..n \cup {n + 1}
  BY <1>1 DEF B
<1>13. ~C(n + 1) => B(n + 1) = B(n)
  BY <1>4, <1>6, <1>11, <1>12
<1>14. F(n + 1) => B(n + 1) = IF lines[n + 1].name = f THEN {} ELSE B(n)
  BY <1>7, <1>8, <1>9, <1>12
<1>15. C(n + 1) /\ ~F(n + 1) =>
          B(n + 1) = IF \E i \in 1..n : /\ F(i) /\ lines[i].name = f
                                       /\ \A k \in 1..n : F(k) => k <= i
                       THEN B(n) \cup {n + 1} ELSE B(n)
  <2> DEFINE P == \E i \in 1..n : /\ F(i) /\ lines[i].name = f
                                  /\ \A k \in 1..n : F(k) => k <= i
  <2> SUFFICES ASSUME C(n + 1), ~F(n + 1)
               PROVE  B(n + 1) = IF P THEN B(n) \cup {n + 1} ELSE B(n)
    OBVIOUS
  <2>1. n + 1 \in B(n + 1) <=> P
    BY <1>10
  <2>2. \A j \in 1..n : j \in B(n + 1) <=> j \in B(n)
    BY <1>6
  <2> HIDE DEF P
  <2> QED BY <1>12, <2>1, <2>2
<1> QED BY <1>2, <1>3, <1>13, <1>14, <1>15 DEF C, F

\* What a line is.
LEMMA LineTypes ==
    ASSUME NEW line \in MetaLines
    PROVE  /\ line.cmd \in Flags \cup {"func", "bsize", "rsize", "check_param", "header",
                                   "endheader"}
           /\ line.cmd = "func" => line.name \in Names
           /\ line.cmd \in {"bsize", "rsize"} => line.name \in Args
           /\ line.cmd \notin {"func", "bsize", "rsize"} => line.name = NoName
BY DEF MetaLines, Flags

\* What a command does.
LEMMA MetaCommands ==
    ASSUME NEW line \in MetaLines, NEW m, NEW f, f = m.current
    PROVE  /\ line.cmd = "func" =>
                MetaCommand(m, line) =
                   [m EXCEPT !.current = line.name,
                             !.functions = Put(@, line.name, NoMetadata)]
           /\ line.cmd = "header" => MetaCommand(m, line) = [m EXCEPT !.text = TRUE]
           /\ line.cmd = "endheader" => MetaCommand(m, line) = m
           /\ line.cmd \notin {"func", "header", "endheader"}
              /\ f \notin DOMAIN m.functions =>
                MetaCommand(m, line) = [m EXCEPT !.failed = TRUE]
           /\ line.cmd \in {"bsize", "rsize"} /\ f \in DOMAIN m.functions =>
                MetaCommand(m, line) =
                   [m EXCEPT !.functions =
                      Put(@, f, [m.functions[f] EXCEPT
                                   !.args = Put(@, line.name, Kind(line.cmd))])]
           /\ line.cmd = "check_param" /\ f \in DOMAIN m.functions =>
                MetaCommand(m, line) = m
<1>1. line.cmd = "func" =>
         MetaCommand(m, line) =
            [m EXCEPT !.current = line.name,
                      !.functions = Put(@, line.name, NoMetadata)]
  BY DEF MetaCommand, NewBlock, Flags
<1>2. line.cmd = "header" => MetaCommand(m, line) = [m EXCEPT !.text = TRUE]
  BY DEF MetaCommand, Flags
<1>3. line.cmd = "endheader" => MetaCommand(m, line) = m
  BY DEF MetaCommand, Flags
<1>4. line.cmd \notin {"func", "header", "endheader"} /\ f \notin DOMAIN m.functions =>
         MetaCommand(m, line) = [m EXCEPT !.failed = TRUE]
  BY DEF MetaCommand
<1>5. line.cmd \in {"bsize", "rsize"} /\ f \in DOMAIN m.functions =>
         MetaCommand(m, line) =
            [m EXCEPT !.functions =
               Put(@, f, [m.functions[f] EXCEPT
                            !.args = Put(@, line.name, Kind(line.cmd))])]
  <2>1. CASE line.cmd = "bsize"
    BY <2>1 DEF MetaCommand, Flags, Kind
  <2>2. CASE line.cmd = "rsize"
    BY <2>2 DEF MetaCommand, Flags, Kind
  <2> QED BY <2>1, <2>2
<1>6. line.cmd = "check_param" /\ f \in DOMAIN m.functions => MetaCommand(m, line) = m
  BY DEF MetaCommand, Flags
<1> QED BY <1>1, <1>2, <1>3, <1>4, <1>5, <1>6

\* What a flag does: custom also ends the block.
LEMMA FlagCommand ==
    ASSUME NEW line, line.cmd \in Flags, NEW m, DOMAIN m = MetaFields,
           m.current \in DOMAIN m.functions
    PROVE  /\ DOMAIN MetaCommand(m, line) = MetaFields
           /\ MetaCommand(m, line).functions =
                 Put(m.functions, m.current,
                     [m.functions[m.current] EXCEPT !.flags = @ \cup {line.cmd}])
           /\ MetaCommand(m, line).current \in {m.current, NoName}
           /\ MetaCommand(m, line).text = m.text
           /\ MetaCommand(m, line).failed = m.failed
<1> PICK f, e : /\ f = m.current
                /\ e = [m.functions[f] EXCEPT !.flags = @ \cup {line.cmd}]
  OBVIOUS
<1> PICK h : h = [m EXCEPT !.functions = Put(@, f, e)]
  OBVIOUS
<1>1. MetaCommand(m, line) =
         [h EXCEPT !.current = IF line.cmd = "custom" THEN NoName ELSE f]
  <2>1. MetaCommand(m, line) =
           [[m EXCEPT !.functions =
               Put(@, f, [m.functions[f] EXCEPT !.flags = @ \cup {line.cmd}])]
                  EXCEPT !.current = IF line.cmd = "custom" THEN NoName ELSE f]
    BY DEF MetaCommand, Flags
  <2>2. h = [m EXCEPT !.functions =
               Put(@, f, [m.functions[f] EXCEPT !.flags = @ \cup {line.cmd}])]
    OBVIOUS
  <2> QED BY <2>1, <2>2
<1>2. MetaFields = {"current", "functions", "text", "failed"}
  BY DEF MetaFields
<1>3. /\ DOMAIN h = MetaFields /\ h.functions = Put(m.functions, f, e)
      /\ h.text = m.text /\ h.failed = m.failed
  BY <1>2
<1> PICK g : g = MetaCommand(m, line)
  OBVIOUS
<1>4. /\ DOMAIN g = MetaFields /\ g.functions = h.functions
      /\ g.current \in {f, NoName} /\ g.text = h.text /\ g.failed = h.failed
  BY <1>1, <1>2, <1>3
<1> QED BY <1>3, <1>4

\* A line that is no flag and about no argument adds nothing to an entry.
LEMMA EntrySame ==
    ASSUME NEW lines, NEW n, NEW block, NEW entry, EntryKnown(lines, block, entry),
           lines[n].cmd \notin Flags, lines[n].name \notin Args
    PROVE  EntryKnown(lines, block \cup {n}, entry)
BY DEF EntryKnown

\* A flag is added to the flags.
LEMMA EntryFlag ==
    ASSUME NEW lines, NEW n, NEW block, NEW entry, EntryKnown(lines, block, entry),
           lines[n].cmd \in Flags, lines[n].name \notin Args
    PROVE  EntryKnown(lines, block \cup {n},
                      [entry EXCEPT !.flags = @ \cup {lines[n].cmd}])
<1> PICK e : e = [entry EXCEPT !.flags = @ \cup {lines[n].cmd}]
  OBVIOUS
<1>1. /\ DOMAIN e = {"flags", "args"} /\ e.args = entry.args
      /\ e.flags = entry.flags \cup {lines[n].cmd}
  BY DEF EntryKnown
<1>2. \A flag \in Flags : flag \in e.flags <=>
           \E j \in block \cup {n} : lines[j].cmd = flag
  BY <1>1 DEF EntryKnown
<1> QED BY <1>1, <1>2 DEF EntryKnown

\* A size replaces what was known of its argument.
LEMMA EntrySize ==
    ASSUME NEW lines, NEW n \in Nat, NEW block, block \subseteq 1..(n - 1), NEW entry,
           EntryKnown(lines, block, entry),
           lines[n].cmd \in {"bsize", "rsize"}, lines[n].name \in Args
    PROVE  EntryKnown(lines, block \cup {n},
              [entry EXCEPT !.args = Put(@, lines[n].name, Kind(lines[n].cmd))])
<1> PICK e : e = [entry EXCEPT !.args = Put(@, lines[n].name, Kind(lines[n].cmd))]
  OBVIOUS
<1>1. /\ DOMAIN e = {"flags", "args"} /\ e.flags = entry.flags
      /\ e.args = Put(entry.args, lines[n].name, Kind(lines[n].cmd))
  BY DEF EntryKnown
<1>2. /\ DOMAIN e.args = DOMAIN entry.args \cup {lines[n].name}
      /\ e.args[lines[n].name] = Kind(lines[n].cmd)
      /\ \A a \in DOMAIN entry.args : a # lines[n].name => e.args[a] = entry.args[a]
  BY <1>1 DEF Put
<1>3. \A j \in block : ~(j > n)
  OBVIOUS
<1>4. lines[n].cmd \notin Flags
  BY DEF Flags
<1>5. \A flag \in Flags : flag \in e.flags <=>
           \E j \in block \cup {n} : lines[j].cmd = flag
  BY <1>1, <1>4 DEF EntryKnown
<1>6. \A a \in Args \ DOMAIN e.args : \A j \in block \cup {n} : lines[j].name # a
  BY <1>2 DEF EntryKnown
<1>7. ASSUME NEW a \in DOMAIN e.args
      PROVE  \E j \in block \cup {n} :
                /\ lines[j].name = a /\ lines[j].cmd \in {"bsize", "rsize"}
                /\ e.args[a] = Kind(lines[j].cmd)
                /\ \A l \in block \cup {n} : l > j => lines[l].name # a
  <2>1. CASE a = lines[n].name
    BY <1>2, <1>3, <2>1
  <2>2. CASE a # lines[n].name
    <3>1. a \in DOMAIN entry.args /\ e.args[a] = entry.args[a]
      BY <1>2, <2>2
    <3>2. PICK j \in block : /\ lines[j].name = a /\ lines[j].cmd \in {"bsize", "rsize"}
                             /\ entry.args[a] = Kind(lines[j].cmd)
                             /\ \A l \in block : l > j => lines[l].name # a
      BY <3>1 DEF EntryKnown
    <3> QED BY <2>2, <3>1, <3>2
  <2> QED BY <2>1, <2>2
<1> QED BY <1>1, <1>2, <1>5, <1>6, <1>7 DEF EntryKnown

\* A line of a known kind keeps the fields, and a failure stays.
LEMMA MetaShape ==
    ASSUME NEW line \in MetaLines, NEW m, DOMAIN m = MetaFields, m.failed \in BOOLEAN
    PROVE  /\ DOMAIN MetaLine(m, line) = MetaFields
           /\ MetaLine(m, line).failed \in BOOLEAN
           /\ m.failed => MetaLine(m, line).failed
<1>1. MetaFields = {"current", "functions", "text", "failed"}
  BY DEF MetaFields
<1>2. CASE m.text
  <2>1. MetaLine(m, line) = [m EXCEPT !.text = line.cmd # "endheader"]
    BY <1>2 DEF MetaLine
  <2> QED BY <1>1, <2>1
<1>3. CASE ~m.text
  <2> PICK f, g : f = m.current /\ g = MetaCommand(m, line)
    OBVIOUS
  <2>1. MetaLine(m, line) = g
    BY <1>3 DEF MetaLine
  <2>2. CASE line.cmd = "func"
    <3>1. g = [m EXCEPT !.current = line.name,
                        !.functions = Put(@, line.name, NoMetadata)]
      BY <2>2, MetaCommands
    <3> QED BY <1>1, <2>1, <3>1
  <2>3. CASE line.cmd \in {"header", "endheader"}
    <3>1. g = [m EXCEPT !.text = TRUE] \/ g = m
      BY <2>3, MetaCommands
    <3> QED BY <1>1, <2>1, <3>1
  <2>4. CASE line.cmd \notin {"func", "header", "endheader"} /\ f \notin DOMAIN m.functions
    <3>1. g = [m EXCEPT !.failed = TRUE]
      BY <2>4, MetaCommands
    <3> QED BY <1>1, <2>1, <3>1
  <2>5. CASE line.cmd \in {"bsize", "rsize"} /\ f \in DOMAIN m.functions
    <3>1. g = [m EXCEPT !.functions =
                 Put(@, f, [m.functions[f] EXCEPT
                              !.args = Put(@, line.name, Kind(line.cmd))])]
      BY <2>5, MetaCommands
    <3> QED BY <1>1, <2>1, <3>1
  <2>6. CASE line.cmd \in Flags /\ f \in DOMAIN m.functions
    <3>1. DOMAIN g = MetaFields /\ g.failed = m.failed
      BY <2>6, FlagCommand
    <3> QED BY <2>1, <3>1
  <2>7. CASE line.cmd = "check_param" /\ f \in DOMAIN m.functions
    <3>1. g = m
      BY <2>7, MetaCommands
    <3> QED BY <1>1, <2>1, <3>1
  <2> QED BY <2>2, <2>3, <2>4, <2>5, <2>6, <2>7, LineTypes
<1> QED BY <1>2, <1>3

\* A line that begins no block: the functions that have one, and the block it is in,
\* stay, or it ends that block.
LEMMA NoNewBlock ==
    ASSUME NEW lines, NEW n \in Nat, NEW m, NEW g, MetaKnown(lines, n, m),
           ~FuncAt(lines, n + 1),
           DOMAIN g.functions = DOMAIN m.functions, g.current \in {m.current, NoName},
           g.text = ~CommandAt(lines, n + 2),
           \A f \in DOMAIN g.functions :
              EntryKnown(lines, Block(lines, n + 1, f), g.functions[f])
    PROVE  MetaKnown(lines, n + 1, g)
<1>1. 1..(n + 1) = 1..n \cup {n + 1} /\ (n + 1) + 1 = n + 2
  OBVIOUS
<1>2. \A j \in 1..(n + 1) : FuncAt(lines, j) => j \in 1..n
  BY <1>1
<1>3. {lines[i].name : i \in {j \in 1..(n + 1) : FuncAt(lines, j)}} =
      {lines[i].name : i \in {j \in 1..n : FuncAt(lines, j)}}
  BY <1>1, <1>2
<1>4. DOMAIN g.functions = {lines[i].name : i \in {j \in 1..(n + 1) : FuncAt(lines, j)}}
  BY <1>3 DEF MetaKnown
<1>5. g.current # NoName => \E i \in 1..(n + 1) :
         /\ FuncAt(lines, i) /\ lines[i].name = g.current
         /\ \A k \in 1..(n + 1) : FuncAt(lines, k) => k <= i
  BY <1>1, <1>2 DEF MetaKnown
<1> QED BY <1>1, <1>4, <1>5 DEF MetaKnown

\* A func line begins a block.
LEMMA NewBlockBegun ==
    ASSUME NEW lines, NEW n \in Nat, NEW m, NEW g, MetaKnown(lines, n, m),
           FuncAt(lines, n + 1), g.text = ~CommandAt(lines, n + 2),
           g.current = lines[n + 1].name,
           g.functions = Put(m.functions, lines[n + 1].name, NoMetadata)
    PROVE  MetaKnown(lines, n + 1, g)
<1>1. 1..(n + 1) = 1..n \cup {n + 1} /\ (n + 1) + 1 = n + 2
  OBVIOUS
<1>2. {lines[i].name : i \in {j \in 1..(n + 1) : FuncAt(lines, j)}} =
      {lines[i].name : i \in {j \in 1..n : FuncAt(lines, j)}} \cup {lines[n + 1].name}
  BY <1>1
<1>3. DOMAIN g.functions = DOMAIN m.functions \cup {lines[n + 1].name}
  BY DEF Put
<1>4. \E i \in 1..(n + 1) :
         /\ FuncAt(lines, i) /\ lines[i].name = g.current
         /\ \A k \in 1..(n + 1) : FuncAt(lines, k) => k <= i
  <2>1. n + 1 \in 1..(n + 1) /\ \A k \in 1..(n + 1) : k <= n + 1
    OBVIOUS
  <2> QED BY <2>1
<1>5. ASSUME NEW f \in DOMAIN g.functions
      PROVE  EntryKnown(lines, Block(lines, n + 1, f), g.functions[f])
  <2>1. CASE f = lines[n + 1].name
    <3>1. Block(lines, n + 1, f) = {}
      BY <2>1, BlockStep
    <3>2. g.functions[f] = NoMetadata
      BY <2>1 DEF Put
    <3>3. EntryKnown(lines, {}, NoMetadata)
      BY DEF EntryKnown, NoMetadata
    <3> QED BY <3>1, <3>2, <3>3
  <2>2. CASE f # lines[n + 1].name
    <3>1. Block(lines, n + 1, f) = Block(lines, n, f)
      BY <2>2, BlockStep
    <3>2. f \in DOMAIN m.functions /\ g.functions[f] = m.functions[f]
      BY <1>3, <2>2 DEF Put
    <3> QED BY <3>1, <3>2 DEF MetaKnown
  <2> QED BY <2>1, <2>2
<1>6. DOMAIN m.functions = {lines[i].name : i \in {j \in 1..n : FuncAt(lines, j)}}
  BY DEF MetaKnown
<1> QED BY <1>1, <1>2, <1>3, <1>4, <1>5, <1>6 DEF MetaKnown

\* A line that says nothing about arguments or flags.
LEMMA PlainLine ==
    ASSUME NEW lines, NEW n \in Nat, NEW m, MetaKnown(lines, n, m),
           ~FuncAt(lines, n + 1),
           CommandAt(lines, n + 1) => /\ lines[n + 1].cmd \notin Flags
                                      /\ lines[n + 1].name \notin Args
    PROVE  \A f \in DOMAIN m.functions :
              EntryKnown(lines, Block(lines, n + 1, f), m.functions[f])
<1> SUFFICES ASSUME NEW f \in DOMAIN m.functions
             PROVE  EntryKnown(lines, Block(lines, n + 1, f), m.functions[f])
  OBVIOUS
<1>1. EntryKnown(lines, Block(lines, n, f), m.functions[f])
  BY DEF MetaKnown
<1>2. \/ Block(lines, n + 1, f) = Block(lines, n, f)
      \/ /\ CommandAt(lines, n + 1)
         /\ Block(lines, n + 1, f) = Block(lines, n, f) \cup {n + 1}
  BY BlockStep
<1>3. CommandAt(lines, n + 1) =>
         EntryKnown(lines, Block(lines, n, f) \cup {n + 1}, m.functions[f])
  BY <1>1, EntrySame
<1> QED BY <1>1, <1>2, <1>3

\* Any other line belongs to the block of the current function and to no other.
LEMMA CurrentBlock ==
    ASSUME NEW lines, NEW n \in Nat, NEW m, MetaKnown(lines, n, m), m.current # NoName,
           CommandAt(lines, n + 1), ~FuncAt(lines, n + 1)
    PROVE  \A f : /\ f = m.current =>
                        Block(lines, n + 1, f) = Block(lines, n, f) \cup {n + 1}
                  /\ f # m.current => Block(lines, n + 1, f) = Block(lines, n, f)
<1> TAKE f
<1>1. PICK i \in 1..n : /\ FuncAt(lines, i) /\ lines[i].name = m.current
                        /\ \A k \in 1..n : FuncAt(lines, k) => k <= i
  BY DEF MetaKnown
<1>2. (\E j \in 1..n : /\ FuncAt(lines, j) /\ lines[j].name = f
                       /\ \A k \in 1..n : FuncAt(lines, k) => k <= j) <=> f = m.current
  <2>1. ASSUME NEW j \in 1..n, FuncAt(lines, j),
               \A k \in 1..n : FuncAt(lines, k) => k <= j
        PROVE  j = i
    <3>1. j <= i /\ i <= j
      BY <1>1, <2>1
    <3> QED BY <3>1
  <2> QED BY <1>1, <2>1
<1> QED BY <1>2, BlockStep

\* One line.
LEMMA MetaStep ==
    ASSUME NEW lines \in Seq(MetaLines), NEW n \in Nat, n + 1 \in 1..Len(lines),
           NEW m, DOMAIN m = MetaFields, ~m.failed, MetaKnown(lines, n, m),
           ~MetaLine(m, lines[n + 1]).failed
    PROVE  MetaKnown(lines, n + 1, MetaLine(m, lines[n + 1]))
<1> PICK line, f, g : /\ line = lines[n + 1] /\ f = m.current
                      /\ g = MetaLine(m, lines[n + 1])
  OBVIOUS
<1>1. line \in MetaLines
  OBVIOUS
<1>2. MetaFields = {"current", "functions", "text", "failed"}
  BY DEF MetaFields
<1>3. NoName \notin Names \cup Args
  BY GeneratorsAssumption
<1>4. /\ m.text = ~CommandAt(lines, n + 1)
      /\ CommandAt(lines, n + 2) <=>
            IF CommandAt(lines, n + 1) THEN line.cmd # "header" ELSE line.cmd = "endheader"
  BY TextStep DEF MetaKnown
<1>5. FuncAt(lines, n + 1) <=> CommandAt(lines, n + 1) /\ line.cmd = "func"
  BY DEF FuncAt
<1>6. CASE ~CommandAt(lines, n + 1)
  <2>1. g = [m EXCEPT !.text = line.cmd # "endheader"]
    BY <1>4, <1>6 DEF MetaLine
  <2>2. /\ g.functions = m.functions /\ g.current = m.current
        /\ g.text = ~CommandAt(lines, n + 2)
    BY <1>2, <1>4, <1>6, <2>1
  <2>3. \A x \in DOMAIN g.functions :
           EntryKnown(lines, Block(lines, n + 1, x), g.functions[x])
    BY <1>5, <1>6, <2>2, PlainLine
  <2> QED BY <1>5, <1>6, <2>2, <2>3, NoNewBlock
<1>7. CASE CommandAt(lines, n + 1)
  <2>1. g = MetaCommand(m, line)
    BY <1>4, <1>7 DEF MetaLine
  <2>2. CASE line.cmd = "func"
    <3>1. g = [m EXCEPT !.current = line.name,
                        !.functions = Put(@, line.name, NoMetadata)]
      BY <1>1, <2>1, <2>2, MetaCommands
    <3>2. /\ g.functions = Put(m.functions, line.name, NoMetadata)
          /\ g.current = line.name /\ g.text = m.text
      BY <1>2, <3>1
    <3>3. g.text = ~CommandAt(lines, n + 2)
      BY <1>4, <1>7, <2>2, <3>2
    <3> QED BY <1>5, <1>7, <2>2, <3>2, <3>3, NewBlockBegun
  <2>3. CASE line.cmd \in {"header", "endheader", "check_param"}
    <3>1. line.cmd = "check_param" => f \in DOMAIN m.functions
      <4> SUFFICES ASSUME line.cmd = "check_param", f \notin DOMAIN m.functions
                   PROVE  FALSE
        OBVIOUS
      <4>1. g = [m EXCEPT !.failed = TRUE]
        BY <1>1, <2>1, MetaCommands
      <4> QED BY <1>2, <4>1
    <3>2. g = IF line.cmd = "header" THEN [m EXCEPT !.text = TRUE] ELSE m
      BY <1>1, <2>1, <2>3, <3>1, MetaCommands
    <3>3. /\ g.functions = m.functions /\ g.current = m.current
          /\ g.text = ~CommandAt(lines, n + 2)
      BY <1>2, <1>4, <1>7, <2>3, <3>2
    <3>4. line.cmd \notin Flags /\ line.name = NoName
      BY <1>1, <2>3, LineTypes DEF Flags
    <3>5. \A x \in DOMAIN g.functions :
             EntryKnown(lines, Block(lines, n + 1, x), g.functions[x])
      BY <1>3, <1>5, <2>3, <3>3, <3>4, PlainLine
    <3> QED BY <1>5, <2>3, <3>3, <3>5, NoNewBlock
  <2>4. CASE line.cmd \in {"bsize", "rsize"} \cup Flags
    <3>1. line.cmd \notin {"func", "header", "endheader"}
      BY <2>4 DEF Flags
    <3>2. f \in DOMAIN m.functions
      <4> SUFFICES ASSUME f \notin DOMAIN m.functions PROVE FALSE
        OBVIOUS
      <4>1. g = [m EXCEPT !.failed = TRUE]
        BY <1>1, <2>1, <3>1, MetaCommands
      <4> QED BY <1>2, <4>1
    <3>3. f # NoName
      <4>1. PICK i \in 1..n : FuncAt(lines, i) /\ f = lines[i].name
        BY <3>2 DEF MetaKnown
      <4>2. lines[i] \in MetaLines
        OBVIOUS
      <4>3. f \in Names
        BY <4>1, <4>2, LineTypes DEF FuncAt
      <4> QED BY <1>3, <4>3
    <3>4. \A x : Block(lines, n + 1, x) =
             IF x = f THEN Block(lines, n, f) \cup {n + 1} ELSE Block(lines, n, x)
      <4>1. ~FuncAt(lines, n + 1) /\ m.current # NoName
        BY <1>5, <3>1, <3>3
      <4>2. \A x : /\ x = m.current =>
                         Block(lines, n + 1, x) = Block(lines, n, x) \cup {n + 1}
                   /\ x # m.current => Block(lines, n + 1, x) = Block(lines, n, x)
        BY <1>7, <4>1, CurrentBlock, SMTT(30)
      <4> QED BY <4>2
    <3>5. \A x \in DOMAIN m.functions :
             EntryKnown(lines, Block(lines, n, x), m.functions[x])
      BY DEF MetaKnown
    <3>6. ASSUME NEW e, g.functions = Put(m.functions, f, e),
                 EntryKnown(lines, Block(lines, n, f) \cup {n + 1}, e),
                 g.current \in {f, NoName}, g.text = m.text
          PROVE  MetaKnown(lines, n + 1, g)
      <4>1. /\ DOMAIN g.functions = DOMAIN m.functions /\ g.functions[f] = e
            /\ \A x \in DOMAIN g.functions : x # f => g.functions[x] = m.functions[x]
        BY <3>2, <3>6 DEF Put
      <4>2. \A x \in DOMAIN g.functions :
               EntryKnown(lines, Block(lines, n + 1, x), g.functions[x])
        BY <3>4, <3>5, <3>6, <4>1
      <4>3. g.text = ~CommandAt(lines, n + 2)
        BY <1>4, <1>7, <3>1, <3>6
      <4> QED BY <1>5, <3>1, <3>6, <4>1, <4>2, <4>3, NoNewBlock
    <3>7. CASE line.cmd \in {"bsize", "rsize"}
      <4> PICK e : e = [m.functions[f] EXCEPT
                          !.args = Put(@, line.name, Kind(line.cmd))]
        OBVIOUS
      <4>1. g = [m EXCEPT !.functions = Put(@, f, e)]
        <5>1. g = [m EXCEPT !.functions =
                     Put(@, f, [m.functions[f] EXCEPT
                                  !.args = Put(@, line.name, Kind(line.cmd))])]
          BY <1>1, <2>1, <3>2, <3>7, MetaCommands, ZenonT(60)
        <5> QED BY <5>1
      <4>2. /\ g.functions = Put(m.functions, f, e)
            /\ g.current = f /\ g.text = m.text
        BY <1>2, <4>1
      <4>3. line.name \in Args /\ Block(lines, n, f) \subseteq 1..n
        BY <1>1, <3>7, LineTypes, BlockStep
      <4>4. n + 1 \in Nat /\ 1..n = 1..((n + 1) - 1)
        OBVIOUS
      <4>5. EntryKnown(lines, Block(lines, n, f) \cup {n + 1}, e)
        BY <3>2, <3>5, <3>7, <4>3, <4>4, EntrySize
      <4> QED BY <3>6, <4>2, <4>5
    <3>8. CASE line.cmd \in Flags
      <4> PICK e : e = [m.functions[f] EXCEPT !.flags = @ \cup {line.cmd}]
        OBVIOUS
      <4>1. /\ g.functions =
                  Put(m.functions, f, [m.functions[f] EXCEPT !.flags = @ \cup {line.cmd}])
            /\ g.current \in {f, NoName} /\ g.text = m.text
        BY <2>1, <3>2, <3>8, FlagCommand
      <4>3. g.functions = Put(m.functions, f, e)
        BY <4>1
      <4>4. line.name = NoName
        BY <1>1, <3>8, LineTypes DEF Flags
      <4>5. EntryKnown(lines, Block(lines, n, f) \cup {n + 1}, e)
        BY <1>3, <3>2, <3>5, <3>8, <4>4, EntryFlag
      <4> QED BY <3>6, <4>1, <4>3, <4>5
    <3> QED BY <2>4, <3>7, <3>8
  <2> QED BY <1>1, <2>2, <2>3, <2>4, LineTypes
<1> QED BY <1>6, <1>7

\* The parser of metadata, if it gets through the file, knows the last block of each
\* function.
LEMMA MetaRead ==
    ASSUME NEW lines \in Seq(MetaLines), ~parseMetaFile(lines).failed
    PROVE  MetaKnown(lines, Len(lines), parseMetaFile(lines))
<1> PICK h, l : h = MetaAfter(lines) /\ l = Len(lines)
  OBVIOUS
<1>1. /\ l \in Nat /\ h[0] = NoLines
      /\ \A n \in 1..l : h[n] = MetaLine(h[n - 1], lines[n])
  BY MetaAfterDef
<1> DEFINE Good(n) == /\ DOMAIN h[n] = MetaFields /\ h[n].failed \in BOOLEAN
                      /\ ~h[n].failed => MetaKnown(lines, n, h[n])
           T == {n \in 0..l : ~Good(n)}
<1>2. Good(0)
  <2>1. /\ DOMAIN NoLines = MetaFields /\ NoLines.failed \in BOOLEAN
        /\ NoLines.text = FALSE /\ NoLines.current = NoName
        /\ DOMAIN NoLines.functions = {}
    BY DEF NoLines, MetaFields
  <2>2. CommandAt(lines, 0 + 1) /\ 1..0 = {}
    BY DEF CommandAt
  <2>3. MetaKnown(lines, 0, NoLines)
    BY <2>1, <2>2 DEF MetaKnown
  <2> QED BY <1>1, <2>1, <2>3
<1>3. ASSUME NEW n \in 1..l, Good(n - 1) PROVE Good(n)
  <2>1. /\ n - 1 \in Nat /\ (n - 1) + 1 = n /\ n \in 1..Len(lines)
        /\ lines[n] \in MetaLines
    OBVIOUS
  <2>2. /\ DOMAIN h[n] = MetaFields /\ h[n].failed \in BOOLEAN
        /\ h[n - 1].failed => h[n].failed
    BY <1>1, <1>3, <2>1, MetaShape
  <2>3. ASSUME ~h[n].failed PROVE MetaKnown(lines, n, h[n])
    <3> PICK p, m : p = n - 1 /\ m = h[n - 1]
      OBVIOUS
    <3>1. /\ p \in Nat /\ p + 1 = n /\ DOMAIN m = MetaFields /\ ~m.failed
          /\ MetaKnown(lines, p, m)
      BY <1>3, <2>1, <2>2, <2>3
    <3>2. h[n] = MetaLine(m, lines[p + 1]) /\ p + 1 \in 1..Len(lines)
      BY <1>1, <2>1, <3>1
    <3>3. MetaKnown(lines, p + 1, MetaLine(m, lines[p + 1]))
      BY <2>3, <3>1, <3>2, MetaStep
    <3> QED BY <3>1, <3>2, <3>3
  <2> QED BY <2>2, <2>3
<1> HIDE DEF Good
<1>4. T = {}
  <2> SUFFICES ASSUME T # {} PROVE FALSE
    OBVIOUS
  <2>1. PICK n \in T : \A k \in T : n <= k
    <3>1. T \subseteq Nat
      BY <1>1
    <3> HIDE DEF T
    <3> QED BY <3>1, FirstLine
  <2>2. n \in 0..l /\ ~Good(n)
    OBVIOUS
  <2>3. n # 0
    BY <1>2, <2>2
  <2>4. n \in 1..l /\ n - 1 \in 0..l /\ ~(n <= n - 1)
    BY <1>1, <2>2, <2>3
  <2>5. Good(n - 1)
    BY <2>1, <2>4
  <2> QED BY <1>3, <2>2, <2>4, <2>5
<1>5. Good(l)
  <2>1. l \in 0..l
    BY <1>1
  <2> QED BY <1>4, <2>1
<1> QED BY <1>5 DEF Good, parseMetaFile

\* For each function, that is what the last block describes.
LEMMA LastBlockRead ==
    ASSUME NEW lines \in Seq(MetaLines), ~parseMetaFile(lines).failed, NEW f
    PROVE  /\ LastBlock(lines, f) \subseteq 1..Len(lines)
           /\ EntryKnown(lines, LastBlock(lines, f), MetaArgs(parseMetaFile(lines), f))
<1> PICK m, n : m = parseMetaFile(lines) /\ n = Len(lines)
  OBVIOUS
<1>1. MetaKnown(lines, n, m) /\ n \in Nat /\ DOMAIN lines = 1..n
  BY MetaRead
<1>2. Commands(lines) = {j \in 1..n : CommandAt(lines, j)}
  BY <1>1 DEF Commands, CommandAt
<1>3. FuncLines(lines) = {i \in 1..n : FuncAt(lines, i)}
  BY <1>2 DEF FuncLines, FuncAt
<1>4. LastBlock(lines, f) = Block(lines, n, f)
  BY <1>2, <1>3 DEF LastBlock, Block
<1>5. CASE f \in DOMAIN m.functions
  <2>1. EntryKnown(lines, Block(lines, n, f), m.functions[f])
    BY <1>1, <1>5 DEF MetaKnown
  <2>2. Block(lines, n, f) \subseteq 1..n
    BY DEF Block
  <2> QED BY <1>4, <1>5, <2>1, <2>2 DEF MetaArgs
<1>6. CASE f \notin DOMAIN m.functions
  <2>1. \A i \in 1..n : FuncAt(lines, i) => lines[i].name # f
    BY <1>1, <1>6 DEF MetaKnown
  <2>2. Block(lines, n, f) = {}
    BY <2>1 DEF Block
  <2>3. EntryKnown(lines, {}, NoMetadata)
    BY DEF EntryKnown, NoMetadata
  <2> QED BY <1>4, <1>6, <2>2, <2>3 DEF MetaArgs
<1> QED BY <1>5, <1>6

\* The kind of an argument is that of its last line.
LEMMA LastSizeRead ==
    ASSUME NEW lines \in Seq(MetaLines), NEW f, NEW a, NEW arg \in Args,
           LastBlock(lines, f) \subseteq 1..Len(lines),
           EntryKnown(lines, LastBlock(lines, f), a)
    PROVE  ArgumentType(a, arg) = SizeKind(LastSize(lines, f, arg))
<1> PICK block : block = LastBlock(lines, f)
  OBVIOUS
<1> PICK size : size = LastSize(lines, f, arg)
  OBVIOUS
<1> DEFINE L == {k \in block : /\ lines[k].name = arg
                               /\ \A l \in block : l > k => lines[l].name # arg}
<1>1. size = {lines[j].cmd : j \in L}
  BY DEF LastSize
<1>2. CASE arg \notin DOMAIN a.args
  <2>1. L = {}
    BY <1>2 DEF EntryKnown
  <2>2. size = {}
    BY <1>1, <2>1
  <2>3. ArgumentType(a, arg) = "primitive"
    BY <1>2 DEF ArgumentType
  <2> QED BY <2>2, <2>3 DEF SizeKind
<1>3. CASE arg \in DOMAIN a.args
  <2>1. PICK j \in block : /\ lines[j].name = arg /\ lines[j].cmd \in {"bsize", "rsize"}
                           /\ a.args[arg] = Kind(lines[j].cmd)
                           /\ \A l \in block : l > j => lines[l].name # arg
    BY <1>3 DEF EntryKnown
  <2>2. ASSUME NEW k \in L PROVE k = j
    <3>1. k \in Nat /\ j \in Nat
      OBVIOUS
    <3>2. ~(k > j) /\ ~(j > k)
      BY <2>1, <2>2
    <3> QED BY <3>1, <3>2
  <2>3. L = {j}
    BY <2>1, <2>2
  <2> HIDE DEF L
  <2>4. size = {lines[j].cmd}
    BY <1>1, <2>3
  <2>5. ArgumentType(a, arg) = Kind(lines[j].cmd)
    BY <1>3, <2>1 DEF ArgumentType
  <2>6. CASE lines[j].cmd = "bsize"
    <3>1. size = {"bsize"} /\ size # {} /\ size # {"rsize"}
      BY <2>4, <2>6
    <3>2. ArgumentType(a, arg) = "blob"
      BY <2>5, <2>6 DEF Kind
    <3> QED BY <3>1, <3>2 DEF SizeKind
  <2>7. CASE lines[j].cmd = "rsize"
    <3>1. size = {"rsize"} /\ size # {} /\ size # {"bsize"}
      BY <2>4, <2>7
    <3>2. ArgumentType(a, arg) = "return"
      BY <2>5, <2>7 DEF Kind
    <3> QED BY <3>1, <3>2 DEF SizeKind
  <2> QED BY <2>1, <2>6, <2>7
<1> QED BY <1>2, <1>3

\* What either script makes of a function is what the files describe.
LEMMA FunctionDescribed ==
    ASSUME NEW decls \in Seq(Declarations), NEW lines \in Seq(MetaLines),
           ~parseMetaFile(lines).failed,
           NEW f \in DOMAIN parseHeaderFile(decls).functions,
           NEW a, a = MetaArgs(parseMetaFile(lines), f),
           NEW args, args = parseHeaderFile(decls).functions[f].decl.args,
           NEW function, NEW normal,
           function.code = IF "custom" \in a.flags THEN "none"
                           ELSE IF "unsupported" \in a.flags THEN "stub" ELSE normal,
           function.kinds = [i \in DOMAIN args |-> ArgumentType(a, args[i])]
    PROVE  AsDescribed(decls, lines, f, function, normal)
<1>1. /\ LastBlock(lines, f) \subseteq 1..Len(lines)
      /\ EntryKnown(lines, LastBlock(lines, f), a)
  BY LastBlockRead
<1> PICK flags : flags = {lines[j].cmd : j \in LastBlock(lines, f)}
  OBVIOUS
<1>2. /\ "custom" \in a.flags <=> "custom" \in flags
      /\ "unsupported" \in a.flags <=> "unsupported" \in flags
  BY <1>1 DEF EntryKnown, Flags
<1>3. function.code = IF "custom" \in flags THEN "none"
                      ELSE IF "unsupported" \in flags THEN "stub" ELSE normal
  BY <1>2
<1>4. PICK k \in 1..Len(decls) :
         /\ decls[k].name = f /\ args = decls[k].args
         /\ \A j \in 1..Len(decls) : j > k => decls[j].name # f
  <2>1. LastDeclared(decls, Len(decls), parseHeaderFile(decls).functions)
    BY HeaderRead DEF HeaderKnown
  <2>2. PICK k \in 1..Len(decls) :
           /\ decls[k].name = f
           /\ parseHeaderFile(decls).functions[f] = [decl |-> decls[k], hash |-> k - 1]
           /\ \A j \in 1..Len(decls) : j > k => decls[j].name # f
    BY <2>1 DEF LastDeclared
  <2>3. args = decls[k].args
    BY <2>2
  <2> QED BY <2>2, <2>3
<1>5. decls[k] \in Declaration(decls, f)
  BY <1>4 DEF Declaration
<1>6. args \in Seq(Args)
  <2>1. decls[k] \in Declarations
    OBVIOUS
  <2> QED BY <1>4, <2>1, GeneratorsAssumption
<1>7. ASSUME NEW i \in DOMAIN args
      PROVE  ArgumentType(a, args[i]) = SizeKind(LastSize(lines, f, args[i]))
  <2>1. args[i] \in Args
    BY <1>6
  <2> QED BY <1>1, <2>1, LastSizeRead
<1>8. function.kinds =
         [i \in DOMAIN args |-> SizeKind(LastSize(lines, f, args[i]))]
  BY <1>7
<1> QED BY <1>3, <1>4, <1>5, <1>8 DEF AsDescribed

\* Both libraries are what the last declaration and the last block of each function
\* describe.
THEOREM LibrariesAsDescribed == Spec => []BuiltAsDescribed
<1>1. DOMAIN NotBuilt.functions = {}
  BY DEF NotBuilt
<1>2. LibrariesInv => Described(client, "request")
  <2> SUFFICES ASSUME LibrariesInv, client # NotBuilt PROVE Described(client, "request")
    BY <1>1 DEF Described
  <2>1. PICK decls \in Seq(Declarations), lines \in Seq(MetaLines) :
           ~parseMetaFile(lines).failed /\ client = ClientLibrary(decls, lines)
    BY DEF LibrariesInv
  <2>2. client.header = decls /\ client.meta = lines
    BY <2>1 DEF ClientLibrary
  <2>3. ASSUME NEW f \in DOMAIN client.functions
        PROVE  AsDescribed(decls, lines, f, client.functions[f], "request")
    <3> PICK a, g : /\ a = MetaArgs(parseMetaFile(lines), f)
                    /\ g = parseHeaderFile(decls).functions[f]
      OBVIOUS
    <3>1. /\ f \in DOMAIN parseHeaderFile(decls).functions
          /\ client.functions[f] = ClientFunction(a, g)
      BY <2>1, Libraries
    <3> QED BY <2>1, <3>1, FunctionDescribed DEF ClientFunction
  <2> QED BY <2>2, <2>3 DEF Described
<1>3. LibrariesInv => Described(server, "redirect")
  <2> SUFFICES ASSUME LibrariesInv, server # NotBuilt PROVE Described(server, "redirect")
    BY <1>1 DEF Described
  <2>1. PICK decls \in Seq(Declarations), lines \in Seq(MetaLines) :
           ~parseMetaFile(lines).failed /\ server = ServerLibrary(decls, lines)
    BY DEF LibrariesInv
  <2>2. server.header = decls /\ server.meta = lines
    BY <2>1 DEF ServerLibrary
  <2>3. ASSUME NEW f \in DOMAIN server.functions
        PROVE  AsDescribed(decls, lines, f, server.functions[f], "redirect")
    <3> PICK a, g : /\ a = MetaArgs(parseMetaFile(lines), f)
                    /\ g = parseHeaderFile(decls).functions[f]
      OBVIOUS
    <3>1. /\ f \in DOMAIN parseHeaderFile(decls).functions
          /\ server.functions[f] = ServerFunction(a, g)
      BY <2>1, Libraries
    <3> QED BY <2>1, <3>1, FunctionDescribed DEF ServerFunction, ServerArgumentType
  <2> QED BY <2>2, <2>3 DEF Described
<1>4. LibrariesInv => BuiltAsDescribed
  BY <1>2, <1>3 DEF BuiltAsDescribed
<1> QED BY <1>4, LibrariesInvariance, PTL

=============================================================================
