----------------------------- MODULE ComposerProofs -----------------------------
(***************************************************************************)
(* The definitions of the composer agree, and are stable, for every        *)
(* program and whatever the analyses that recur over syntax find: those    *)
(* are constant operators here, of which nothing is assumed.               *)
(*                                                                         *)
(* The inductive invariant IInv adds to the properties of Composer: the    *)
(* shape of what is in definition_ast_list; that the builtins stay in      *)
(* their places; that a class is its own first ancestor, and has none      *)
(* before its bases are analysed, which is why a base that is found has    *)
(* all of its own ancestors already; and that before its members are       *)
(* analysed a class has only methods that it declares and that have no     *)
(* signature, which is why no signature is written twice.                  *)
(* SignedSoFar adds that what a step has passed without an error is signed,*)
(* and Layout that the parent of a class is before it, and that a class    *)
(* whose members are analysed extends its parent.                          *)
(*                                                                         *)
(* The analyses that fold over the bases or the body of a class are        *)
(* recursive functions; that these exist is shown by the least number for  *)
(* which they would not (LeastNumber, Climb).                              *)
(***************************************************************************)
EXTENDS Composer, FiniteSetTheorems, SequenceTheorems, WellFoundedInduction, TLAPS

-----------------------------------------------------------------------------
(* Numbers, lists and folds                                                *)

\* A set of numbers has a least element.
LEMMA LeastNumber ==
  ASSUME NEW S \in SUBSET Nat, S # {}
  PROVE  \E m \in S : \A k \in S : m <= k
<1>. DEFINE R == OpToRel(<, Nat)
<1>1. PICK m \in S : \A k \in S : <<k, m>> \notin R
  BY NatLessThanWellFounded, WFMin
<1>2. ASSUME NEW k \in S PROVE m <= k
  <2>1. m \in Nat /\ k \in Nat
    OBVIOUS
  <2>2. ~(k < m)
    BY <1>1, <2>1 DEF OpToRel
  <2>. QED
    BY <2>1, <2>2
<1>. QED
  BY <1>2

\* What holds of 0, and of n + 1 when it holds of n below N, holds of N.
LEMMA Climb ==
  ASSUME NEW N \in Nat, NEW P, 0 \in P, \A n \in Nat : n \in P /\ n < N => n + 1 \in P
  PROVE  N \in P
<1>1. SUFFICES ASSUME N \notin P PROVE FALSE
  OBVIOUS
<1>. DEFINE Missed == {k \in Nat : k <= N /\ k \notin P}
<1>2. PICK m \in Missed : \A k \in Missed : m <= k
  <2>1. N \in Missed
    BY <1>1
  <2>. QED
    BY <2>1, LeastNumber
<1>3. m # 0 /\ m \in Nat /\ m - 1 \in Nat /\ m <= N /\ m - 1 \notin Missed
  BY <1>2
<1>4. m - 1 \in P /\ m - 1 < N /\ (m - 1) + 1 = m
  BY <1>3
<1>. QED
  BY <1>2, <1>3, <1>4

\* s is a sequence.
IsList(s) == s \in Seq(Range(s))

\* A function on 1..n is a sequence of length n.
LEMMA ListOfFunction ==
  ASSUME NEW s, NEW n \in Nat, s = [i \in 1..n |-> s[i]]
  PROVE  IsList(s) /\ Len(s) = n /\ DOMAIN s = 1..n
<1>1. s \in [1..n -> Range(s)]
  BY DEF Range
<1>2. s \in Seq(Range(s))
  BY <1>1, SeqDef
<1>. QED
  BY <1>1, <1>2, LenProperties DEF IsList

\* What is in a list, and where.
LEMMA ListFacts ==
  ASSUME NEW s, IsList(s)
  PROVE  /\ Len(s) \in Nat /\ DOMAIN s = 1..Len(s)
         /\ s = [i \in 1..Len(s) |-> s[i]]
         /\ \A S : Range(s) \subseteq S => s \in Seq(S)
<1>1. /\ Len(s) \in Nat /\ DOMAIN s = 1..Len(s) /\ s \in [1..Len(s) -> Range(s)]
  BY LenProperties DEF IsList
<1>2. ASSUME NEW S, Range(s) \subseteq S PROVE s \in Seq(S)
  <2>1. s \in [1..Len(s) -> S]
    BY <1>1, <1>2
  <2>. QED
    BY <1>1, <2>1, SeqDef
<1>3. s = [i \in 1..Len(s) |-> s[i]]
  BY <1>1
<1>. QED
  BY <1>1, <1>2, <1>3

\* The empty list.
LEMMA EmptyList ==
  IsList(<<>>) /\ Len(<<>>) = 0 /\ Range(<<>>) = {}
<1>1. <<>> \in Seq({}) /\ Len(<<>>) = 0 /\ Range(<<>>) = {}
  BY DEF Range
<1>. QED
  BY <1>1 DEF IsList

\* A list of one.
LEMMA SingleList ==
  ASSUME NEW x
  PROVE  IsList(<<x>>) /\ Len(<<x>>) = 1 /\ Range(<<x>>) = {x}
<1>1. <<x>> \in Seq({x}) /\ Len(<<x>>) = 1 /\ Range(<<x>>) = {x}
  BY DEF Range
<1>. QED
  BY <1>1 DEF IsList

\* A list of two.
LEMMA PairList ==
  ASSUME NEW x, NEW y
  PROVE  IsList(<<x, y>>) /\ Len(<<x, y>>) = 2 /\ Range(<<x, y>>) = {x, y}
<1>1. <<x, y>> \in Seq({x, y}) /\ Len(<<x, y>>) = 2 /\ Range(<<x, y>>) = {x, y}
  BY DEF Range
<1>. QED
  BY <1>1 DEF IsList

\* Append.
LEMMA AppendList ==
  ASSUME NEW s, IsList(s), NEW x
  PROVE  LET t == Append(s, x)
         IN /\ IsList(t) /\ Len(t) = Len(s) + 1
            /\ DOMAIN t = 1..(Len(s) + 1)
            /\ \A i \in 1..Len(s) : t[i] = s[i]
            /\ t[Len(s) + 1] = x
            /\ Range(t) = Range(s) \cup {x}
<1>. DEFINE S == Range(s) \cup {x}
<1>. DEFINE t == Append(s, x)
<1>1. s \in Seq(S) /\ Len(s) \in Nat /\ DOMAIN s = 1..Len(s)
  BY ListFacts
<1>2. /\ t \in Seq(S) /\ Len(t) = Len(s) + 1
      /\ \A i \in 1..Len(s) : t[i] = s[i]
      /\ t[Len(s) + 1] = x
  BY <1>1, AppendProperties
<1>3. DOMAIN t = 1..(Len(s) + 1) /\ t \in [1..(Len(s) + 1) -> S]
  BY <1>2, LenProperties
<1>. HIDE DEF t
<1>4. Range(t) = S
  <2>1. Range(t) \subseteq S
    BY <1>3 DEF Range
  <2>2. ASSUME NEW y \in S PROVE y \in Range(t)
    <3>1. CASE y = x
      BY <1>1, <1>2, <1>3, <3>1 DEF Range
    <3>2. CASE y # x
      <4>1. PICK i \in DOMAIN s : y = s[i]
        BY <3>2 DEF Range
      <4>. QED
        BY <1>1, <1>2, <1>3, <4>1 DEF Range
    <3>. QED
      BY <3>1, <3>2
  <2>. QED
    BY <2>1, <2>2
<1>5. IsList(t)
  BY <1>2, <1>4 DEF IsList
<1>. QED
  BY <1>2, <1>3, <1>4, <1>5 DEF t

\* t is s, then u.
Joined(t, s, u) ==
  /\ IsList(t) /\ Len(t) = Len(s) + Len(u)
  /\ DOMAIN t = 1..(Len(s) + Len(u))
  /\ \A i \in 1..Len(s) : t[i] = s[i]
  /\ \A i \in 1..Len(u) : t[Len(s) + i] = u[i]
  /\ Range(t) = Range(s) \cup Range(u)

\* Concatenation.
LEMMA ConcatList ==
  ASSUME NEW s, IsList(s), NEW u, IsList(u)
  PROVE  Joined(s \o u, s, u)
<1>. DEFINE S == Range(s) \cup Range(u)
<1>. DEFINE t == s \o u
<1>1. /\ s \in Seq(S) /\ Len(s) \in Nat /\ DOMAIN s = 1..Len(s)
      /\ u \in Seq(S) /\ Len(u) \in Nat /\ DOMAIN u = 1..Len(u)
  BY ListFacts
<1>2. /\ t \in Seq(S) /\ Len(t) = Len(s) + Len(u)
      /\ \A i \in 1..Len(t) : t[i] = IF i <= Len(s) THEN s[i] ELSE u[i - Len(s)]
  BY <1>1, ConcatProperties
<1>3. DOMAIN t = 1..(Len(s) + Len(u)) /\ t \in [1..(Len(s) + Len(u)) -> S]
  BY <1>2, LenProperties
<1>. HIDE DEF t
<1>4. \A i \in 1..Len(s) : t[i] = s[i]
  BY <1>1, <1>2
<1>5. \A i \in 1..Len(u) : t[Len(s) + i] = u[i]
  <2>1. ASSUME NEW i \in 1..Len(u) PROVE t[Len(s) + i] = u[i]
    <3>1. Len(s) + i \in 1..Len(t) /\ ~(Len(s) + i <= Len(s)) /\ (Len(s) + i) - Len(s) = i
      BY <1>1, <1>2
    <3>. QED
      BY <1>2, <3>1
  <2>. QED
    BY <2>1
<1>6. Range(t) = S
  <2>1. Range(t) \subseteq S
    BY <1>3 DEF Range
  <2>2. ASSUME NEW y \in Range(s) PROVE y \in Range(t)
    BY <1>1, <1>3, <1>4 DEF Range
  <2>3. ASSUME NEW y \in Range(u) PROVE y \in Range(t)
    <3>1. PICK i \in 1..Len(u) : y = u[i]
      BY <1>1 DEF Range
    <3>2. Len(s) + i \in DOMAIN t /\ t[Len(s) + i] = y
      BY <1>1, <1>3, <1>5, <3>1
    <3>. QED
      BY <3>2 DEF Range
  <2>. QED
    BY <2>1, <2>2, <2>3
<1>7. IsList(t)
  BY <1>2, <1>6 DEF IsList
<1>. QED
  BY <1>2, <1>3, <1>4, <1>5, <1>6, <1>7 DEF t, Joined

\* A list begins a concatenation of it.
LEMMA PrefixList ==
  ASSUME NEW s, IsList(s), NEW u, IsList(u)
  PROVE  IsPrefix(s, s \o u)
<1>. DEFINE S == Range(s) \cup Range(u)
            t == s \o u
<1>1. s \in Seq(S) /\ u \in Seq(S) /\ Len(s) \in Nat /\ Len(u) \in Nat
  BY ListFacts
<1>2. Len(t) = Len(s) + Len(u)
  BY ConcatList DEF Joined
<1>3. SubSeq(s, 1, Len(s)) = SubSeq(t, 1, Len(s))
  <2>1. CASE Len(s) = 0
    <3>1. SubSeq(s, 1, 0) = <<>> /\ SubSeq(t, 1, 0) = <<>>
      BY SubSeqEmpty
    <3>. QED
      BY <2>1, <3>1
  <2>2. CASE Len(s) # 0
    <3>1. 1 \in 1..Len(s) /\ Len(s) \in 1..Len(s)
      BY <1>1, <2>2
    <3>. QED
      BY <1>1, <3>1, SubSeqOfConcat1
  <2>. QED
    BY <2>1, <2>2
<1>4. Len(s) <= Len(t)
  BY <1>1, <1>2
<1>. QED
  BY <1>3, <1>4 DEF IsPrefix

\* The elements of s in T, in a list.
LEMMA SelectedList ==
  ASSUME NEW s, IsList(s), NEW T
  PROVE  /\ IsList(Selected(s, T))
         /\ Range(Selected(s, T)) \subseteq Range(s) \cap T
<1>. DEFINE N == Len(s)
            next(g, n) == IF s[n] \in T THEN Append(g[n - 1], s[n]) ELSE g[n - 1]
            Fold(g, k) == g = [n \in 0..k |-> IF n = 0 THEN <<>>
                                              ELSE IF s[n] \in T THEN Append(g[n - 1], s[n]) ELSE g[n - 1]]
<1>1. N \in Nat /\ DOMAIN s = 1..N
  BY ListFacts
<1>. HIDE DEF N
<1>2. ASSUME NEW k \in Nat, NEW g, Fold(g, k) PROVE \E h : Fold(h, k + 1)
  <2>. DEFINE h == [n \in 0..(k + 1) |-> IF n = k + 1 THEN next(g, n) ELSE g[n]]
  <2>1. \A n \in 0..k : g[n] = IF n = 0 THEN <<>> ELSE next(g, n)
    BY <1>2, Zenon
  <2>2. \A n \in 0..k : h[n] = g[n]
    OBVIOUS
  <2>3. h[k + 1] = next(g, k + 1)
    OBVIOUS
  <2>4. ASSUME NEW n \in 0..(k + 1) PROVE h[n] = IF n = 0 THEN <<>> ELSE next(h, n)
    <3>. HIDE DEF h
    <3>1. CASE n = k + 1
      BY <2>2, <2>3, <3>1
    <3>2. CASE n # k + 1
      <4>1. n \in 0..k /\ (n # 0 => n - 1 \in 0..k)
        BY <3>2
      <4>. QED
        BY <2>1, <2>2, <4>1
    <3>. QED
      BY <3>1, <3>2
  <2>5. h = [n \in 0..(k + 1) |-> h[n]]
    OBVIOUS
  <2>. HIDE DEF h
  <2>6. Fold(h, k + 1)
    BY <2>4, <2>5, Zenon
  <2>. QED
    BY <2>6
<1>3. \E g : Fold(g, 0)
  <2>. DEFINE g == [n \in 0..0 |-> <<>>]
  <2>1. \A n \in 0..0 : n = 0
    OBVIOUS
  <2>2. Fold(g, 0)
    BY <2>1, Zenon
  <2>. QED
    BY <2>2
<1>. HIDE DEF Fold
<1>4. \E g : Fold(g, N)
  <2>. DEFINE P == {k \in Nat : \E g : Fold(g, k)}
  <2>1. 0 \in P /\ \A k \in Nat : k \in P => k + 1 \in P
    BY <1>2, <1>3
  <2>2. N \in P
    BY <1>1, <2>1, Climb
  <2>. QED
    BY <2>2
<1>. DEFINE kept == CHOOSE g : Fold(g, N)
<1>5. Fold(kept, N)
  BY <1>4, Zenon
<1>6. Selected(s, T) = kept[N]
  BY Zenon DEF Selected, Fold, N
<1>. HIDE DEF kept
<1>7. kept[0] = <<>> /\ \A n \in 1..N : kept[n] = next(kept, n)
  <2>1. \A n \in 0..N : kept[n] = IF n = 0 THEN <<>> ELSE next(kept, n)
    BY <1>5, Zenon DEF Fold
  <2>. QED
    BY <1>1, <2>1
<1>. DEFINE Good(n) == IsList(kept[n]) /\ Range(kept[n]) \subseteq Range(s) \cap T
<1>8. Good(0)
  BY <1>7, EmptyList
<1>. HIDE DEF Good, next
<1>9. ASSUME NEW n \in Nat, n + 1 <= N, Good(n) PROVE Good(n + 1)
  <2>1. n + 1 \in 1..N /\ (n + 1) - 1 = n /\ s[n + 1] \in Range(s)
    BY <1>1, <1>9 DEF Range
  <2>2. kept[n + 1] = next(kept, n + 1)
    BY <1>7, <2>1
  <2>3. CASE s[n + 1] \in T
    <3>1. kept[n + 1] = Append(kept[n], s[n + 1])
      BY <2>1, <2>2, <2>3 DEF next
    <3>. QED
      BY <1>9, <2>1, <2>3, <3>1, AppendList DEF Good
  <2>4. CASE s[n + 1] \notin T
    <3>1. kept[n + 1] = kept[n]
      BY <2>1, <2>2, <2>4 DEF next
    <3>. QED
      BY <1>9, <3>1 DEF Good
  <2>. QED
    BY <2>3, <2>4
<1>10. Good(N)
  <2>. DEFINE P == {k \in Nat : Good(k)}
  <2>1. 0 \in P /\ \A k \in Nat : k \in P /\ k < N => k + 1 \in P
    BY <1>1, <1>8, <1>9
  <2>2. N \in P
    BY <1>1, <2>1, Climb
  <2>. QED
    BY <2>2
<1>. QED
  BY <1>6, <1>10 DEF Good

-----------------------------------------------------------------------------
(* The inductive invariant                                                 *)

ClassFields == {"k", "name", "mod", "type_vars", "fields", "attributes", "methods", "ancestors",
                "constructor", "ast"}
FunctionFields == {"k", "name", "mod", "static", "sig", "var_id", "instances", "symbol", "ast"}
\* The syntax of a class: its bases, and what they are applied to, are written in an order.
ClassSyntax(ast) ==
  /\ IsList(ast.bases) /\ IsList(ast.body)
  /\ \A b \in Range(ast.bases) : b.k = "sub" => IsList(b.args)
Definition(d) ==
  \/ /\ d.k = "class" /\ DOMAIN d = ClassFields
     /\ IsList(d.methods) /\ IsList(d.ancestors) /\ IsList(d.fields) /\ IsList(d.attributes)
     /\ HasAst(d) => ClassSyntax(d.ast)
  \/ d.k = "function" /\ DOMAIN d = FunctionFields
  \/ d.k = "module" /\ ~HasAst(d)

Typed ==
  /\ prog \in Programs
  /\ at \in Nat
  /\ pc = "register" => at > 0
  /\ pc \in {"bases", "members", "functions", "constructors", "instances"} => at > builtin_num
  /\ DOMAIN scopes = {i.mod : i \in Range(prog.items)}
  /\ IsList(defs) /\ builtin_num <= Len(defs)
  /\ \A i \in DOMAIN defs : Definition(defs[i])

\* The builtins stay in their places.
BuiltinsRight ==
  /\ \A i \in 1..builtin_num : ~HasAst(defs[i]) /\ (IsClass(defs[i]) => AncestorIds(i) \subseteq {i})
  /\ IsClass(defs[PrimId("Option")]) /\ IsClass(defs[PrimId("Exception")])

\* A definition of the program has a name that is taken.
NamesTaken == \A i \in DOMAIN defs : Declared(defs[i]) => defs[i].name \in defined_names

\* The constructors that wait to become definitions.
ExtensionRight ==
  /\ IsList(extension)
  /\ \A e \in DOMAIN extension :
       LET c == extension[e].class
           f == extension[e].def
       IN /\ c \in DOMAIN defs /\ IsClass(defs[c])
          /\ Definition(f) /\ IsFunction(f) /\ ~HasAst(f)
          /\ f.name = make_class_method_name(defs[c].name, "__init__")

\* The classes whose bases, and whose members, have not been analysed.
Unbased(c) == pc = "register" \/ (pc = "bases" /\ c >= at)
Unsigned(c) == pc \in {"register", "bases"} \/ (pc = "members" /\ c >= at)

\* A class without bases yet has no ancestor; any other is its own first ancestor.
AncestorsStart ==
  \A c \in DOMAIN defs : IsClass(defs[c]) =>
    /\ c > builtin_num /\ Unbased(c) => defs[c].ancestors = <<>>
    /\ defs[c].ancestors # <<>> => defs[c].ancestors[1][2] = c

\* A method that is declared in the program, or that a builtin class has.
Inherits(c, m) ==
  \/ /\ m.id \in DOMAIN method_class /\ defs[m.id].ast.name = m.name
     /\ method_class[m.id] \in AncestorIds(c) \cup {c}
  \/ m.id = 0 /\ \E b \in AncestorIds(c) \cup {c} : b <= builtin_num /\ m.name \in Methods(PrimDefs[b])
MadeConstructor(c, m) ==
  /\ m.name = "__init__" /\ m.id \in DOMAIN defs /\ IsFunction(defs[m.id]) /\ ~HasAst(defs[m.id])
  /\ defs[m.id].name = make_class_method_name(defs[c].name, "__init__")
MethodsRight ==
  \A c \in DOMAIN defs : IsClass(defs[c]) =>
    \A m \in Range(defs[c].methods) :
      Inherits(c, m) \/ (pc \in {"instances", "done", "failed", "panic"} /\ MadeConstructor(c, m))

\* Until its members are analysed, a class has only the methods it declares, which have no signature.
Pending ==
  \A c \in DOMAIN defs : IsClass(defs[c]) /\ c > builtin_num /\ Unsigned(c) =>
    \A m \in Range(defs[c].methods) :
      m.id \in DOMAIN method_class /\ method_class[m.id] = c /\ ~defs[m.id].sig.known

Tables == NamesTaken /\ NamesUnique /\ MethodsOwned /\ ScopesRight
Ancestry == AncestorsStart /\ HierarchyOrdered
IInv == Typed /\ BuiltinsRight /\ Tables /\ ExtensionRight /\ Ancestry /\ MethodsRight /\ Pending

-----------------------------------------------------------------------------
(* The builtins, and the initial state                                     *)

\* The places of the builtins that the composer looks up by name.
LEMMA PrimFacts ==
  /\ builtin_num = 18 /\ DOMAIN PrimDefs = 1..18
  /\ PrimId("Option") = 8 /\ PrimId("Exception") = 9
  /\ PrimDefs[8] = "Option" /\ PrimDefs[9] = "Exception"
<1>1. builtin_num = 18 /\ DOMAIN PrimDefs = 1..18
  BY DEF builtin_num, PrimDefs
<1>2. \A i \in 1..18 : PrimDefs[i] = "Option" <=> i = 8
  BY DEF PrimDefs
<1>3. \A i \in 1..18 : PrimDefs[i] = "Exception" <=> i = 9
  BY DEF PrimDefs
<1>4. PrimId("Option") = 8
  BY <1>1, <1>2 DEF PrimId
<1>5. PrimId("Exception") = 9
  BY <1>1, <1>3 DEF PrimId
<1>. QED
  BY <1>1, <1>2, <1>3, <1>4, <1>5

\* A finite set, in a list.
LEMMA SetInList ==
  ASSUME NEW S, IsFiniteSet(S)
  PROVE  IsList(SetToSeq(S)) /\ Range(SetToSeq(S)) \subseteq S
<1>1. Cardinality(S) \in Nat /\ ExistsBijection(1..Cardinality(S), S)
  BY FS_CardinalityType
<1>. DEFINE n == Cardinality(S)
            s == SetToSeq(S)
<1>2. \E f \in [1..n -> S] : IsInjective(f)
  BY <1>1 DEF ExistsBijection, Bijection, Injection
<1>3. s \in [1..n -> S]
  BY <1>2 DEF SetToSeq
<1>. HIDE DEF n, s
<1>4. s = [i \in 1..n |-> s[i]] /\ Range(s) \subseteq S
  BY <1>3 DEF Range
<1>. QED
  BY <1>1, <1>4, ListOfFunction DEF n, s

\* The methods of a builtin, in a list.
LEMMA BuiltinMethods ==
  ASSUME NEW n
  PROVE  LET s == SetToSeq({Method(m, 0) : m \in Methods(n)})
         IN IsList(s) /\ \A m \in Range(s) : m.id = 0 /\ m.name \in Methods(n)
<1>. DEFINE S == {Method(m, 0) : m \in Methods(n)}
<1>1. \A a, b, c : IsFiniteSet({}) /\ IsFiniteSet({a} \cup {b}) /\ IsFiniteSet({a} \cup {b} \cup {c})
  BY FS_EmptySet, FS_Singleton, FS_Union
<1>2. \/ S = {}
      \/ S = {Method("is_some", 0)} \cup {Method("is_none", 0)} \cup {Method("unwrap", 0)}
      \/ S = {Method("copy", 0)} \cup {Method("fill", 0)}
  BY DEF Methods
<1>3. \A m \in S : m.id = 0 /\ m.name \in Methods(n)
  BY DEF Method
<1>. HIDE DEF S
<1>4. IsFiniteSet(S)
  <2>1. CASE S = {}
    BY <1>1, <2>1
  <2>2. CASE S = {Method("is_some", 0)} \cup {Method("is_none", 0)} \cup {Method("unwrap", 0)}
    <3>1. IsFiniteSet({Method("is_some", 0)} \cup {Method("is_none", 0)} \cup {Method("unwrap", 0)})
      BY <1>1, ZenonT(30)
    <3>. QED
      BY <2>2, <3>1, Zenon
  <2>3. CASE S = {Method("copy", 0)} \cup {Method("fill", 0)}
    <3>1. IsFiniteSet({Method("copy", 0)} \cup {Method("fill", 0)})
      BY <1>1, ZenonT(30)
    <3>. QED
      BY <2>3, <3>1, Zenon
  <2>. QED
    BY <1>2, <2>1, <2>2, <2>3
<1>5. IsList(SetToSeq(S)) /\ Range(SetToSeq(S)) \subseteq S
  BY <1>4, SetInList
<1>. QED
  BY <1>3, <1>5 DEF S

\* New definitions.
NewClass(d, name, mod, ast) ==
  /\ DOMAIN d = ClassFields
  /\ d.k = "class" /\ d.name = name /\ d.mod = mod /\ d.ast = ast
  /\ d.methods = <<>> /\ d.ancestors = <<>> /\ d.fields = <<>> /\ d.attributes = <<>>
NewFunction(d, name, mod, ast) ==
  /\ DOMAIN d = FunctionFields
  /\ d.k = "function" /\ d.name = name /\ d.mod = mod /\ d.ast = ast
  /\ ~d.sig.known

\* The fields of a new class.
LEMMA NewClassFields ==
  ASSUME NEW name, NEW mod, NEW ast
  PROVE  NewClass(make_top_level_class_def(name, mod, ast), name, mod, ast)
BY DEF NewClass, make_top_level_class_def, ClassFields

\* The fields of a new function.
LEMMA NewFunctionFields ==
  ASSUME NEW name, NEW mod, NEW static, NEW ast
  PROVE  NewFunction(make_top_level_function_def(name, mod, static, ast), name, mod, ast)
BY DEF NewFunction, make_top_level_function_def, NoSignature, FunctionFields

\* A builtin class.
BuiltinFields(d, n) ==
  /\ DOMAIN d = ClassFields
  /\ d.k = "class" /\ d.ast = Absent
  /\ IsList(d.fields) /\ IsList(d.attributes)
  /\ d.methods = SetToSeq({Method(m, 0) : m \in Methods(n)})
  /\ d.ancestors = IF n = "Option" THEN <<CustomClass(PrimId(n), <<>>)>> ELSE <<>>

\* The fields of a builtin class.
LEMMA BuiltinShape ==
  ASSUME NEW n
  PROVE  BuiltinFields(BuiltinClass(n), n)
<1>. DEFINE c == make_top_level_class_def(<<n>>, "", Absent)
<1>1. /\ DOMAIN c = ClassFields
      /\ c.k = "class" /\ c.ast = Absent /\ c.attributes = <<>>
  <2>1. NewClass(c, <<n>>, "", Absent)
    BY NewClassFields
  <2>. QED
    BY <2>1 DEF NewClass
<1>. HIDE DEF c
<1>. DEFINE M == SetToSeq({Method(m, 0) : m \in Methods(n)})
            A == IF n = "Option" THEN <<CustomClass(PrimId(n), <<>>)>> ELSE <<>>
            V == [i \in DOMAIN Params(n) |-> TypeVar(Params(n)[i])]
            F == IF n = "Exception" THEN << [name |-> "__message__", ann |-> Prim("str"), mutable |-> TRUE],
                                            [name |-> "__param0__", ann |-> Prim("int64"), mutable |-> TRUE] >>
                 ELSE <<>>
<1>2. BuiltinClass(n) = [c EXCEPT !.type_vars = V, !.methods = M, !.fields = F, !.ancestors = A]
  BY Zenon DEF BuiltinClass, c
<1>0. IsList(F)
  BY EmptyList, PairList
<1>. HIDE DEF V, M, F, A
<1>3. LET d == BuiltinClass(n)
      IN /\ DOMAIN d = ClassFields
         /\ d.k = "class" /\ d.ast = Absent
         /\ d.methods = M /\ d.ancestors = A /\ d.fields = F /\ d.attributes = <<>>
  BY <1>1, <1>2 DEF ClassFields
<1>. QED
  BY <1>0, <1>3, EmptyList DEF M, A, BuiltinFields

\* The builtins are classes, but for one function.
LEMMA BuiltinsShape ==
  ASSUME NEW i \in 1..builtin_num
  PROVE  LET d == Builtins[i]
         IN /\ Definition(d) /\ ~HasAst(d) /\ d.k \in {"class", "function"}
            /\ d.k = "class" =>
                 /\ \A m \in Range(d.methods) : m.id = 0 /\ m.name \in Methods(PrimDefs[i])
                 /\ d.ancestors = IF i = 8 THEN <<CustomClass(8, <<>>)>> ELSE <<>>
            /\ i \in {8, 9} => d.k = "class"
<1>1. CASE PrimDefs[i] = "len"
  <2>1. Builtins[i] = make_top_level_function_def(<<"len">>, "", FALSE, Absent) /\ i \notin {8, 9}
    BY <1>1, PrimFacts DEF Builtins
  <2>2. NewFunction(Builtins[i], <<"len">>, "", Absent)
    BY <2>1, NewFunctionFields
  <2>. DEFINE d == Builtins[i]
  <2>3. d.k = "function" /\ DOMAIN d = FunctionFields /\ d.ast = Absent
    BY <2>2 DEF NewFunction
  <2>. HIDE DEF d
  <2>4. Definition(d) /\ ~HasAst(d)
    BY <2>3 DEF Definition, HasAst, Absent
  <2>. QED
    BY <2>1, <2>3, <2>4 DEF d
<1>2. CASE PrimDefs[i] # "len"
  <2>. DEFINE d == Builtins[i]
  <2>1. d = BuiltinClass(PrimDefs[i])
    BY <1>2 DEF Builtins
  <2>2. (PrimDefs[i] = "Option") <=> (i = 8)
    BY PrimFacts DEF PrimDefs
  <2>3. /\ DOMAIN d = ClassFields /\ d.k = "class" /\ d.ast = Absent
        /\ IsList(d.fields) /\ IsList(d.attributes)
        /\ d.methods = SetToSeq({Method(m, 0) : m \in Methods(PrimDefs[i])})
        /\ d.ancestors = IF i = 8 THEN <<CustomClass(8, <<>>)>> ELSE <<>>
    <3>1. BuiltinFields(d, PrimDefs[i])
      BY <2>1, BuiltinShape
    <3>. QED
      BY <2>2, <3>1, PrimFacts DEF BuiltinFields
  <2>4. IsList(d.methods) /\ \A m \in Range(d.methods) : m.id = 0 /\ m.name \in Methods(PrimDefs[i])
    BY <2>3, BuiltinMethods
  <2>5. IsList(d.ancestors)
    BY <2>3, EmptyList, SingleList, Zenon
  <2>. HIDE DEF d
  <2>6. ~HasAst(d)
    BY <2>3 DEF HasAst, Absent
  <2>7. Definition(d)
    BY <2>3, <2>4, <2>5, <2>6 DEF Definition
  <2>. QED
    BY <2>3, <2>4, <2>6, <2>7 DEF d
<1>. QED
  BY <1>1, <1>2

\* It holds before anything is registered.
LEMMA InitInv ==
  Init => IInv
<1>. SUFFICES ASSUME Init PROVE IInv
  OBVIOUS
<1>1. /\ prog \in Programs /\ pc = "register" /\ at = 1
      /\ defs = Builtins /\ defined_names = {} /\ method_class = <<>> /\ extension = <<>>
      /\ scopes = TypesOf({i.mod : i \in Range(prog.items)})
  BY DEF Init, new
<1>2. IsList(defs) /\ Len(defs) = builtin_num /\ DOMAIN defs = 1..builtin_num
  <2>1. defs = [i \in 1..builtin_num |-> defs[i]] /\ builtin_num \in Nat
    BY <1>1, PrimFacts DEF Builtins
  <2>. QED
    BY <2>1, ListOfFunction
<1>3. \A i \in 1..builtin_num :
        /\ Definition(defs[i]) /\ ~HasAst(defs[i]) /\ defs[i].k \in {"class", "function"}
        /\ IsClass(defs[i]) =>
             /\ \A m \in Range(defs[i].methods) : m.id = 0 /\ m.name \in Methods(PrimDefs[i])
             /\ defs[i].ancestors = IF i = 8 THEN <<CustomClass(8, <<>>)>> ELSE <<>>
        /\ i \in {8, 9} => IsClass(defs[i])
  BY <1>1, BuiltinsShape DEF IsClass
<1>4. DOMAIN method_class = {} /\ DOMAIN extension = {}
  BY <1>1
<1>5. Typed
  BY <1>1, <1>2, <1>3, PrimFacts DEF Typed, TypesOf
<1>6. BuiltinsRight
  <2>1. ASSUME NEW i \in 1..builtin_num, IsClass(defs[i]) PROVE AncestorIds(i) \subseteq {i}
    <3>1. Range(defs[i].ancestors) = IF i = 8 THEN {CustomClass(8, <<>>)} ELSE {}
      BY <1>3, <2>1, EmptyList, SingleList
    <3>. QED
      BY <3>1 DEF AncestorIds, CustomClass
  <2>. QED
    BY <1>3, <2>1, PrimFacts DEF BuiltinsRight
<1>7. Tables
  <2>1. \A i \in DOMAIN defs : ~Declared(defs[i])
    BY <1>2, <1>3 DEF Declared
  <2>2. \A mod \in DOMAIN scopes : DOMAIN scopes[mod] = {}
    BY <1>1 DEF TypesOf
  <2>. QED
    BY <1>4, <2>1, <2>2 DEF Tables, NamesTaken, NamesUnique, MethodsOwned, ScopesRight
<1>8. ExtensionRight
  BY <1>1, <1>4, EmptyList DEF ExtensionRight
<1>9. Ancestry
  <2>1. AncestorsStart
    <3>1. \A i \in DOMAIN defs : IsClass(defs[i]) /\ defs[i].ancestors # <<>> => defs[i].ancestors[1][2] = i
      BY <1>2, <1>3 DEF CustomClass
    <3>2. \A i \in DOMAIN defs : ~(i > builtin_num)
      BY <1>2, PrimFacts
    <3>. QED
      BY <3>1, <3>2 DEF AncestorsStart
  <2>2. HierarchyOrdered
    <3>1. \A c \in DOMAIN defs : IsClass(defs[c]) => AncestorIds(c) \subseteq {c} /\ c \in 1..c
      BY <1>2, <1>6, PrimFacts DEF BuiltinsRight
    <3>. QED
      BY <3>1 DEF HierarchyOrdered
  <2>. QED
    BY <2>1, <2>2 DEF Ancestry
<1>10. MethodsRight
  BY <1>2, <1>3 DEF MethodsRight, Inherits
<1>11. Pending
  BY <1>2, PrimFacts DEF Pending
<1>. QED
  BY <1>5, <1>6, <1>7, <1>8, <1>9, <1>10, <1>11 DEF IInv

-----------------------------------------------------------------------------
(* Steps that keep the definitions, or what a definition is                *)

\* What a definition is does not change.
Kept(d, e) == e.k = d.k /\ e.name = d.name /\ e.mod = d.mod /\ e.ast = d.ast
\* The definitions ds are among es.
Grown(ds, es) ==
  DOMAIN ds \subseteq DOMAIN es /\ \A i \in DOMAIN ds : Kept(ds[i], es[i])

\* The tables of names, methods and scopes speak of what definitions are.
LEMMA TablesKept ==
  ASSUME Tables, Grown(defs, defs'), \A i \in DOMAIN defs' \ DOMAIN defs : ~Declared(defs'[i]),
         UNCHANGED <<method_class, scopes>>, defined_names \subseteq defined_names'
  PROVE  Tables'
<1>1. \A i \in DOMAIN defs : i \in DOMAIN defs' /\ Kept(defs[i], defs'[i])
  BY DEF Grown
<1>2. \A i \in DOMAIN defs : Declared(defs'[i]) <=> Declared(defs[i])
  BY <1>1 DEF Kept, Declared, HasAst
<1>3. NamesTaken' /\ NamesUnique'
  BY <1>1, <1>2 DEF Tables, NamesTaken, NamesUnique, Kept
<1>4. MethodsOwned'
  BY <1>1 DEF Tables, MethodsOwned, Kept, IsFunction, IsClass, HasAst
<1>5. ScopesRight'
  BY <1>1, <1>2 DEF Tables, ScopesRight, Kept
<1>. QED
  BY <1>3, <1>4, <1>5 DEF Tables

\* The progress of the analyses.
Forward ==
  /\ at' \in Nat
  /\ pc' = "register" => at' > 0
  /\ pc' \in {"bases", "members", "functions", "constructors", "instances"} => at' > builtin_num
  /\ \A c \in Nat : (Unbased(c)' => Unbased(c)) /\ (Unsigned(c)' => Unsigned(c))
  /\ pc \in {"instances", "done", "failed", "panic"} => pc' \in {"instances", "done", "failed", "panic"}

\* What a definition of a class or a function holds, beside what it is.
SameHeld(d, e) ==
  /\ d.k = "class" => e.methods = d.methods /\ e.ancestors = d.ancestors
  /\ d.k = "function" /\ pc' \in {"register", "bases", "members"} /\ e.sig.known => d.sig.known

\* What DefinitionsStable says of a step.
Stable ==
  \A i \in DOMAIN defs :
    /\ i \in DOMAIN defs'
    /\ defs'[i].k = defs[i].k /\ defs'[i].name = defs[i].name /\ defs'[i].ast = defs[i].ast
    /\ IsFunction(defs[i]) /\ defs[i].sig.known => defs'[i].sig = defs[i].sig

\* A step that only goes on with definitions whose methods and ancestors stay, and makes no signature
\* of a method of a class that has none yet, keeps the invariant.
LEMMA KeptStep ==
  ASSUME IInv, Forward,
         UNCHANGED <<prog, scopes, method_class>>, defined_names \subseteq defined_names',
         IsList(defs'), DOMAIN defs' = DOMAIN defs, Grown(defs, defs'),
         \A i \in DOMAIN defs : Definition(defs'[i]) /\ SameHeld(defs[i], defs'[i]),
         ExtensionRight'
  PROVE  IInv'
<1>1. /\ IsList(defs) /\ builtin_num <= Len(defs) /\ DOMAIN defs = 1..Len(defs) /\ Len(defs) \in Nat
      /\ Len(defs') = Len(defs)
  <2>1. IsList(defs) /\ builtin_num <= Len(defs)
    BY DEF IInv, Typed
  <2>2. /\ DOMAIN defs = 1..Len(defs) /\ Len(defs) \in Nat
        /\ DOMAIN defs' = 1..Len(defs') /\ Len(defs') \in Nat
    BY <2>1, ListFacts
  <2>. QED
    BY <2>1, <2>2
<1>2. \A i \in DOMAIN defs : /\ Kept(defs[i], defs'[i])
                             /\ IsClass(defs'[i]) <=> IsClass(defs[i])
                             /\ HasAst(defs'[i]) <=> HasAst(defs[i])
                             /\ IsFunction(defs'[i]) <=> IsFunction(defs[i])
  BY DEF Grown, Kept, IsClass, HasAst, IsFunction
<1>3. \A i \in DOMAIN defs : IsClass(defs[i]) =>
        /\ defs'[i].methods = defs[i].methods /\ defs'[i].ancestors = defs[i].ancestors
        /\ AncestorIds(i)' = AncestorIds(i)
  <2>1. \A i \in DOMAIN defs : IsClass(defs[i]) =>
          defs'[i].methods = defs[i].methods /\ defs'[i].ancestors = defs[i].ancestors
    BY DEF SameHeld, IsClass
  <2>. QED
    BY <2>1 DEF AncestorIds
<1>4. Typed'
  BY <1>1 DEF IInv, Typed, Forward
<1>5. BuiltinsRight'
  <2>1. \A i \in 1..builtin_num : i \in DOMAIN defs
    BY <1>1, PrimFacts
  <2>. QED
    BY <1>2, <1>3, <2>1, PrimFacts DEF IInv, BuiltinsRight
<1>6. Tables'
  <2>1. \A i \in DOMAIN defs' \ DOMAIN defs : ~Declared(defs'[i])
    OBVIOUS
  <2>. QED
    BY <2>1, TablesKept DEF IInv
<1>7. AncestorsStart'
  <2>1. \A c \in DOMAIN defs : Unbased(c)' => Unbased(c)
    BY <1>1 DEF Forward
  <2>. QED
    BY <1>2, <1>3, <2>1 DEF IInv, Ancestry, AncestorsStart
<1>8. HierarchyOrdered'
  <2>1. ASSUME NEW c \in DOMAIN defs, IsClass(defs[c]), NEW a \in AncestorIds(c)
        PROVE  a \in 1..c /\ IsClass(defs'[a]) /\ AncestorIds(a)' \subseteq AncestorIds(c)
    <3>1. a \in 1..c /\ IsClass(defs[a]) /\ AncestorIds(a) \subseteq AncestorIds(c)
      BY <2>1 DEF IInv, Ancestry, HierarchyOrdered
    <3>2. a \in DOMAIN defs
      BY <1>1, <3>1
    <3>. QED
      BY <1>2, <1>3, <3>1, <3>2
  <2>. QED
    BY <1>2, <1>3, <2>1 DEF HierarchyOrdered
<1>9. MethodsRight'
  <2>1. ASSUME NEW c \in DOMAIN defs, IsClass(defs[c]), NEW m \in Range(defs[c].methods)
        PROVE  \/ Inherits(c, m)'
               \/ pc' \in {"instances", "done", "failed", "panic"} /\ MadeConstructor(c, m)'
    <3>1. \/ Inherits(c, m)
          \/ pc \in {"instances", "done", "failed", "panic"} /\ MadeConstructor(c, m)
      BY <2>1 DEF IInv, MethodsRight
    <3>2. CASE Inherits(c, m)
      <4>1. m.id \in DOMAIN method_class => m.id \in DOMAIN defs
        BY DEF IInv, Tables, MethodsOwned
      <4>2. Inherits(c, m)'
        BY <1>2, <1>3, <2>1, <3>2, <4>1 DEF Inherits, Kept
      <4>. QED
        BY <4>2
    <3>3. CASE pc \in {"instances", "done", "failed", "panic"} /\ MadeConstructor(c, m)
      <4>1. MadeConstructor(c, m)'
        BY <1>2, <2>1, <3>3 DEF MadeConstructor, Kept
      <4>. QED
        BY <3>3, <4>1 DEF Forward
    <3>. QED
      BY <3>1, <3>2, <3>3
  <2>. QED
    BY <1>2, <1>3, <2>1 DEF MethodsRight
<1>10. Pending'
  <2>1. ASSUME NEW c \in DOMAIN defs, IsClass(defs[c]), c > builtin_num, Unsigned(c)',
               NEW m \in Range(defs[c].methods)
        PROVE  m.id \in DOMAIN method_class /\ method_class[m.id] = c /\ ~defs'[m.id].sig.known
    <3>1. Unsigned(c)
      BY <1>1, <2>1 DEF Forward
    <3>2. m.id \in DOMAIN method_class /\ method_class[m.id] = c /\ ~defs[m.id].sig.known
      BY <2>1, <3>1 DEF IInv, Pending
    <3>3. m.id \in DOMAIN defs /\ defs[m.id].k = "function"
      BY <3>2 DEF IInv, Tables, MethodsOwned, IsFunction
    <3>4. pc' \in {"register", "bases", "members"}
      BY <2>1 DEF Unsigned
    <3>. QED
      BY <3>2, <3>3, <3>4 DEF SameHeld
  <2>. QED
    BY <1>2, <1>3, <2>1 DEF Pending
<1>. QED
  BY <1>4, <1>5, <1>6, <1>7, <1>8, <1>9, <1>10 DEF IInv, Ancestry

\* A step that changes no definition.
LEMMA FrameStep ==
  ASSUME IInv, Forward,
         UNCHANGED <<prog, defs, scopes, method_class, extension>>, defined_names \subseteq defined_names'
  PROVE  IInv' /\ Stable
<1>1. Grown(defs, defs')
  BY DEF Grown, Kept
<1>2. IsList(defs) /\ \A i \in DOMAIN defs : Definition(defs[i])
  BY DEF IInv, Typed
<1>3. \A i \in DOMAIN defs : Definition(defs'[i]) /\ SameHeld(defs[i], defs'[i])
  BY <1>2 DEF SameHeld
<1>4. ExtensionRight'
  BY DEF IInv, ExtensionRight
<1>5. IInv'
  BY <1>1, <1>2, <1>3, <1>4, KeptStep
<1>. QED
  BY <1>5 DEF Stable

\* Where a step may go: on to the next item, out, or to the next analysis.
LEMMA Progress ==
  ASSUME IInv,
         \/ at' = at + 1 /\ pc' = pc
         \/ at' = 0 /\ pc' \in {"failed", "panic", "done"}
         \/ at' = builtin_num + 1 /\ <<pc, pc'>> \in {<<"register", "bases">>, <<"bases", "members">>,
              <<"members", "functions">>, <<"functions", "constructors">>, <<"constructors", "instances">>}
         \/ at' = at /\ pc' = pc
  PROVE  Forward
<1>1. /\ at \in Nat /\ (pc = "register" => at > 0)
      /\ pc \in {"bases", "members", "functions", "constructors", "instances"} => at > builtin_num
      /\ builtin_num = 18
  BY PrimFacts DEF IInv, Typed
<1>2. CASE at' = at + 1 /\ pc' = pc
  BY <1>1, <1>2 DEF Forward, Unbased, Unsigned
<1>3. CASE at' = 0 /\ pc' \in {"failed", "panic", "done"}
  BY <1>1, <1>3 DEF Forward, Unbased, Unsigned
<1>4. CASE at' = builtin_num + 1 /\ <<pc, pc'>> \in {<<"register", "bases">>, <<"bases", "members">>,
              <<"members", "functions">>, <<"functions", "constructors">>, <<"constructors", "instances">>}
  <2>1. \/ pc = "register" /\ pc' = "bases"
        \/ pc = "bases" /\ pc' = "members"
        \/ pc = "members" /\ pc' = "functions"
        \/ pc = "functions" /\ pc' = "constructors"
        \/ pc = "constructors" /\ pc' = "instances"
    BY <1>4
  <2>. QED
    BY <1>1, <1>4, <2>1 DEF Forward, Unbased, Unsigned
<1>5. CASE at' = at /\ pc' = pc
  BY <1>1, <1>5 DEF Forward, Unbased, Unsigned
<1>. QED
  BY <1>2, <1>3, <1>4, <1>5

\* The steps that change no definition.
LEMMA FrameSteps ==
  ASSUME IInv,
         \/ handle_assignment_pattern \/ register_other \/ start_analysis
         \/ end_class_fields_methods \/ end_functions \/ end_instances
  PROVE  IInv' /\ Stable
<1>1. ASSUME handle_assignment_pattern PROVE IInv' /\ Stable
  <2>1. /\ UNCHANGED <<prog, defs, defined_names, scopes, method_class, extension>>
        /\ (at' = at + 1 /\ pc' = pc) \/ (at' = 0 /\ pc' = "failed")
    <3>1. UNCHANGED <<prog, defs, defined_names, scopes, method_class, extension>>
      BY <1>1 DEF handle_assignment_pattern
    <3>2. (at' = at + 1 /\ pc' = pc) \/ (at' = 0 /\ pc' = "failed")
      BY <1>1 DEF handle_assignment_pattern, Stop
    <3>. QED
      BY <3>1, <3>2
  <2>. QED
    BY <2>1, Progress, FrameStep
<1>2. ASSUME register_other PROVE IInv' /\ Stable
  <2>1. /\ UNCHANGED <<prog, defs, defined_names, scopes, method_class, extension>>
        /\ (at' = at + 1 /\ pc' = pc) \/ (at' = 0 /\ pc' = "failed")
    <3>1. UNCHANGED <<prog, defs, defined_names, scopes, method_class, extension>>
      BY <1>2 DEF register_other
    <3>2. (at' = at + 1 /\ pc' = pc) \/ (at' = 0 /\ pc' = "failed")
      BY <1>2 DEF register_other, Stop
    <3>. QED
      BY <3>1, <3>2
  <2>. QED
    BY <2>1, Progress, FrameStep
<1>3. ASSUME start_analysis PROVE IInv' /\ Stable
  <2>1. /\ UNCHANGED <<prog, defs, defined_names, scopes, method_class, extension>>
        /\ pc = "register" /\ pc' = "bases" /\ at' = builtin_num + 1
    BY <1>3 DEF start_analysis, Step
  <2>. QED
    BY <2>1, Progress, FrameStep
<1>4. ASSUME end_class_fields_methods \/ end_functions PROVE IInv' /\ Stable
  <2>1. /\ UNCHANGED <<prog, defs, defined_names, scopes, method_class, extension>>
        /\ \/ at' = builtin_num + 1 /\ pc = "members" /\ pc' = "functions"
           \/ at' = builtin_num + 1 /\ pc = "functions" /\ pc' = "constructors"
           \/ at' = 0 /\ pc' = "failed"
    BY <1>4 DEF end_class_fields_methods, end_functions, EndOf, Step, Stop
  <2>. QED
    BY <2>1, Progress, FrameStep
<1>5. ASSUME end_instances PROVE IInv' /\ Stable
  <2>1. /\ UNCHANGED <<prog, defs, defined_names, scopes, method_class, extension>>
        /\ at' = 0 /\ pc' \in {"failed", "done"}
    BY <1>5 DEF end_instances, Stop
  <2>. QED
    BY <2>1, Progress, FrameStep
<1>. QED
  BY <1>1, <1>2, <1>3, <1>4, <1>5

-----------------------------------------------------------------------------
(* Registration                                                            *)

\* A new class has no ancestor, and methods of its own without signatures.
Fresh(ds, owner, c) ==
  /\ Definition(ds[c])
  /\ IsClass(ds[c]) =>
       /\ ds[c].ancestors = <<>>
       /\ \A m \in Range(ds[c].methods) :
            /\ m.id \in DOMAIN owner /\ owner[m.id] = c
            /\ ds[m.id].ast.name = m.name /\ ~ds[m.id].sig.known

\* A step that appends definitions and fills the tables keeps the invariant.
LEMMA GrowStep ==
  ASSUME IInv, Forward, pc = "register",
         UNCHANGED <<prog, extension>>, DOMAIN scopes' = DOMAIN scopes,
         IsList(defs'), Len(defs) <= Len(defs'),
         \A i \in DOMAIN defs : defs'[i] = defs[i],
         \A i \in DOMAIN defs' \ DOMAIN defs : Fresh(defs', method_class', i),
         \A f \in DOMAIN method_class : f \in DOMAIN method_class' /\ method_class'[f] = method_class[f],
         Tables'
  PROVE  IInv' /\ Stable
<1>1. /\ IsList(defs) /\ builtin_num <= Len(defs) /\ builtin_num = 18
      /\ DOMAIN defs = 1..Len(defs) /\ Len(defs) \in Nat
      /\ DOMAIN defs' = 1..Len(defs') /\ Len(defs') \in Nat
      /\ DOMAIN defs \subseteq DOMAIN defs'
  <2>1. IsList(defs) /\ builtin_num <= Len(defs)
    BY DEF IInv, Typed
  <2>2. /\ DOMAIN defs = 1..Len(defs) /\ Len(defs) \in Nat
        /\ DOMAIN defs' = 1..Len(defs') /\ Len(defs') \in Nat
    BY <2>1, ListFacts
  <2>. QED
    BY <2>1, <2>2, PrimFacts
<1>2. \A i \in DOMAIN defs : defs'[i] = defs[i] /\ AncestorIds(i)' = AncestorIds(i)
  BY DEF AncestorIds
<1>3. \A i \in DOMAIN defs' \ DOMAIN defs :
        /\ i > builtin_num /\ Fresh(defs', method_class', i)
        /\ IsClass(defs'[i]) => AncestorIds(i)' = {}
  <2>1. ASSUME NEW i \in DOMAIN defs' \ DOMAIN defs, IsClass(defs'[i]) PROVE AncestorIds(i)' = {}
    BY <2>1, EmptyList DEF AncestorIds, Fresh
  <2>. QED
    BY <1>1, <2>1
<1>4. Typed'
  BY <1>1, <1>2, <1>3 DEF IInv, Typed, Forward, Fresh
<1>5. BuiltinsRight'
  <2>1. \A i \in 1..builtin_num : i \in DOMAIN defs
    BY <1>1
  <2>. QED
    <3>1. PrimId("Option") \in DOMAIN defs /\ PrimId("Exception") \in DOMAIN defs
      BY <1>1, PrimFacts
    <3>. QED
      BY <1>2, <2>1, <3>1 DEF IInv, BuiltinsRight
<1>6. ExtensionRight'
  BY <1>1, <1>2 DEF IInv, ExtensionRight
<1>7. AncestorsStart'
  <2>1. ASSUME NEW c \in DOMAIN defs, IsClass(defs[c])
        PROVE  /\ c > builtin_num /\ Unbased(c)' => defs[c].ancestors = <<>>
               /\ defs[c].ancestors # <<>> => defs[c].ancestors[1][2] = c
    <3>1. Unbased(c)' => Unbased(c)
      BY <1>1 DEF Forward
    <3>. QED
      BY <2>1, <3>1 DEF IInv, Ancestry, AncestorsStart
  <2>2. \A c \in DOMAIN defs' \ DOMAIN defs : IsClass(defs'[c]) => defs'[c].ancestors = <<>>
    BY <1>3 DEF Fresh
  <2>. QED
    BY <1>2, <2>1, <2>2 DEF AncestorsStart
<1>8. HierarchyOrdered'
  <2>1. ASSUME NEW c \in DOMAIN defs, IsClass(defs[c]), NEW a \in AncestorIds(c)
        PROVE  a \in 1..c /\ IsClass(defs'[a]) /\ AncestorIds(a)' \subseteq AncestorIds(c)
    <3>1. a \in 1..c /\ IsClass(defs[a]) /\ AncestorIds(a) \subseteq AncestorIds(c)
      BY <2>1 DEF IInv, Ancestry, HierarchyOrdered
    <3>2. a \in DOMAIN defs
      BY <1>1, <3>1
    <3>. QED
      BY <1>2, <3>1, <3>2
  <2>. QED
    BY <1>2, <1>3, <2>1 DEF HierarchyOrdered
<1>9. ASSUME NEW f \in DOMAIN method_class
      PROVE  /\ f \in DOMAIN method_class' /\ method_class'[f] = method_class[f]
             /\ f \in DOMAIN defs /\ defs'[f] = defs[f]
  BY <1>2 DEF IInv, Tables, MethodsOwned
<1>10. MethodsRight'
  <2>1. ASSUME NEW c \in DOMAIN defs, IsClass(defs[c]), NEW m \in Range(defs[c].methods)
        PROVE  Inherits(c, m)'
    <3>1. Inherits(c, m)
      BY <2>1 DEF IInv, MethodsRight
    <3>. QED
      BY <1>2, <1>9, <2>1, <3>1 DEF Inherits
  <2>2. ASSUME NEW c \in DOMAIN defs' \ DOMAIN defs, IsClass(defs'[c]), NEW m \in Range(defs'[c].methods)
        PROVE  Inherits(c, m)'
    BY <1>3, <2>2 DEF Inherits, Fresh
  <2>. QED
    BY <1>2, <2>1, <2>2 DEF MethodsRight
<1>11. Pending'
  <2>1. ASSUME NEW c \in DOMAIN defs, IsClass(defs[c]), c > builtin_num, Unsigned(c)',
               NEW m \in Range(defs[c].methods)
        PROVE  m.id \in DOMAIN method_class' /\ method_class'[m.id] = c /\ ~defs'[m.id].sig.known
    <3>1. Unsigned(c)
      BY <1>1, <2>1 DEF Forward
    <3>2. m.id \in DOMAIN method_class /\ method_class[m.id] = c /\ ~defs[m.id].sig.known
      BY <2>1, <3>1 DEF IInv, Pending
    <3>. QED
      BY <1>9, <3>2
  <2>2. ASSUME NEW c \in DOMAIN defs' \ DOMAIN defs, IsClass(defs'[c]), NEW m \in Range(defs'[c].methods)
        PROVE  m.id \in DOMAIN method_class' /\ method_class'[m.id] = c /\ ~defs'[m.id].sig.known
    BY <1>3, <2>2 DEF Fresh
  <2>. QED
    BY <1>2, <2>1, <2>2 DEF Pending
<1>12. Stable
  BY <1>1 DEF Stable
<1>. QED
  BY <1>4, <1>5, <1>6, <1>7, <1>8, <1>10, <1>11, <1>12 DEF IInv, Ancestry

\* An entry of method_class, and one of a scope.
Owned(f) ==
  LET c == method_class[f]
  IN /\ f \in DOMAIN defs /\ IsFunction(defs[f]) /\ HasAst(defs[f])
     /\ c \in DOMAIN defs /\ IsClass(defs[c]) /\ HasAst(defs[c]) /\ c < f
     /\ defs[f].name = make_class_method_name(defs[c].name, defs[f].ast.name)
Found(mod, n) ==
  LET id == scopes[mod][n]
  IN /\ id \in DOMAIN defs
     /\ \/ defs[id].k = "module" /\ defs[id].name = n
        \/ Declared(defs[id]) /\ defs[id].mod = mod /\ defs[id].name = Qualified(mod, n)

\* The tables after definitions are appended, when their new entries are right.
LEMMA TablesGrow ==
  ASSUME Tables, DOMAIN defs \subseteq DOMAIN defs', \A i \in DOMAIN defs : defs'[i] = defs[i],
         defined_names \subseteq defined_names',
         \A i \in DOMAIN defs' \ DOMAIN defs :
           Declared(defs'[i]) => defs'[i].name \in defined_names' \ defined_names,
         \A i, j \in DOMAIN defs' \ DOMAIN defs :
           Declared(defs'[i]) /\ Declared(defs'[j]) /\ defs'[i].name = defs'[j].name => i = j,
         \A f \in DOMAIN method_class' :
           (f \in DOMAIN method_class /\ method_class'[f] = method_class[f]) \/ Owned(f)',
         \A mod \in DOMAIN scopes' : \A n \in DOMAIN scopes'[mod] :
           \/ mod \in DOMAIN scopes /\ n \in DOMAIN scopes[mod] /\ scopes'[mod][n] = scopes[mod][n]
           \/ Found(mod, n)'
  PROVE  Tables'
<1>1. NamesTaken'
  BY DEF Tables, NamesTaken
<1>2. NamesUnique'
  <2>1. SUFFICES ASSUME NEW i \in DOMAIN defs', NEW j \in DOMAIN defs',
                        Declared(defs'[i]), Declared(defs'[j]), defs'[i].name = defs'[j].name
                 PROVE  i = j
    BY DEF NamesUnique
  <2>2. \A k \in DOMAIN defs : Declared(defs'[k]) => defs'[k].name \in defined_names
    BY DEF Tables, NamesTaken
  <2>3. CASE i \in DOMAIN defs /\ j \in DOMAIN defs
    BY <2>1, <2>3 DEF Tables, NamesUnique
  <2>4. CASE i \notin DOMAIN defs /\ j \notin DOMAIN defs
    BY <2>1, <2>4
  <2>. QED
    BY <2>1, <2>2, <2>3, <2>4
<1>3. MethodsOwned'
  <2>1. ASSUME NEW f \in DOMAIN method_class' PROVE Owned(f)'
    <3>1. CASE f \in DOMAIN method_class /\ method_class'[f] = method_class[f]
      <4>1. Owned(f)
        BY <3>1 DEF Tables, MethodsOwned, Owned
      <4>. QED
        BY <3>1, <4>1 DEF Owned
    <3>. QED
      BY <3>1
  <2>. QED
    BY <2>1 DEF MethodsOwned, Owned
<1>4. ScopesRight'
  <2>1. ASSUME NEW mod \in DOMAIN scopes', NEW n \in DOMAIN scopes'[mod] PROVE Found(mod, n)'
    <3>1. CASE mod \in DOMAIN scopes /\ n \in DOMAIN scopes[mod] /\ scopes'[mod][n] = scopes[mod][n]
      <4>1. Found(mod, n)
        BY <3>1 DEF Tables, ScopesRight, Found
      <4>. QED
        BY <3>1, <4>1 DEF Found
    <3>. QED
      BY <3>1
  <2>. QED
    BY <2>1 DEF ScopesRight, Found
<1>. QED
  BY <1>1, <1>2, <1>3, <1>4 DEF Tables

\* The next item.
LEMMA NextItem ==
  ASSUME IInv, pc = "register", at <= Len(prog.items)
  PROVE  LET item == prog.items[at]
         IN /\ item \in Range(prog.items) /\ item.mod \in DOMAIN scopes
            /\ item.k = "class" => ClassSyntax(item)
<1>1. /\ IsList(prog.items) /\ prog \in Programs
      /\ \A i \in Range(prog.items) : i.k = "class" => ClassSyntax(i)
  BY ProgramsAssumption DEF IInv, Typed, IsList, ClassSyntax
<1>2. at \in DOMAIN prog.items
  BY <1>1, ListFacts DEF IInv, Typed
<1>3. prog.items[at] \in Range(prog.items)
  BY <1>2 DEF Range
<1>4. DOMAIN scopes = {i.mod : i \in Range(prog.items)}
  BY DEF IInv, Typed
<1>. QED
  BY <1>1, <1>3, <1>4

\* What is put in a scope.
WithEntry(s, t, mod, name, id) ==
  /\ DOMAIN t = DOMAIN s
  /\ \A m \in DOMAIN s : \A n \in DOMAIN t[m] :
       \/ n \in DOMAIN s[m] /\ t[m][n] = s[m][n]
       \/ m = mod /\ n = name /\ t[m][n] = id

\* A scope after something is put in it.
LEMMA PutInScope ==
  ASSUME NEW s, NEW mod \in DOMAIN s, NEW name, NEW id
  PROVE  WithEntry(s, [s EXCEPT ![mod] = Put(@, name, id)], mod, name, id)
<1>. DEFINE t == [s EXCEPT ![mod] = Put(@, name, id)]
<1>1. /\ DOMAIN t = DOMAIN s /\ t[mod] = Put(s[mod], name, id)
      /\ \A m \in DOMAIN s : m # mod => t[m] = s[m]
  OBVIOUS
<1>2. \A n \in DOMAIN Put(s[mod], name, id) :
        \/ n \in DOMAIN s[mod] /\ Put(s[mod], name, id)[n] = s[mod][n]
        \/ n = name /\ Put(s[mod], name, id)[n] = id
  BY DEF Put
<1>. HIDE DEF t
<1>3. WithEntry(s, t, mod, name, id)
  BY <1>1, <1>2 DEF WithEntry
<1>. QED
  BY <1>3 DEF t

\* A function is one more definition.
LEMMA RegisterFunction ==
  ASSUME IInv, pc = "register", UNCHANGED <<prog, extension>>,
         NEW item \in Range(prog.items), item.mod \in DOMAIN scopes, item.k = "def",
         register_function(item)
  PROVE  IInv' /\ Stable
<1>. DEFINE name == Qualified(item.mod, item.name)
            f == make_top_level_function_def(name, item.mod, FALSE, item)
<1>1. defined_names' = defined_names \cup {name} /\ UNCHANGED method_class
  BY DEF register_function
<1>2. CASE name \in defined_names
  <2>1. at' = 0 /\ pc' = "failed" /\ UNCHANGED <<defs, scopes>>
    BY <1>2 DEF register_function, Stop
  <2>. QED
    BY <1>1, <2>1, Progress, FrameStep
<1>3. CASE name \notin defined_names
  <2>1. /\ defs' = Append(defs, f)
        /\ scopes' = [scopes EXCEPT ![item.mod] = Put(@, item.name, Len(defs) + 1)]
        /\ at' = at + 1 /\ pc' = pc
    BY <1>3, Zenon DEF register_function
  <2>2. NewFunction(f, name, item.mod, item)
    BY NewFunctionFields
  <2>. HIDE DEF name, f
  <2>3. IsList(defs) /\ DOMAIN defs = 1..Len(defs) /\ Len(defs) \in Nat
    BY ListFacts DEF IInv, Typed
  <2>4. /\ IsList(defs') /\ Len(defs') = Len(defs) + 1 /\ DOMAIN defs' = 1..(Len(defs) + 1)
        /\ \A i \in 1..Len(defs) : defs'[i] = defs[i]
        /\ defs'[Len(defs) + 1] = f
    BY <2>1, <2>3, AppendList
  <2>5. /\ DOMAIN defs \subseteq DOMAIN defs' /\ \A i \in DOMAIN defs : defs'[i] = defs[i]
        /\ DOMAIN defs' \ DOMAIN defs = {Len(defs) + 1} /\ Len(defs) <= Len(defs')
    BY <2>3, <2>4
  <2>6. /\ Definition(f) /\ ~IsClass(f) /\ Declared(f) /\ f.name = name /\ f.mod = item.mod
        /\ f.name \in defined_names' \ defined_names
    BY <1>1, <1>3, <2>2 DEF NewFunction, Definition, IsClass, Declared, HasAst
  <2>7. /\ DOMAIN scopes' = DOMAIN scopes
        /\ \A m \in DOMAIN scopes : \A n \in DOMAIN scopes'[m] :
              \/ n \in DOMAIN scopes[m] /\ scopes'[m][n] = scopes[m][n]
              \/ m = item.mod /\ n = item.name /\ scopes'[m][n] = Len(defs) + 1
    <3>1. WithEntry(scopes, scopes', item.mod, item.name, Len(defs) + 1)
      BY <2>1, PutInScope
    <3>. QED
      BY <3>1 DEF WithEntry
  <2>8. ASSUME NEW m \in DOMAIN scopes', NEW n \in DOMAIN scopes'[m]
        PROVE  \/ m \in DOMAIN scopes /\ n \in DOMAIN scopes[m] /\ scopes'[m][n] = scopes[m][n]
               \/ Found(m, n)'
    <3>1. CASE m = item.mod /\ n = item.name /\ scopes'[m][n] = Len(defs) + 1
      BY <2>3, <2>4, <2>6, <3>1 DEF Found, name
    <3>. QED
      BY <2>7, <3>1
  <2>9. Tables'
    <3>1. Tables
      BY DEF IInv
    <3>2. \A i \in DOMAIN defs' \ DOMAIN defs :
            Declared(defs'[i]) => defs'[i].name \in defined_names' \ defined_names
      BY <2>4, <2>5, <2>6
    <3>3. \A i, j \in DOMAIN defs' \ DOMAIN defs : i = j
      BY <2>5
    <3>. QED
      BY <1>1, <2>5, <2>8, <3>1, <3>2, <3>3, TablesGrow
  <2>10. \A i \in DOMAIN defs' \ DOMAIN defs : Fresh(defs', method_class', i)
    BY <2>4, <2>5, <2>6 DEF Fresh
  <2>11. Forward
    BY <2>1, Progress
  <2>. QED
    BY <1>1, <2>4, <2>5, <2>7, <2>9, <2>10, <2>11, GrowStep
<1>. QED
  BY <1>2, <1>3

\* A module is one more definition, which those that import it find.
LEMMA RegisterModule ==
  ASSUME IInv, register_top_level_module
  PROVE  IInv' /\ Stable
<1>1. /\ pc = "register" /\ UNCHANGED <<prog, pc, at, defined_names, method_class, extension>>
      /\ \E m, module, importers :
           /\ m \in DOMAIN scopes
           /\ module.k = "module" /\ module.name = m /\ module.ast = Absent
           /\ defs' = Append(defs, module)
           /\ scopes' = [n \in DOMAIN scopes |-> IF n \in importers THEN Put(scopes[n], m, Len(defs) + 1)
                                                 ELSE scopes[n]]
  <2>1. PICK m \in DOMAIN scopes :
       LET named == {n \in DOMAIN scopes[m] : Qualified(m, n) \in defined_names}
           module == [k |-> "module", name |-> m, scope |-> scopes[m], ast |-> Absent,
                      classes |-> {scopes[m][n] : n \in {n \in named : IsClass(defs[scopes[m][n]])}},
                      functions |-> {scopes[m][n] : n \in {n \in named : IsFunction(defs[scopes[m][n]])}}]
           importers == {i.mod : i \in {i \in Range(prog.items) : i.k = "import" /\ i.name = m}}
       IN /\ \A d \in Range(defs) : d.k = "module" => d.name # m
          /\ defs' = Append(defs, module)
          /\ scopes' = [n \in DOMAIN scopes |-> IF n \in importers THEN Put(scopes[n], m, Len(defs) + 1) ELSE scopes[n]]
    BY DEF register_top_level_module
  <2>. DEFINE named == {n \in DOMAIN scopes[m] : Qualified(m, n) \in defined_names}
              module == [k |-> "module", name |-> m, scope |-> scopes[m], ast |-> Absent,
                      classes |-> {scopes[m][n] : n \in {n \in named : IsClass(defs[scopes[m][n]])}},
                      functions |-> {scopes[m][n] : n \in {n \in named : IsFunction(defs[scopes[m][n]])}}]
              importers == {i.mod : i \in {i \in Range(prog.items) : i.k = "import" /\ i.name = m}}
  <2>2. /\ defs' = Append(defs, module)
        /\ scopes' = [n \in DOMAIN scopes |-> IF n \in importers THEN Put(scopes[n], m, Len(defs) + 1)
                                              ELSE scopes[n]]
    BY <2>1
  <2>3. module.k = "module" /\ module.name = m /\ module.ast = Absent
    OBVIOUS
  <2>. HIDE DEF module, importers
  <2>4. pc = "register" /\ UNCHANGED <<prog, pc, at, defined_names, method_class, extension>>
    BY DEF register_top_level_module
  <2>. QED
    BY <2>2, <2>3, <2>4, Zenon
<1>2. PICK m, module, importers :
        /\ m \in DOMAIN scopes
        /\ module.k = "module" /\ module.name = m /\ module.ast = Absent
        /\ defs' = Append(defs, module)
        /\ scopes' = [n \in DOMAIN scopes |-> IF n \in importers THEN Put(scopes[n], m, Len(defs) + 1)
                                              ELSE scopes[n]]
  BY <1>1
<1>3. IsList(defs) /\ DOMAIN defs = 1..Len(defs) /\ Len(defs) \in Nat
  BY ListFacts DEF IInv, Typed
<1>4. /\ IsList(defs') /\ Len(defs') = Len(defs) + 1 /\ DOMAIN defs' = 1..(Len(defs) + 1)
      /\ \A i \in 1..Len(defs) : defs'[i] = defs[i]
      /\ defs'[Len(defs) + 1] = module
  BY <1>2, <1>3, AppendList
<1>5. /\ DOMAIN defs \subseteq DOMAIN defs' /\ \A i \in DOMAIN defs : defs'[i] = defs[i]
      /\ DOMAIN defs' \ DOMAIN defs = {Len(defs) + 1} /\ Len(defs) <= Len(defs')
  BY <1>3, <1>4
<1>6. Definition(module) /\ ~IsClass(module) /\ ~Declared(module)
  BY <1>2 DEF Definition, IsClass, Declared, HasAst, Absent
<1>7. DOMAIN scopes' = DOMAIN scopes
  BY <1>2
<1>8. ASSUME NEW n \in DOMAIN scopes', NEW x \in DOMAIN scopes'[n]
      PROVE  \/ n \in DOMAIN scopes /\ x \in DOMAIN scopes[n] /\ scopes'[n][x] = scopes[n][x]
             \/ Found(n, x)'
  <2>1. CASE n \in importers
    <3>1. scopes'[n] = Put(scopes[n], m, Len(defs) + 1)
      BY <1>2, <1>7, <2>1
    <3>2. \/ x \in DOMAIN scopes[n] /\ scopes'[n][x] = scopes[n][x]
          \/ x = m /\ scopes'[n][x] = Len(defs) + 1
      BY <3>1 DEF Put
    <3>3. CASE x = m /\ scopes'[n][x] = Len(defs) + 1
      BY <1>2, <1>3, <1>4, <3>3 DEF Found
    <3>. QED
      BY <1>7, <3>2, <3>3
  <2>2. CASE n \notin importers
    BY <1>2, <1>7, <2>2
  <2>. QED
    BY <2>1, <2>2
<1>9. Tables'
  <2>1. Tables
    BY DEF IInv
  <2>2. \A i \in DOMAIN defs' \ DOMAIN defs : ~Declared(defs'[i])
    BY <1>4, <1>5, <1>6
  <2>. QED
    BY <1>1, <1>5, <1>8, <2>1, <2>2, TablesGrow
<1>10. \A i \in DOMAIN defs' \ DOMAIN defs : Fresh(defs', method_class', i)
  BY <1>4, <1>5, <1>6 DEF Fresh
<1>11. Forward
  BY <1>1, Progress
<1>. QED
  BY <1>1, <1>4, <1>5, <1>7, <1>9, <1>10, <1>11, GrowStep

\* The name of a method is not that of its class.
LEMMA MethodNames ==
  ASSUME NEW mod, NEW n, NEW m
  PROVE  make_class_method_name(Qualified(mod, n), m) # Qualified(mod, n)
<1>. DEFINE name == Qualified(mod, n)
<1>1. IsList(name)
  BY SingleList, PairList DEF Qualified
<1>. HIDE DEF name
<1>2. Len(Append(name, m)) = Len(name) + 1 /\ Len(name) \in Nat
  BY <1>1, AppendList, ListFacts
<1>3. Append(name, m) # name
  BY <1>2
<1>. QED
  BY <1>3 DEF name, make_class_method_name

\* The methods in the body of a class.
LEMMA MethodsInBody ==
  ASSUME NEW ast, IsList(ast.body)
  PROVE  /\ IsList(MethodsIn(ast))
         /\ \A i \in DOMAIN MethodsIn(ast) : MethodsIn(ast)[i].k = "def"
<1>. DEFINE ms == MethodsIn(ast)
            T == {m \in Range(ast.body) : m.k = "def"}
<1>1. IsList(ms) /\ Range(ms) \subseteq T
  BY SelectedList DEF MethodsIn
<1>. HIDE DEF ms
<1>2. \A i \in DOMAIN ms : ms[i] \in Range(ms)
  BY DEF Range
<1>3. \A i \in DOMAIN ms : ms[i].k = "def"
  BY <1>1, <1>2
<1>. QED
  BY <1>1, <1>3 DEF ms

\* What registering a class adds: the class, then its methods.
ClassAdded(item, ms, class) ==
  LET name == Qualified(item.mod, item.name)
      id == Len(defs) + 1
  IN /\ \A i \in DOMAIN ms : make_class_method_name(name, ms[i].name) \notin defined_names
     /\ \A i, j \in DOMAIN ms : ms[i].name = ms[j].name => i = j
     /\ name \notin defined_names
     /\ defined_names' = defined_names \cup {name} \cup {make_class_method_name(name, ms[i].name) : i \in DOMAIN ms}
     /\ DOMAIN class = ClassFields
     /\ class.k = "class" /\ class.name = name /\ class.mod = item.mod /\ class.ast = item
     /\ class.ancestors = <<>> /\ class.fields = <<>> /\ class.attributes = <<>> /\ IsList(class.methods)
     /\ \A m \in Range(class.methods) : \E i \in DOMAIN ms : m = Method(ms[i].name, id + i)
     /\ IsList(defs') /\ Len(defs') = id + Len(ms) /\ DOMAIN defs' = 1..(id + Len(ms))
     /\ \A i \in DOMAIN defs : defs'[i] = defs[i]
     /\ defs'[id] = class
     /\ \A i \in DOMAIN ms : NewFunction(defs'[id + i], make_class_method_name(name, ms[i].name), item.mod, ms[i])
     /\ DOMAIN method_class' = DOMAIN method_class \cup {id + i : i \in DOMAIN ms}
     /\ \A f \in DOMAIN method_class' : method_class'[f] = IF f > id THEN id ELSE method_class[f]
     /\ WithEntry(scopes, scopes', item.mod, item.name, id)

\* A step that adds a class keeps the invariant.
LEMMA AddClass ==
  ASSUME IInv, Forward, pc = "register", UNCHANGED <<prog, extension>>,
         NEW item \in Range(prog.items), item.k = "class", ClassSyntax(item),
         NEW ms, IsList(ms), \A i \in DOMAIN ms : ms[i].k = "def",
         NEW class, ClassAdded(item, ms, class)
  PROVE  IInv' /\ Stable
<1>. DEFINE name == Qualified(item.mod, item.name)
<1>1. /\ IsList(defs) /\ DOMAIN defs = 1..Len(defs) /\ Len(defs) \in Nat
      /\ Len(ms) \in Nat /\ DOMAIN ms = 1..Len(ms)
  <2>1. IsList(defs)
    BY DEF IInv, Typed
  <2>. QED
    BY <2>1, ListFacts
<1>0. PICK id \in Nat : id = Len(defs) + 1 /\ id > Len(defs)
  BY <1>1
<1>2. /\ IsList(defs') /\ Len(defs') = id + Len(ms) /\ DOMAIN defs' = 1..(id + Len(ms))
      /\ \A i \in DOMAIN defs : defs'[i] = defs[i]
      /\ defs'[id] = class
      /\ \A i \in DOMAIN ms : NewFunction(defs'[id + i], make_class_method_name(name, ms[i].name), item.mod, ms[i])
  BY <1>0 DEF ClassAdded
<1>3. /\ DOMAIN defs \subseteq DOMAIN defs' /\ Len(defs) <= Len(defs')
      /\ \A i \in DOMAIN defs' \ DOMAIN defs : i = id \/ \E j \in DOMAIN ms : i = id + j
  <2>1. DOMAIN defs \subseteq DOMAIN defs' /\ Len(defs) <= Len(defs')
    BY <1>1, <1>0, <1>2
  <2>2. ASSUME NEW i \in DOMAIN defs' \ DOMAIN defs, i # id PROVE i - id \in DOMAIN ms /\ i = id + (i - id)
    BY <1>1, <1>0, <1>2, <2>2
  <2>. QED
    BY <2>1, <2>2
<1>4. /\ DOMAIN class = ClassFields
      /\ class.k = "class" /\ class.name = name /\ class.mod = item.mod /\ class.ast = item
      /\ class.ancestors = <<>> /\ class.fields = <<>> /\ class.attributes = <<>> /\ IsList(class.methods)
      /\ \A m \in Range(class.methods) : \E i \in DOMAIN ms : m = Method(ms[i].name, id + i)
  BY <1>0 DEF ClassAdded
<1>5. /\ Definition(class) /\ IsClass(class) /\ HasAst(class) /\ Declared(class)
  BY <1>4, EmptyList DEF Definition, IsClass, HasAst, Declared
<1>6. ASSUME NEW i \in DOMAIN ms
      PROVE  LET f == defs'[id + i]
             IN /\ Definition(f) /\ IsFunction(f) /\ ~IsClass(f) /\ HasAst(f) /\ Declared(f)
                /\ f.ast = ms[i] /\ ~f.sig.known
                /\ f.name = make_class_method_name(name, ms[i].name)
  BY <1>2 DEF NewFunction, Definition, IsFunction, IsClass, HasAst, Declared
<1>7. /\ DOMAIN method_class' = DOMAIN method_class \cup {id + i : i \in DOMAIN ms}
      /\ \A f \in DOMAIN method_class' : method_class'[f] = IF f > id THEN id ELSE method_class[f]
  BY <1>0 DEF ClassAdded
<1>8. \A f \in DOMAIN method_class : f \in DOMAIN method_class' /\ method_class'[f] = method_class[f]
  <2>1. \A f \in DOMAIN method_class : f \in DOMAIN defs
    BY DEF IInv, Tables, MethodsOwned
  <2>2. \A f \in DOMAIN method_class : ~(f > id)
    BY <1>1, <1>0, <2>1
  <2>. QED
    BY <1>7, <2>2
<1>9. \A i \in DOMAIN ms : id + i > id /\ id + i \in DOMAIN defs' /\ id \in DOMAIN defs'
                           /\ id + i \in DOMAIN method_class' /\ method_class'[id + i] = id
  <2>1. id \in DOMAIN defs'
    BY <1>0, <1>1, <1>2
  <2>2. ASSUME NEW i \in DOMAIN ms
        PROVE  /\ id + i > id /\ id + i \in DOMAIN defs' /\ id + i \in DOMAIN method_class'
               /\ method_class'[id + i] = id
    <3>1. id + i > id /\ id + i \in DOMAIN defs'
      BY <1>1, <1>2
    <3>2. id + i \in DOMAIN method_class'
      BY <1>7
    <3>. QED
      BY <1>7, <3>1, <3>2
  <2>. QED
    BY <2>1, <2>2
<1>10. ASSUME NEW i \in DOMAIN ms PROVE Owned(id + i)'
  <2>1. /\ id + i \in DOMAIN defs' /\ id \in DOMAIN defs' /\ id < id + i
        /\ method_class'[id + i] = id
    BY <1>1, <1>0, <1>9
  <2>2. /\ IsFunction(defs'[id + i]) /\ HasAst(defs'[id + i])
        /\ defs'[id + i].name = make_class_method_name(name, defs'[id + i].ast.name)
    BY <1>6
  <2>3. IsClass(defs'[id]) /\ HasAst(defs'[id]) /\ defs'[id].name = name
    BY <1>2, <1>4, <1>5
  <2>. HIDE DEF name
  <2>. QED
    BY <2>1, <2>2, <2>3 DEF Owned
<1>11. \A f \in DOMAIN method_class' :
         (f \in DOMAIN method_class /\ method_class'[f] = method_class[f]) \/ Owned(f)'
  <2>1. ASSUME NEW f \in DOMAIN method_class', f \notin DOMAIN method_class PROVE Owned(f)'
    <3>1. PICK i \in DOMAIN ms : f = id + i
      BY <1>7, <2>1
    <3>. QED
      BY <1>10, <3>1
  <2>. QED
    BY <1>8, <2>1
<1>12. \A i \in DOMAIN defs' \ DOMAIN defs :
         Declared(defs'[i]) => defs'[i].name \in defined_names' \ defined_names
  <2>1. name \in defined_names' \ defined_names
    BY DEF ClassAdded
  <2>2. \A j \in DOMAIN ms : make_class_method_name(name, ms[j].name) \in defined_names' \ defined_names
    BY DEF ClassAdded
  <2>. HIDE DEF name
  <2>. QED
    BY <1>2, <1>3, <1>4, <1>6, <2>1, <2>2
<1>13. ASSUME NEW i \in DOMAIN defs' \ DOMAIN defs, NEW j \in DOMAIN defs' \ DOMAIN defs,
              defs'[i].name = defs'[j].name
       PROVE  i = j
  <2>1. ASSUME NEW k \in DOMAIN ms PROVE make_class_method_name(name, ms[k].name) # name
    BY MethodNames
  <2>2. ASSUME NEW k \in DOMAIN ms, NEW l \in DOMAIN ms,
               make_class_method_name(name, ms[k].name) = make_class_method_name(name, ms[l].name)
        PROVE  k = l
    <3>1. IsList(name)
      BY SingleList, PairList DEF Qualified
    <3>. HIDE DEF name
    <3>2. \A x : Append(name, x)[Len(name) + 1] = x
      BY <3>1, AppendList
    <3>3. Append(name, ms[k].name) = Append(name, ms[l].name)
      BY <2>2 DEF make_class_method_name
    <3>4. ms[k].name = ms[l].name
      BY <3>2, <3>3
    <3>. QED
      BY <3>4 DEF ClassAdded
  <2>. HIDE DEF name
  <2>3. CASE i = id
    BY <1>2, <1>3, <1>4, <1>6, <1>13, <2>1, <2>3
  <2>4. CASE j = id
    BY <1>2, <1>3, <1>4, <1>6, <1>13, <2>1, <2>4
  <2>5. CASE i # id /\ j # id
    <3>1. PICK k \in DOMAIN ms : i = id + k
      BY <1>3, <2>5
    <3>2. PICK l \in DOMAIN ms : j = id + l
      BY <1>3, <2>5
    <3>3. k = l
      BY <1>6, <1>13, <2>2, <3>1, <3>2
    <3>. QED
      BY <3>1, <3>2, <3>3
  <2>. QED
    BY <2>3, <2>4, <2>5
<1>14. /\ DOMAIN scopes' = DOMAIN scopes
       /\ \A m \in DOMAIN scopes' : \A n \in DOMAIN scopes'[m] :
            \/ m \in DOMAIN scopes /\ n \in DOMAIN scopes[m] /\ scopes'[m][n] = scopes[m][n]
            \/ Found(m, n)'
  <2>1. /\ DOMAIN scopes' = DOMAIN scopes
        /\ \A m \in DOMAIN scopes : \A n \in DOMAIN scopes'[m] :
             \/ n \in DOMAIN scopes[m] /\ scopes'[m][n] = scopes[m][n]
             \/ m = item.mod /\ n = item.name /\ scopes'[m][n] = id
    BY <1>0 DEF ClassAdded, WithEntry
  <2>2. id \in DOMAIN defs'
    BY <1>1, <1>0, <1>2
  <2>3. ASSUME NEW m \in DOMAIN scopes', NEW n \in DOMAIN scopes'[m],
               m = item.mod /\ n = item.name /\ scopes'[m][n] = id
        PROVE  Found(m, n)'
    BY <1>2, <1>4, <1>5, <2>2, <2>3 DEF Found
  <2>. QED
    BY <2>1, <2>3
<1>15. Tables'
  <2>1. Tables /\ defined_names \subseteq defined_names'
    BY DEF IInv, ClassAdded
  <2>. QED
    BY <1>2, <1>3, <1>11, <1>12, <1>13, <1>14, <2>1, TablesGrow
<1>16. \A i \in DOMAIN defs' \ DOMAIN defs : Fresh(defs', method_class', i)
  <2>1. ASSUME NEW m \in Range(class.methods)
        PROVE  /\ m.id \in DOMAIN method_class' /\ method_class'[m.id] = id
               /\ defs'[m.id].ast.name = m.name /\ ~defs'[m.id].sig.known
    <3>1. PICK i \in DOMAIN ms : m = Method(ms[i].name, id + i)
      BY <1>4
    <3>2. m.name = ms[i].name /\ m.id = id + i
      BY <3>1 DEF Method
    <3>. QED
      BY <1>6, <1>9, <3>2
  <2>2. Fresh(defs', method_class', id)
    BY <1>2, <1>4, <1>5, <2>1 DEF Fresh
  <2>3. \A i \in DOMAIN ms : Fresh(defs', method_class', id + i)
    BY <1>6 DEF Fresh
  <2>. QED
    BY <1>3, <2>2, <2>3
<1>. QED
  BY <1>2, <1>3, <1>8, <1>14, <1>15, <1>16, GrowStep

\* A class is one more definition, and so is each of its methods.
LEMMA RegisterClass ==
  ASSUME IInv, pc = "register", UNCHANGED <<prog, extension>>,
         NEW item \in Range(prog.items), item.mod \in DOMAIN scopes, item.k = "class", ClassSyntax(item),
         register_class(item)
  PROVE  IInv' /\ Stable
<1>. DEFINE name == Qualified(item.mod, item.name)
            id == Len(defs) + 1
            ms == MethodsIn(item)
            names == [i \in DOMAIN ms |-> make_class_method_name(name, ms[i].name)]
            twice == FirstRepeated(names) \cup {i \in DOMAIN names : names[i] \in defined_names}
            methods == [i \in DOMAIN ms |-> Method(ms[i].name, id + i)]
            fresh == make_top_level_class_def(name, item.mod, item)
            class == [fresh EXCEPT !.methods = methods]
            fs == [i \in DOMAIN ms |-> make_top_level_function_def(names[i], item.mod, ms[i].static, ms[i])]
<1>1. CASE name \in defined_names \/ twice # {}
  <2>1. /\ UNCHANGED <<defs, method_class, scopes>> /\ at' = 0 /\ pc' = "failed"
        /\ defined_names \subseteq defined_names'
    BY <1>1 DEF register_class, Stop
  <2>. QED
    BY <2>1, Progress, FrameStep
<1>2. CASE ~(name \in defined_names \/ twice # {})
  <2>1. /\ defined_names' = defined_names \cup {name} \cup Range(names)
        /\ defs' = defs \o <<class>> \o fs
        /\ method_class' = [m \in DOMAIN method_class \cup {id + i : i \in DOMAIN ms} |->
                              IF m > id THEN id ELSE method_class[m]]
        /\ scopes' = [scopes EXCEPT ![item.mod] = Put(@, item.name, id)]
        /\ at' = at + 1 /\ pc' = pc
    BY <1>2, Zenon DEF register_class
  <2>2. /\ IsList(ms) /\ Len(ms) \in Nat /\ DOMAIN ms = 1..Len(ms)
        /\ \A i \in DOMAIN ms : ms[i].k = "def"
    BY MethodsInBody, ListFacts DEF ClassSyntax
  <2>. HIDE DEF ms
  <2>3. /\ \A i \in DOMAIN ms : make_class_method_name(name, ms[i].name) \notin defined_names
        /\ \A i, j \in DOMAIN ms : ms[i].name = ms[j].name => i = j
        /\ name \notin defined_names
        /\ Range(names) = {make_class_method_name(name, ms[i].name) : i \in DOMAIN ms}
    <3>1. twice = {} /\ name \notin defined_names
      BY <1>2
    <3>2. DOMAIN names = DOMAIN ms
      OBVIOUS
    <3>3. \A i \in DOMAIN ms : names[i] = make_class_method_name(name, ms[i].name)
      OBVIOUS
    <3>. HIDE DEF names
    <3>4. \A i \in DOMAIN ms : names[i] \notin defined_names
      BY <3>1, <3>2
    <3>5. FirstRepeated(names) = {}
      BY <3>1
    <3>6. ASSUME NEW i \in DOMAIN ms, NEW j \in DOMAIN ms, i < j PROVE names[i] # names[j]
      <4>1. i \in 1..(j - 1)
        BY <2>2, <3>6
      <4>. QED
        BY <3>2, <3>5, <4>1 DEF FirstRepeated
    <3>7. ASSUME NEW i \in DOMAIN ms, NEW j \in DOMAIN ms, ms[i].name = ms[j].name PROVE i = j
      <4>1. names[i] = names[j]
        BY <3>3, <3>7
      <4>2. i \in Int /\ j \in Int
        BY <2>2
      <4>. QED
        BY <3>6, <4>1, <4>2
    <3>8. Range(names) = {make_class_method_name(name, ms[i].name) : i \in DOMAIN ms}
      BY <3>2, <3>3 DEF Range
    <3>. QED
      BY <3>1, <3>3, <3>4, <3>7, <3>8
  <2>4. /\ IsList(methods) /\ \A m \in Range(methods) : \E i \in DOMAIN ms : m = Method(ms[i].name, id + i)
    <3>1. methods = [i \in 1..Len(ms) |-> methods[i]]
      BY <2>2
    <3>2. \A m \in Range(methods) : \E i \in DOMAIN ms : m = Method(ms[i].name, id + i)
      BY DEF Range
    <3>. HIDE DEF methods
    <3>. QED
      BY <2>2, <3>1, <3>2, ListOfFunction
  <2>5. /\ IsList(fs) /\ Len(fs) = Len(ms)
        /\ \A i \in DOMAIN ms : NewFunction(fs[i], make_class_method_name(name, ms[i].name), item.mod, ms[i])
    <3>1. fs = [i \in 1..Len(ms) |-> fs[i]]
      BY <2>2
    <3>2. ASSUME NEW i \in DOMAIN ms
          PROVE  NewFunction(fs[i], make_class_method_name(name, ms[i].name), item.mod, ms[i])
      <4>1. fs[i] = make_top_level_function_def(make_class_method_name(name, ms[i].name), item.mod,
                                                ms[i].static, ms[i])
        OBVIOUS
      <4>. QED
        BY <4>1, NewFunctionFields
    <3>. HIDE DEF fs
    <3>. QED
      BY <2>2, <3>1, <3>2, ListOfFunction
  <2>6. /\ DOMAIN class = ClassFields
        /\ class.k = "class" /\ class.name = name /\ class.mod = item.mod /\ class.ast = item
        /\ class.ancestors = <<>> /\ class.fields = <<>> /\ class.attributes = <<>> /\ class.methods = methods
    <3>1. NewClass(fresh, name, item.mod, item)
      BY NewClassFields
    <3>. HIDE DEF fresh, methods, name
    <3>. QED
      BY <3>1 DEF NewClass, ClassFields
  <2>. HIDE DEF class, fs, methods, names, name
  <2>7. /\ IsList(defs') /\ Len(defs') = id + Len(ms) /\ DOMAIN defs' = 1..(id + Len(ms))
        /\ \A i \in DOMAIN defs : defs'[i] = defs[i]
        /\ defs'[id] = class
        /\ \A i \in DOMAIN ms : defs'[id + i] = fs[i]
    <3>1. IsList(defs) /\ DOMAIN defs = 1..Len(defs) /\ Len(defs) \in Nat
      BY ListFacts DEF IInv, Typed
    <3>. DEFINE ds == defs \o <<class>>
    <3>2. /\ IsList(ds) /\ Len(ds) = Len(defs) + 1
          /\ \A i \in 1..Len(defs) : ds[i] = defs[i]
          /\ ds[Len(defs) + 1] = class
      <4>1. IsList(<<class>>) /\ Len(<<class>>) = 1 /\ <<class>>[1] = class
        BY SingleList
      <4>2. Joined(ds, defs, <<class>>)
        BY <3>1, <4>1, ConcatList
      <4>. DEFINE one == <<class>>
      <4>3. Joined(ds, defs, one) /\ Len(one) = 1 /\ one[1] = class
        BY <4>1, <4>2
      <4>. HIDE DEF one, ds
      <4>. QED
        BY <3>1, <4>3 DEF Joined
    <3>3. defs' = ds \o fs
      BY <2>1
    <3>. HIDE DEF ds
    <3>4. /\ IsList(defs') /\ Len(defs') = Len(ds) + Len(fs) /\ DOMAIN defs' = 1..(Len(ds) + Len(fs))
          /\ \A i \in 1..Len(ds) : defs'[i] = ds[i]
          /\ \A i \in 1..Len(fs) : defs'[Len(ds) + i] = fs[i]
      <4>1. Joined(defs', ds, fs)
        BY <2>5, <3>2, <3>3, ConcatList
      <4>. QED
        BY <4>1 DEF Joined
    <3>. QED
      BY <2>2, <2>5, <3>1, <3>2, <3>4
  <2>8. WithEntry(scopes, scopes', item.mod, item.name, id)
    BY <2>1, PutInScope
  <2>9. ClassAdded(item, ms, class)
    <3>1. \A i \in DOMAIN ms : NewFunction(defs'[id + i], make_class_method_name(name, ms[i].name), item.mod, ms[i])
      BY <2>5, <2>7
    <3>2. /\ DOMAIN method_class' = DOMAIN method_class \cup {id + i : i \in DOMAIN ms}
          /\ \A f \in DOMAIN method_class' : method_class'[f] = IF f > id THEN id ELSE method_class[f]
      BY <2>1
    <3>. QED
      BY <2>1, <2>3, <2>4, <2>6, <2>7, <2>8, <3>1, <3>2 DEF ClassAdded, name
  <2>10. Forward
    BY <2>1, Progress
  <2>. QED
    BY <2>2, <2>9, <2>10, AddClass
<1>. QED
  BY <1>1, <1>2

\* Every registration keeps the invariant.
LEMMA RegisterSteps ==
  ASSUME IInv, Register \/ register_top_level_module
  PROVE  IInv' /\ Stable
<1>1. CASE Register
  <2>. DEFINE item == prog.items[at]
  <2>1. /\ pc = "register" /\ at <= Len(prog.items) /\ item.k \in {"class", "def"}
        /\ UNCHANGED <<prog, extension>>
    BY <1>1 DEF Register
  <2>2. \/ at' = 0 /\ pc' = "failed" /\ UNCHANGED <<defs, defined_names, method_class, scopes>>
        \/ item.k = "class" /\ register_class(item)
        \/ item.k = "def" /\ register_function(item)
    BY <1>1 DEF Register, Stop
  <2>3. /\ item \in Range(prog.items) /\ item.mod \in DOMAIN scopes
        /\ item.k = "class" => ClassSyntax(item)
    BY <2>1, NextItem
  <2>. HIDE DEF item
  <2>4. CASE at' = 0 /\ pc' = "failed" /\ UNCHANGED <<defs, defined_names, method_class, scopes>>
    BY <2>1, <2>4, Progress, FrameStep
  <2>5. CASE item.k = "class" /\ register_class(item)
    BY <2>1, <2>3, <2>5, RegisterClass
  <2>6. CASE item.k = "def" /\ register_function(item)
    BY <2>1, <2>3, <2>6, RegisterFunction
  <2>. QED
    BY <2>2, <2>4, <2>5, <2>6
<1>. QED
  BY <1>1, RegisterModule


-----------------------------------------------------------------------------
(* The analyses of one definition                                          *)

\* A step that changes one definition, but neither what it is nor its methods and ancestors.
LEMMA OneStep ==
  ASSUME IInv, Forward, UNCHANGED <<prog, scopes, method_class, defined_names>>,
         at \in DOMAIN defs, NEW e, defs' = [defs EXCEPT ![at] = e],
         Kept(defs[at], e), Definition(e), SameHeld(defs[at], e),
         IsFunction(defs[at]) /\ defs[at].sig.known => e.sig = defs[at].sig,
         ExtensionRight'
  PROVE  IInv' /\ Stable
<1>1. DOMAIN defs' = DOMAIN defs /\ defs'[at] = e /\ \A i \in DOMAIN defs : i # at => defs'[i] = defs[i]
  OBVIOUS
<1>2. IsList(defs) /\ \A i \in DOMAIN defs : Definition(defs[i])
  BY DEF IInv, Typed
<1>3. IsList(defs')
  <2>1. Len(defs) \in Nat /\ DOMAIN defs = 1..Len(defs)
    BY <1>2, ListFacts
  <2>2. defs' = [i \in 1..Len(defs) |-> defs'[i]]
    BY <1>1, <2>1
  <2>. QED
    BY <2>1, <2>2, ListOfFunction
<1>4. \A i \in DOMAIN defs : Kept(defs[i], defs'[i]) /\ Definition(defs'[i]) /\ SameHeld(defs[i], defs'[i])
  BY <1>1, <1>2 DEF Kept, SameHeld
<1>5. Grown(defs, defs')
  BY <1>1, <1>4 DEF Grown
<1>6. IInv'
  BY <1>1, <1>3, <1>4, <1>5, KeptStep
<1>7. Stable
  BY <1>1 DEF Stable, Kept
<1>. QED
  BY <1>6, <1>7

\* The extension while no definition changes what it is.
LEMMA ExtensionKept ==
  ASSUME ExtensionRight, extension' = extension, Grown(defs, defs')
  PROVE  ExtensionRight'
<1>. SUFFICES ASSUME NEW e \in DOMAIN extension
              PROVE  LET c == extension[e].class
                         f == extension[e].def
                     IN /\ c \in DOMAIN defs' /\ IsClass(defs'[c])
                        /\ Definition(f) /\ IsFunction(f) /\ ~HasAst(f)
                        /\ f.name = make_class_method_name(defs'[c].name, "__init__")
  BY DEF ExtensionRight
<1>. QED
  BY DEF ExtensionRight, Grown, Kept, IsClass

\* What the analysis of a function writes.
LEMMA FunctionWrites ==
  ASSUME analyze_top_level_function
  PROVE  \/ (at' = at + 1 /\ pc' = pc) /\ UNCHANGED defs
         \/ (at' = 0 /\ pc' = "panic") /\ UNCHANGED defs
         \/ /\ IsFunction(defs[at]) /\ ~defs[at].sig.known
            /\ at' = at + 1 /\ pc' = pc
            /\ \E x, y : defs' = [defs EXCEPT ![at].sig = x, ![at].var_id = y]
<1>1. CASE ~IsFunction(defs[at]) \/ ~HasAst(defs[at]) \/ defs[at].sig.known
  BY <1>1 DEF analyze_top_level_function
<1>2. CASE ~(~IsFunction(defs[at]) \/ ~HasAst(defs[at]) \/ defs[at].sig.known)
  <2>. DEFINE r == analyze_function(Env(defs, defs[at].mod, {at}), defs[at].ast)
  <2>1. WriteSignature(r)
    BY <1>2 DEF analyze_top_level_function
  <2>. HIDE DEF r
  <2>. QED
    BY <1>2, <2>1 DEF WriteSignature, Stop
<1>. QED
  BY <1>1, <1>2

\* The signature of a function is written where there is none.
LEMMA FunctionStep ==
  ASSUME IInv, analyze_top_level_function
  PROVE  IInv' /\ Stable
<1>1. /\ pc = "functions" /\ at <= Len(defs)
      /\ UNCHANGED <<prog, defined_names, method_class, scopes, extension>>
  BY DEF analyze_top_level_function
<1>2. /\ at \in DOMAIN defs
  <2>1. IsList(defs) /\ at \in Nat /\ at > 0
    BY <1>1, PrimFacts DEF IInv, Typed
  <2>. QED
    BY <1>1, <2>1, ListFacts
<1>3. \/ (at' = at + 1 /\ pc' = pc) /\ UNCHANGED defs
      \/ (at' = 0 /\ pc' = "panic") /\ UNCHANGED defs
      \/ /\ IsFunction(defs[at]) /\ ~defs[at].sig.known
         /\ at' = at + 1 /\ pc' = pc
         /\ \E x, y : defs' = [defs EXCEPT ![at].sig = x, ![at].var_id = y]
  BY FunctionWrites
<1>4. CASE UNCHANGED defs /\ ((at' = at + 1 /\ pc' = pc) \/ (at' = 0 /\ pc' = "panic"))
  BY <1>1, <1>4, Progress, FrameStep
<1>5. CASE /\ IsFunction(defs[at]) /\ ~defs[at].sig.known
           /\ at' = at + 1 /\ pc' = pc
           /\ \E x, y : defs' = [defs EXCEPT ![at].sig = x, ![at].var_id = y]
  <2>1. PICK x, y : defs' = [defs EXCEPT ![at].sig = x, ![at].var_id = y]
    BY <1>5
  <2>. DEFINE e == [defs[at] EXCEPT !.sig = x, !.var_id = y]
  <2>2. defs' = [defs EXCEPT ![at] = e]
    BY <1>2, <2>1
  <2>3. DOMAIN defs[at] = FunctionFields
    BY <1>2, <1>5 DEF IInv, Typed, Definition, IsFunction
  <2>4. DOMAIN e = FunctionFields /\ Kept(defs[at], e) /\ e.k = "function"
    BY <1>5, <2>3 DEF FunctionFields, Kept, IsFunction
  <2>. HIDE DEF e
  <2>5. Definition(e)
    BY <2>4 DEF Definition
  <2>6. SameHeld(defs[at], e)
    BY <1>1, <1>5 DEF SameHeld, IsFunction
  <2>7. Grown(defs, defs')
    BY <1>2, <2>2, <2>4 DEF Grown, Kept
  <2>8. ExtensionRight'
    BY <1>1, <2>7, ExtensionKept DEF IInv
  <2>9. Forward
    BY <1>5, Progress
  <2>. QED
    BY <1>1, <1>2, <1>5, <2>2, <2>4, <2>5, <2>6, <2>8, <2>9, OneStep
<1>. QED
  BY <1>3, <1>4, <1>5

\* What an instance writes.
LEMMA InstanceWrites ==
  ASSUME analyze_function_instance
  PROVE  \/ UNCHANGED defs
         \/ IsFunction(defs[at]) /\ \E x : defs' = [defs EXCEPT ![at].symbol = x]
         \/ IsFunction(defs[at]) /\ \E x : defs' = [defs EXCEPT ![at].instances = x]
<1>. DEFINE f == defs[at]
            env == Env(defs, f.mod, {})
            own == IF at \in DOMAIN method_class THEN Range(defs[method_class[at]].type_vars) ELSE {}
            ok == /\ f.ast.infers
                  /\ \A v \in f.ast.virtuals : VirtualCheck(env, v)
                  /\ f.sig.ret # Prim("none") => f.ast.returns
            comb == type_var_subst_comb(f.sig.vars \cup own)
<1>1. CASE ~IsFunction(defs[at]) \/ ~HasAst(defs[at])
  BY <1>1 DEF analyze_function_instance
<1>2. CASE ~(~IsFunction(defs[at]) \/ ~HasAst(defs[at]))
  <2>1. (CASE f.ast.extern -> defs' = [defs EXCEPT ![at].symbol = f.ast.name] /\ UNCHANGED errors
           [] ~f.ast.extern /\ ok ->
                defs' = [defs EXCEPT ![at].instances = comb] /\ UNCHANGED errors
           [] ~f.ast.extern /\ ~ok -> errors' = errors \cup {"instance"} /\ UNCHANGED defs)
    BY <1>2, Zenon DEF analyze_function_instance
  <2>. HIDE DEF ok, comb
  <2>. QED
    BY <1>2, <2>1
<1>. QED
  BY <1>1, <1>2

\* An instance, or the symbol of an external function.
LEMMA InstanceStep ==
  ASSUME IInv, analyze_function_instance
  PROVE  IInv' /\ Stable
<1>1. /\ pc = "instances" /\ at <= Len(defs) /\ at' = at + 1
      /\ UNCHANGED <<prog, pc, defined_names, method_class, scopes, extension>>
  BY DEF analyze_function_instance
<1>2. /\ at \in DOMAIN defs
  <2>1. IsList(defs) /\ at \in Nat /\ at > 0
    BY <1>1, PrimFacts DEF IInv, Typed
  <2>. QED
    BY <1>1, <2>1, ListFacts
<1>3. Forward
  BY <1>1, Progress
<1>4. \/ UNCHANGED defs
      \/ IsFunction(defs[at]) /\ \E x : defs' = [defs EXCEPT ![at].symbol = x]
      \/ IsFunction(defs[at]) /\ \E x : defs' = [defs EXCEPT ![at].instances = x]
  BY InstanceWrites
<1>5. CASE UNCHANGED defs
  BY <1>1, <1>3, <1>5, FrameStep
<1>6. ASSUME IsFunction(defs[at]), NEW x,
             \/ defs' = [defs EXCEPT ![at].symbol = x]
             \/ defs' = [defs EXCEPT ![at].instances = x]
      PROVE  IInv' /\ Stable
  <2>1. DOMAIN defs[at] = FunctionFields /\ defs[at].k = "function"
    BY <1>2, <1>6 DEF IInv, Typed, Definition, IsFunction
  <2>2. PICK e : /\ defs' = [defs EXCEPT ![at] = e]
                 /\ \/ e = [defs[at] EXCEPT !.symbol = x]
                    \/ e = [defs[at] EXCEPT !.instances = x]
    BY <1>6, Zenon
  <2>3. DOMAIN e = FunctionFields /\ Kept(defs[at], e) /\ e.sig = defs[at].sig
    BY <2>1, <2>2 DEF FunctionFields, Kept
  <2>4. Definition(e) /\ SameHeld(defs[at], e)
    BY <2>1, <2>3 DEF Definition, SameHeld, Kept
  <2>5. Grown(defs, defs')
    BY <1>2, <2>2, <2>3 DEF Grown, Kept
  <2>6. ExtensionRight'
    BY <1>1, <2>5, ExtensionKept DEF IInv
  <2>. QED
    BY <1>1, <1>2, <1>3, <2>2, <2>3, <2>4, <2>6, OneStep
<1>. QED
  BY <1>4, <1>5, <1>6

\* What the analysis of a constructor writes.
LEMMA ConstructorWrites ==
  ASSUME analyze_constructor
  PROVE  \/ (at' = at + 1 /\ pc' = pc) /\ UNCHANGED <<defs, extension>>
         \/ (at' = 0 /\ pc' = "panic") /\ UNCHANGED <<defs, extension>>
         \/ /\ IsClass(defs[at]) /\ at' = at + 1 /\ pc' = pc
            /\ extension' = extension \/ extension' = Append(extension, [class |-> at, def |-> exn_constructor(at)])
            /\ defs' = defs \/ \E x : defs' = [defs EXCEPT ![at].constructor = x]
<1>1. CASE ~IsClass(defs[at]) \/ ~HasAst(defs[at])
  BY <1>1 DEF analyze_constructor
<1>2. CASE ~(~IsClass(defs[at]) \/ ~HasAst(defs[at]))
  <2>. DEFINE class == defs[at]
              self == make_self(class.type_vars, at)
              made == GetType(Env(defs, class.mod, {}), self)
              inits == Inits(class)
              args == FlattenSeq([i \in DOMAIN inits |-> defs[inits[i].id].sig.args])
              vs == UNION {defs[m.id].sig.vars : m \in Range(inits)}
              exception == IsException(class.ancestors)
              r == Then(made, IF exception THEN <<"ok">> ELSE FieldsAssigned(at, inits))
              signature == IF exception THEN exn_constructor(at).sig ELSE Signature(args, self, vs)
  <2>1. IF r = Panic THEN Stop("panic") /\ UNCHANGED <<defs, errors, extension>>
        ELSE /\ extension' = IF exception /\ ~Failed(r)
                             THEN Append(extension, [class |-> at, def |-> exn_constructor(at)]) ELSE extension
             /\ defs' = IF Failed(made) THEN defs ELSE [defs EXCEPT ![at].constructor = signature]
             /\ errors' = errors \cup {e \in {"constructor"} : Failed(r)}
             /\ at' = at + 1 /\ UNCHANGED pc
    BY <1>2, Zenon DEF analyze_constructor
  <2>. HIDE DEF r, made, exception, signature
  <2>. QED
    BY <1>2, <2>1 DEF Stop
<1>. QED
  BY <1>1, <1>2

\* A constructor is written in its class, or made for the extension.
LEMMA ConstructorStep ==
  ASSUME IInv, analyze_constructor
  PROVE  IInv' /\ Stable
<1>1. /\ pc = "constructors" /\ at <= Len(defs)
      /\ UNCHANGED <<prog, defined_names, method_class, scopes>>
  BY DEF analyze_constructor
<1>2. /\ at \in DOMAIN defs
  <2>1. IsList(defs) /\ at \in Nat /\ at > 0
    BY <1>1, PrimFacts DEF IInv, Typed
  <2>. QED
    BY <1>1, <2>1, ListFacts
<1>3. \/ (at' = at + 1 /\ pc' = pc) /\ UNCHANGED <<defs, extension>>
      \/ (at' = 0 /\ pc' = "panic") /\ UNCHANGED <<defs, extension>>
      \/ /\ IsClass(defs[at]) /\ at' = at + 1 /\ pc' = pc
         /\ extension' = extension \/ extension' = Append(extension, [class |-> at, def |-> exn_constructor(at)])
         /\ defs' = defs \/ \E x : defs' = [defs EXCEPT ![at].constructor = x]
  BY ConstructorWrites
<1>4. CASE UNCHANGED <<defs, extension>> /\ ((at' = at + 1 /\ pc' = pc) \/ (at' = 0 /\ pc' = "panic"))
  BY <1>1, <1>4, Progress, FrameStep
<1>5. CASE /\ IsClass(defs[at]) /\ at' = at + 1 /\ pc' = pc
           /\ extension' = extension \/ extension' = Append(extension, [class |-> at, def |-> exn_constructor(at)])
           /\ defs' = defs \/ \E x : defs' = [defs EXCEPT ![at].constructor = x]
  <2>1. DOMAIN defs[at] = ClassFields /\ defs[at].k = "class" /\ Definition(defs[at])
    BY <1>2, <1>5 DEF IInv, Typed, Definition, IsClass
  <2>2. PICK e : /\ defs' = [defs EXCEPT ![at] = e]
                 /\ \/ e = defs[at]
                    \/ \E x : e = [defs[at] EXCEPT !.constructor = x]
    <3>1. CASE defs' = defs
      <4>1. IsList(defs)
        BY DEF IInv, Typed
      <4>2. defs = [defs EXCEPT ![at] = defs[at]]
        BY <4>1 DEF IsList
      <4>. QED
        BY <3>1, <4>2
    <3>2. CASE \E x : defs' = [defs EXCEPT ![at].constructor = x]
      BY <3>2, Zenon
    <3>. QED
      BY <1>5, <3>1, <3>2
  <2>3. /\ DOMAIN e = ClassFields /\ Kept(defs[at], e)
        /\ e.methods = defs[at].methods /\ e.ancestors = defs[at].ancestors
        /\ e.fields = defs[at].fields /\ e.attributes = defs[at].attributes
    <3>1. CASE e = defs[at]
      BY <2>1, <3>1 DEF Kept
    <3>2. CASE \E x : e = [defs[at] EXCEPT !.constructor = x]
      BY <2>1, <3>2 DEF ClassFields, Kept
    <3>. QED
      BY <2>2, <3>1, <3>2
  <2>4. Definition(e) /\ SameHeld(defs[at], e)
    BY <2>1, <2>3 DEF Definition, SameHeld, Kept, HasAst
  <2>5. Grown(defs, defs')
    BY <1>2, <2>2, <2>3 DEF Grown, Kept
  <2>6. ExtensionRight'
    <3>. DEFINE f == exn_constructor(at)
                entry == [class |-> at, def |-> f]
    <3>1. CASE extension' = extension
      BY <2>5, <3>1, ExtensionKept DEF IInv
    <3>2. CASE extension' = Append(extension, entry)
      <4>1. /\ Definition(f) /\ IsFunction(f) /\ ~HasAst(f)
            /\ f.name = make_class_method_name(defs[at].name, "__init__")
        <5>. DEFINE name == make_class_method_name(defs[at].name, "__init__")
                    g == make_top_level_function_def(name, defs[at].mod, FALSE, Absent)
                    s == Signature(exn_constructor_args, make_self(<<>>, at), {})
        <5>1. NewFunction(g, name, defs[at].mod, Absent)
          BY NewFunctionFields
        <5>2. f = [g EXCEPT !.sig = s]
          BY DEF exn_constructor
        <5>. HIDE DEF g, s, f, name
        <5>3. DOMAIN f = FunctionFields /\ f.k = "function" /\ f.name = name /\ f.ast = Absent
          BY <5>1, <5>2 DEF NewFunction, FunctionFields
        <5>. QED
          BY <5>3 DEF Definition, IsFunction, HasAst, Absent, name
      <4>. HIDE DEF f
      <4>2. IsList(extension) /\ DOMAIN extension = 1..Len(extension) /\ Len(extension) \in Nat
        BY ListFacts DEF IInv, ExtensionRight
      <4>3. entry.class = at /\ entry.def = f
        OBVIOUS
      <4>. HIDE DEF entry
      <4>4. /\ IsList(extension') /\ DOMAIN extension' = 1..(Len(extension) + 1)
            /\ \A i \in 1..Len(extension) : extension'[i] = extension[i]
            /\ extension'[Len(extension) + 1] = entry
        BY <3>2, <4>2, AppendList
      <4>5. ASSUME NEW i \in DOMAIN extension'
            PROVE  LET c == extension'[i].class
                       d == extension'[i].def
                   IN /\ c \in DOMAIN defs' /\ IsClass(defs'[c])
                      /\ Definition(d) /\ IsFunction(d) /\ ~HasAst(d)
                      /\ d.name = make_class_method_name(defs'[c].name, "__init__")
        <5>1. CASE i = Len(extension) + 1
          BY <1>2, <1>5, <2>5, <4>1, <4>3, <4>4, <5>1 DEF Grown, Kept, IsClass
        <5>2. CASE i # Len(extension) + 1
          <6>1. i \in DOMAIN extension /\ extension'[i] = extension[i]
            BY <4>2, <4>4, <5>2
          <6>. QED
            BY <2>5, <6>1 DEF IInv, ExtensionRight, Grown, Kept, IsClass
        <5>. QED
          BY <5>1, <5>2
      <4>. QED
        BY <4>4, <4>5 DEF ExtensionRight
    <3>. QED
      BY <1>5, <3>1, <3>2
  <2>7. Forward
    BY <1>5, Progress
  <2>8. ~IsFunction(defs[at])
    BY <2>1 DEF IsFunction
  <2>. QED
    BY <1>1, <1>2, <2>2, <2>3, <2>4, <2>6, <2>7, <2>8, OneStep
<1>. QED
  BY <1>3, <1>4, <1>5

\* The constructors of the exceptions become definitions, and methods of their classes.
LEMMA EndConstructors ==
  ASSUME IInv, end_constructors
  PROVE  IInv' /\ Stable
<1>1. /\ pc = "constructors"
      /\ UNCHANGED <<prog, defined_names, method_class, scopes>>
  BY DEF end_constructors
<1>. DEFINE Made(i) == {e \in DOMAIN extension : extension[e].class = i}
            init(i) == Method("__init__", Len(defs) + CHOOSE e \in DOMAIN extension : extension[e].class = i)
            ds == [i \in DOMAIN defs |->
                     IF \E e \in DOMAIN extension : extension[e].class = i
                     THEN [defs[i] EXCEPT !.methods = Append(@, init(i))]
                     ELSE defs[i]]
            fs == [e \in DOMAIN extension |-> extension[e].def]
<1>2. CASE errors # {}
  <2>1. at' = 0 /\ pc' = "failed" /\ UNCHANGED <<defs, extension>>
    BY <1>2 DEF end_constructors, Stop
  <2>. QED
    BY <1>1, <2>1, Progress, FrameStep
<1>3. CASE ~(errors # {})
  <2>1. /\ defs' = ds \o fs /\ extension' = <<>>
        /\ pc' = "instances" /\ at' = builtin_num + 1
    BY <1>1, <1>3 DEF end_constructors, Step
  <2>2. /\ IsList(defs) /\ DOMAIN defs = 1..Len(defs) /\ Len(defs) \in Nat
        /\ builtin_num = 18 /\ builtin_num <= Len(defs)
        /\ IsList(extension) /\ DOMAIN extension = 1..Len(extension) /\ Len(extension) \in Nat
    <3>1. IsList(defs) /\ builtin_num <= Len(defs) /\ IsList(extension)
      BY DEF IInv, Typed, ExtensionRight
    <3>. QED
      BY <3>1, ListFacts, PrimFacts
  <2>3. /\ IsList(ds) /\ Len(ds) = Len(defs) /\ IsList(fs) /\ Len(fs) = Len(extension)
    <3>1. ds = [i \in 1..Len(defs) |-> ds[i]] /\ fs = [i \in 1..Len(extension) |-> fs[i]]
      BY <2>2
    <3>. HIDE DEF ds, fs
    <3>. QED
      BY <2>2, <3>1, ListOfFunction
  <2>4. \A i \in DOMAIN defs : ds[i] = IF \E e \in DOMAIN extension : extension[e].class = i
                                       THEN [defs[i] EXCEPT !.methods = Append(@, init(i))] ELSE defs[i]
    OBVIOUS
  <2>5. \A e \in DOMAIN extension : fs[e] = extension[e].def
    OBVIOUS
  <2>. HIDE DEF ds, fs
  <2>6. /\ IsList(defs') /\ Len(defs') = Len(defs) + Len(extension)
        /\ DOMAIN defs' = 1..(Len(defs) + Len(extension))
        /\ \A i \in DOMAIN defs : i \in DOMAIN defs' /\ defs'[i] = ds[i]
        /\ \A e \in DOMAIN extension : Len(defs) + e \in DOMAIN defs' /\ defs'[Len(defs) + e] = extension[e].def
    <3>1. Joined(defs', ds, fs)
      BY <2>1, <2>3, ConcatList
    <3>2. \A i \in 1..Len(extension) : Len(defs) + i \in 1..(Len(defs) + Len(extension))
      BY <2>2
    <3>3. \A i \in 1..Len(defs) : i \in 1..(Len(defs) + Len(extension))
      BY <2>2
    <3>. QED
      BY <2>2, <2>3, <2>5, <3>1, <3>2, <3>3 DEF Joined
  <2>7. \A i \in DOMAIN defs' \ DOMAIN defs : \E e \in DOMAIN extension : i = Len(defs) + e
    <3>1. ASSUME NEW i \in DOMAIN defs' \ DOMAIN defs
          PROVE  i - Len(defs) \in DOMAIN extension /\ i = Len(defs) + (i - Len(defs))
      BY <2>2, <2>6, <3>1
    <3>. QED
      BY <3>1
  <2>8. ASSUME NEW i \in DOMAIN defs' \ DOMAIN defs
        PROVE  Definition(defs'[i]) /\ IsFunction(defs'[i]) /\ ~IsClass(defs'[i]) /\ ~HasAst(defs'[i])
    <3>1. PICK e \in DOMAIN extension : i = Len(defs) + e
      BY <2>7
    <3>2. defs'[i] = extension[e].def
      BY <2>6, <3>1
    <3>3. Definition(extension[e].def) /\ IsFunction(extension[e].def) /\ ~HasAst(extension[e].def)
      BY DEF IInv, ExtensionRight
    <3>. QED
      BY <3>2, <3>3 DEF IsFunction, IsClass
  <2>9. ASSUME NEW i \in DOMAIN defs
        PROVE  /\ Kept(defs[i], defs'[i]) /\ Definition(defs'[i])
               /\ IsClass(defs[i]) => /\ defs'[i].ancestors = defs[i].ancestors
                                      /\ \A m \in Range(defs'[i].methods) :
                                           m \in Range(defs[i].methods) \/ MadeConstructor(i, m)'
               /\ IsFunction(defs[i]) => defs'[i] = defs[i]
    <3>1. Definition(defs[i])
      BY DEF IInv, Typed
    <3>2. CASE ~\E e \in DOMAIN extension : extension[e].class = i
      <4>1. defs'[i] = defs[i]
        BY <2>4, <2>6, <3>2
      <4>. QED
        BY <3>1, <4>1 DEF Kept
    <3>3. CASE \E e \in DOMAIN extension : extension[e].class = i
      <4>1. PICK e \in DOMAIN extension : extension[e].class = i /\ init(i) = Method("__init__", Len(defs) + e)
        BY <3>3
      <4>2. /\ IsClass(defs[i]) /\ IsFunction(extension[e].def) /\ ~HasAst(extension[e].def)
            /\ extension[e].def.name = make_class_method_name(defs[i].name, "__init__")
        BY <4>1 DEF IInv, ExtensionRight
      <4>. DEFINE x == init(i)
                  ms == Append(defs[i].methods, x)
                  d == defs'[i]
      <4>3. d = [defs[i] EXCEPT !.methods = ms]
        BY <2>4, <2>6, <3>3
      <4>4. x.name = "__init__" /\ x.id = Len(defs) + e
        BY <4>1 DEF Method
      <4>5. /\ DOMAIN defs[i] = ClassFields /\ defs[i].k = "class" /\ IsList(defs[i].methods)
            /\ IsList(defs[i].ancestors) /\ IsList(defs[i].fields) /\ IsList(defs[i].attributes)
            /\ (HasAst(defs[i]) => ClassSyntax(defs[i].ast))
        BY <3>1, <4>2 DEF Definition, IsClass
      <4>. HIDE DEF x
      <4>6. IsList(ms) /\ Range(ms) = Range(defs[i].methods) \cup {x}
        BY <4>5, AppendList
      <4>. HIDE DEF ms, d
      <4>7. /\ DOMAIN d = ClassFields /\ Kept(defs[i], d)
            /\ d.methods = ms /\ d.ancestors = defs[i].ancestors
            /\ d.fields = defs[i].fields /\ d.attributes = defs[i].attributes
        BY <4>3, <4>5 DEF ClassFields, Kept
      <4>8. Definition(d)
        BY <4>5, <4>6, <4>7 DEF Definition, Kept, HasAst
      <4>9. ASSUME NEW m \in Range(d.methods), m \notin Range(defs[i].methods)
            PROVE  MadeConstructor(i, m)'
        <5>1. m.name = "__init__" /\ m.id = Len(defs) + e
          BY <4>4, <4>6, <4>7, <4>9
        <5>2. m.id \in DOMAIN defs' /\ defs'[m.id] = extension[e].def
          BY <2>6, <5>1
        <5>3. defs'[i].name = defs[i].name
          BY <4>7 DEF d, Kept
        <5>. QED
          BY <4>2, <5>1, <5>2, <5>3 DEF MadeConstructor
      <4>10. ~IsFunction(defs[i])
        BY <4>5 DEF IsFunction
      <4>. QED
        BY <4>7, <4>8, <4>9, <4>10 DEF d
    <3>. QED
      BY <3>2, <3>3
  <2>10. \A i \in DOMAIN defs :
           /\ IsClass(defs'[i]) <=> IsClass(defs[i])
           /\ HasAst(defs'[i]) <=> HasAst(defs[i])
           /\ IsClass(defs[i]) => AncestorIds(i)' = AncestorIds(i)
    <3>1. ASSUME NEW i \in DOMAIN defs
          PROVE  (IsClass(defs'[i]) <=> IsClass(defs[i])) /\ (HasAst(defs'[i]) <=> HasAst(defs[i]))
      BY <2>9 DEF Kept, IsClass, HasAst
    <3>2. ASSUME NEW i \in DOMAIN defs, IsClass(defs[i]) PROVE AncestorIds(i)' = AncestorIds(i)
      <4>1. defs'[i].ancestors = defs[i].ancestors
        BY <2>9, <3>2
      <4>. QED
        BY <4>1 DEF AncestorIds
    <3>. QED
      BY <3>1, <3>2
  <2>11. Grown(defs, defs')
    BY <2>6, <2>9 DEF Grown
  <2>12. Typed'
    <3>1. \A i \in DOMAIN defs' : Definition(defs'[i])
      BY <2>8, <2>9
    <3>2. prog \in Programs /\ DOMAIN scopes = {i.mod : i \in Range(prog.items)}
      BY DEF IInv, Typed
    <3>3. at' \in Nat /\ at' > builtin_num /\ pc' # "register" /\ builtin_num <= Len(defs')
      BY <2>1, <2>2, <2>6
    <3>. QED
      BY <1>1, <2>6, <3>1, <3>2, <3>3 DEF Typed
  <2>13. BuiltinsRight'
    <3>1. \A i \in 1..builtin_num : i \in DOMAIN defs
      BY <2>2
    <3>2. PrimId("Option") \in DOMAIN defs /\ PrimId("Exception") \in DOMAIN defs
      BY <2>2, PrimFacts
    <3>. QED
      BY <2>10, <3>1, <3>2 DEF IInv, BuiltinsRight
  <2>14. Tables'
    <3>1. \A i \in DOMAIN defs' \ DOMAIN defs : ~Declared(defs'[i])
      BY <2>8 DEF Declared
    <3>. QED
      BY <1>1, <2>11, <3>1, TablesKept DEF IInv
  <2>15. ExtensionRight'
    BY <2>1, EmptyList DEF ExtensionRight
  <2>16. AncestorsStart'
    <3>1. \A c : ~Unbased(c)'
      BY <2>1 DEF Unbased
    <3>2. ASSUME NEW c \in DOMAIN defs, IsClass(defs[c]), defs'[c].ancestors # <<>>
          PROVE  defs'[c].ancestors[1][2] = c
      BY <2>9, <3>2 DEF IInv, Ancestry, AncestorsStart
    <3>. QED
      BY <2>8, <2>10, <3>1, <3>2 DEF AncestorsStart
  <2>17. HierarchyOrdered'
    <3>1. ASSUME NEW c \in DOMAIN defs, IsClass(defs[c]), NEW a \in AncestorIds(c)
          PROVE  a \in 1..c /\ IsClass(defs'[a]) /\ AncestorIds(a)' \subseteq AncestorIds(c)
      <4>1. a \in 1..c /\ IsClass(defs[a]) /\ AncestorIds(a) \subseteq AncestorIds(c)
        BY <3>1 DEF IInv, Ancestry, HierarchyOrdered
      <4>2. a \in DOMAIN defs
        BY <2>2, <4>1
      <4>. QED
        BY <2>10, <4>1, <4>2
    <3>. QED
      BY <2>8, <2>10, <3>1 DEF HierarchyOrdered
  <2>18. MethodsRight'
    <3>1. ASSUME NEW c \in DOMAIN defs, IsClass(defs[c]), NEW m \in Range(defs'[c].methods)
          PROVE  Inherits(c, m)' \/ MadeConstructor(c, m)'
      <4>1. CASE m \in Range(defs[c].methods)
        <5>1. Inherits(c, m)
          BY <1>1, <3>1, <4>1 DEF IInv, MethodsRight
        <5>2. m.id \in DOMAIN method_class => m.id \in DOMAIN defs
          BY DEF IInv, Tables, MethodsOwned
        <5>3. Inherits(c, m)'
          BY <1>1, <2>9, <2>10, <3>1, <5>1, <5>2 DEF Inherits, Kept
        <5>. QED
          BY <5>3
      <4>. QED
        BY <2>9, <3>1, <4>1
    <3>. QED
      BY <2>1, <2>8, <2>10, <3>1 DEF MethodsRight
  <2>19. Pending'
    <3>1. \A c : ~Unsigned(c)'
      BY <2>1 DEF Unsigned
    <3>. QED
      BY <3>1 DEF Pending
  <2>20. Stable
    BY <2>6, <2>9 DEF Stable, Kept
  <2>. QED
    BY <2>12, <2>13, <2>14, <2>15, <2>16, <2>17, <2>18, <2>19, <2>20 DEF IInv, Ancestry
<1>. QED
  BY <1>2, <1>3


-----------------------------------------------------------------------------
(* The bases of a class                                                    *)

\* A class that an annotation can name while c is locked.
Nameable(ds, id) == id \in {8, 9} \/ (id \in DOMAIN ds /\ IsClass(ds[id]))

\* A class found by its DefinitionId.
LEMMA FoundClass ==
  ASSUME NEW env, NEW locked, NEW id, NEW params, NEW used,
         env.writing \cap DOMAIN env.defs = {}, DOMAIN locked = env.writing,
         class_def_id(env, locked, id, params, used)[1] = "class"
  PROVE  /\ class_def_id(env, locked, id, params, used) = CustomClass(id, params)
         /\ Nameable(env.defs, id)
<1>. DEFINE r == class_def_id(env, locked, id, params, used)
<1>. DEFINE held == TypeVarsOf(env, locked, id)
            scoped == InScope(env, used, WithClass(env, locked, id))
<1>1. id \in DOMAIN env.defs
  BY DEF class_def_id, Error
<1>2. held = IF IsClass(env.defs[id]) THEN <<"vars", env.defs[id].type_vars>> ELSE Error
  BY <1>1 DEF TypeVarsOf, IsClass
<1>3. r = IF Failed(held) THEN held
          ELSE IF Len(held[2]) # Len(params) THEN Error
          ELSE Then(FirstFailure(params), IF scoped THEN CustomClass(id, params) ELSE Error)
  BY <1>1, Zenon DEF class_def_id
<1>. HIDE DEF held, scoped
<1>4. ~Failed(held) /\ r = Then(FirstFailure(params), IF scoped THEN CustomClass(id, params) ELSE Error)
  BY <1>3 DEF Failed, Error
<1>5. r = CustomClass(id, params)
  BY <1>4 DEF Then, Failed, Error
<1>6. IsClass(env.defs[id])
  BY <1>2, <1>4 DEF Failed, Error
<1>. QED
  BY <1>1, <1>5, <1>6 DEF Nameable

\* The class that an annotation is, when it is one.
LEMMA AnnotatedClass ==
  ASSUME NEW env, NEW locked, NEW e, NEW resolved, NEW parts, NEW params, NEW used,
         env.writing \cap DOMAIN env.defs = {}, DOMAIN locked = env.writing,
         e.k \in {"name", "sub"}, e.k = "sub" => IsList(parts),
         NEW r, r = AnnotationOf(env, locked, e, resolved, parts, params, used), r[1] = "class"
  PROVE  \E id, ps : r = CustomClass(id, ps) /\ Nameable(env.defs, id)
<1>1. CASE e.k = "name"
  <2>1. r = parse_name(env, locked, e)
    BY <1>1 DEF AnnotationOf, Error
  <2>. DEFINE n == match_builtin(e)
  <2>2. CASE n = "Auto"
    BY <2>1, <2>2 DEF parse_name, AutoVar
  <2>3. CASE n = "Exception"
    BY <2>1, <2>3, PrimFacts DEF parse_name, Nameable
  <2>4. CASE n # "" /\ n # "len" /\ n \notin {"Auto", "Exception"}
    <3>1. r = get_ty_fn(n)
      BY <2>1, <2>4, Zenon DEF parse_name
    <3>. QED
      BY <3>1 DEF get_ty_fn, Panic, Prim
  <2>5. CASE n = "" \/ n = "len"
    <3>1. r = IF e.id \in DOMAIN env.ids THEN class_def_id(env, locked, env.ids[e.id], <<>>, {})
              ELSE IF e.id \in DOMAIN env.tvars THEN TypeVar(e.id) ELSE Error
      BY <2>1, <2>5 DEF parse_name
    <3>2. r = class_def_id(env, locked, env.ids[e.id], <<>>, {})
      BY <3>1 DEF TypeVar, Error
    <3>3. r = CustomClass(env.ids[e.id], <<>>) /\ Nameable(env.defs, env.ids[e.id])
      BY <3>2, FoundClass
    <3>. QED
      BY <3>3
  <2>. QED
    BY <2>2, <2>3, <2>4, <2>5
<1>2. CASE e.k = "sub"
  <2>1. r = parse_subscript(env, locked, e, resolved, parts, params, used)
    BY <1>2 DEF AnnotationOf, Error
  <2>. DEFINE n == match_builtin(e.of)
              all == FirstFailure(parts)
  <2>2. CASE n = "virtual"
    <3>1. r = Then(all, IF parts[1][1] = "class" THEN Virtual(parts[1]) ELSE Panic)
      BY <2>1, <2>2 DEF parse_subscript
    <3>. QED
      BY <3>1 DEF Then, Failed, Virtual, Panic
  <2>3. CASE n = "Option"
    <3>1. r = Then(all, CustomClass(PrimId(n), <<parts[1]>>))
      BY <2>1, <2>3 DEF parse_subscript
    <3>2. r = CustomClass(8, <<parts[1]>>)
      BY <2>3, <3>1, PrimFacts DEF Then, Failed
    <3>. QED
      BY <3>2 DEF Nameable
  <2>4. CASE n = "tuple"
    <3>1. r = Then(all, Tuple_(parts))
      BY <2>1, <2>4 DEF parse_subscript
    <3>. QED
      BY <3>1 DEF Then, Failed, Tuple_
  <2>5. CASE n = "Literal"
    <3>1. r = Then(all, IF \E i \in DOMAIN parts : parts[i][1] # "literal" THEN Panic
                        ELSE IF Len(parts) = 1 THEN parts[1] ELSE Error)
      BY <2>1, <2>5 DEF parse_subscript
    <3>2. Len(parts) = 1 => 1 \in DOMAIN parts
      BY <1>2, ListFacts
    <3>. QED
      BY <3>1, <3>2 DEF Then, Failed, Panic, Error
  <2>6. CASE n \notin {"virtual", "Option", "tuple", "Literal"}
    <3>1. r = parse_class_id(env, locked, e, resolved, params, used)
      BY <2>1, <2>6 DEF parse_subscript, Error
    <3>. DEFINE named == ClassNamed(env, e, resolved)
    <3>2. r = Then(named, class_def_id(env, locked, named[2], params, used))
      BY <3>1 DEF parse_class_id, Error
    <3>. HIDE DEF named
    <3>3. r = class_def_id(env, locked, named[2], params, used)
      BY <3>2 DEF Then, Failed
    <3>4. r = CustomClass(named[2], params) /\ Nameable(env.defs, named[2])
      BY <3>3, FoundClass
    <3>. QED
      BY <3>4
  <2>. QED
    BY <2>2, <2>3, <2>4, <2>5, <2>6
<1>. QED
  BY <1>1, <1>2

\* The class that an expression is parsed as.
LEMMA ParsedClass ==
  ASSUME NEW env, NEW locked, NEW e,
         env.writing \cap DOMAIN env.defs = {}, DOMAIN locked = env.writing,
         e.k \in {"name", "sub"}, e.k = "sub" => IsList(e.args),
         parse_ast(env, locked, e)[1] = "class"
  PROVE  \E id, ps : parse_ast(env, locked, e) = CustomClass(id, ps) /\ Nameable(env.defs, id)
<1>. DEFINE resolved == ResolveClass(env, IF e.k = "attr" THEN e ELSE e.of)
            parts == [i \in DOMAIN e.args |-> ParseArgument(env, locked, e.args[i])]
            params == [i \in DOMAIN e.args |->
                         ParseArgument(env, WithClass(env, locked, ClassNamed(env, e, resolved)[2]), e.args[i])]
            used == UNION {VarsContained(p) : p \in Range(params)}
<1>1. parse_ast(env, locked, e) = AnnotationOf(env, locked, e, resolved, parts, params, used)
  BY Zenon DEF parse_ast, ResolvedAnnotation, ParsedArguments
<1>2. e.k = "sub" => IsList(parts)
  <2>1. SUFFICES ASSUME e.k = "sub" PROVE IsList(parts)
    OBVIOUS
  <2>2. Len(e.args) \in Nat /\ DOMAIN e.args = 1..Len(e.args)
    BY <2>1, ListFacts
  <2>3. parts = [i \in 1..Len(e.args) |-> parts[i]]
    BY <2>2
  <2>. QED
    BY <2>2, <2>3, ListOfFunction
<1>. HIDE DEF resolved, parts, params, used
<1>. QED
  BY <1>1, <1>2, AnnotatedClass

BasesFields == {"r", "is_generic", "has_base", "type_vars", "ancestors"}
\* What the bases read so far have given: at most one class that can be named.
BasesRight(ds, acc) ==
  /\ DOMAIN acc = BasesFields
  /\ ~acc.has_base => acc.ancestors = <<>>
  /\ \/ acc.ancestors = <<>>
     \/ \E id, ps : acc.ancestors = <<CustomClass(id, ps)>> /\ Nameable(ds, id)

\* One more base.
LEMMA BaseAdded ==
  ASSUME NEW env, NEW id, NEW acc, NEW b, env.writing = {id}, id \notin DOMAIN env.defs,
         BasesRight(env.defs, acc), b.k = "sub" => IsList(b.args)
  PROVE  BasesRight(env.defs, WithBase(env, id, acc, b))
<1>. DEFINE after == WithBase(env, id, acc, b)
<1>1. CASE Failed(acc.r)
  <2>1. after = acc
    BY <1>1 DEF WithBase
  <2>. QED
    BY <2>1
<1>2. CASE ~Failed(acc.r) /\ b.k = "sub" /\ has_generic_ann(b)
  <2>. DEFINE vs == [i \in DOMAIN b.args |-> ParseInBody(env, b.args[i])]
              tvs == IF Failed(FirstFailure(vs)) THEN acc.type_vars ELSE acc.type_vars \o vs
  <2>1. after = IF acc.is_generic THEN [acc EXCEPT !.r = Error]
                ELSE [acc EXCEPT !.is_generic = TRUE, !.r = FirstFailure(vs), !.type_vars = tvs]
    BY <1>2, Zenon DEF WithBase
  <2>. HIDE DEF vs, tvs, after
  <2>2. DOMAIN after = BasesFields /\ after.has_base = acc.has_base /\ after.ancestors = acc.ancestors
    BY <2>1 DEF BasesRight, BasesFields
  <2>. QED
    BY <2>2 DEF BasesRight, after
<1>3. CASE ~Failed(acc.r) /\ b.k \in {"name", "sub"} /\ ~has_generic_ann(b)
  <2>. DEFINE ty == parse_ast(env, [c \in {id} |-> acc.type_vars], b)
  <2>1. after = IF acc.has_base \/ Failed(ty)
                THEN [acc EXCEPT !.has_base = TRUE, !.r = IF acc.has_base THEN Error ELSE ty]
                ELSE IF ty[1] = "class" THEN [acc EXCEPT !.has_base = TRUE, !.ancestors = Append(@, ty)]
                ELSE [acc EXCEPT !.has_base = TRUE, !.r = Error]
    BY <1>3, Zenon DEF WithBase
  <2>2. ty[1] = "class" => \E c, ps : ty = CustomClass(c, ps) /\ Nameable(env.defs, c)
    <3>. DEFINE locked == [c \in {id} |-> acc.type_vars]
    <3>1. DOMAIN locked = {id}
      OBVIOUS
    <3>. HIDE DEF locked
    <3>2. /\ env.writing \cap DOMAIN env.defs = {} /\ DOMAIN locked = env.writing
          /\ b.k \in {"name", "sub"} /\ (b.k = "sub" => IsList(b.args))
      BY <1>3, <3>1
    <3>3. ty = parse_ast(env, locked, b)
      BY DEF locked
    <3>. QED
      BY <3>2, <3>3, ParsedClass
  <2>. HIDE DEF ty, after
  <2>3. CASE ~acc.has_base /\ ~Failed(ty) /\ ty[1] = "class"
    <3>1. after = [acc EXCEPT !.has_base = TRUE, !.ancestors = Append(@, ty)] /\ acc.ancestors = <<>>
      BY <2>1, <2>3 DEF BasesRight
    <3>2. DOMAIN after = BasesFields /\ after.has_base /\ after.ancestors = <<ty>>
      BY <3>1 DEF BasesRight, BasesFields
    <3>. QED
      BY <2>2, <2>3, <3>2 DEF BasesRight, after
  <2>4. CASE ~(~acc.has_base /\ ~Failed(ty) /\ ty[1] = "class")
    <3>1. DOMAIN after = BasesFields /\ after.has_base /\ after.ancestors = acc.ancestors
      BY <2>1, <2>4 DEF BasesRight, BasesFields
    <3>. QED
      BY <3>1 DEF BasesRight, after
  <2>. QED
    BY <2>3, <2>4
<1>4. CASE /\ ~Failed(acc.r)
           /\ ~(b.k = "sub" /\ has_generic_ann(b))
           /\ ~(b.k \in {"name", "sub"} /\ ~has_generic_ann(b))
  <2>1. after = [acc EXCEPT !.r = Error]
    BY <1>4, Zenon DEF WithBase
  <2>. HIDE DEF after
  <2>2. DOMAIN after = BasesFields /\ after.has_base = acc.has_base /\ after.ancestors = acc.ancestors
    BY <2>1 DEF BasesRight, BasesFields
  <2>. QED
    BY <2>2 DEF BasesRight, after
<1>. QED
  BY <1>1, <1>2, <1>3, <1>4

\* All the bases of a class.
LEMMA BasesRead ==
  ASSUME NEW env, NEW id, env.writing = {id}, id \notin DOMAIN env.defs,
         IsList(defs[id].ast.bases), \A b \in Range(defs[id].ast.bases) : b.k = "sub" => IsList(b.args)
  PROVE  BasesRight(env.defs, analyze_class_bases(env, id))
<1>. DEFINE bases == defs[id].ast.bases
            N == Len(bases)
            start == [r |-> <<"ok">>, is_generic |-> FALSE, has_base |-> FALSE,
                      type_vars |-> <<>>, ancestors |-> <<>>]
            Fold(g, k) == g = [n \in 0..k |-> IF n = 0 THEN start ELSE WithBase(env, id, g[n - 1], bases[n])]
<1>1. N \in Nat /\ DOMAIN bases = 1..N
  BY ListFacts
<1>. HIDE DEF N, start
<1>2. ASSUME NEW k \in Nat, NEW g, Fold(g, k) PROVE \E h : Fold(h, k + 1)
  <2>. DEFINE h == [n \in 0..(k + 1) |-> IF n = k + 1 THEN WithBase(env, id, g[n - 1], bases[n]) ELSE g[n]]
  <2>1. \A n \in 0..k : g[n] = IF n = 0 THEN start ELSE WithBase(env, id, g[n - 1], bases[n])
    BY <1>2, Zenon
  <2>2. \A n \in 0..k : h[n] = g[n]
    OBVIOUS
  <2>3. h[k + 1] = WithBase(env, id, g[(k + 1) - 1], bases[k + 1])
    <3>1. k + 1 \in 0..(k + 1)
      OBVIOUS
    <3>. QED
      BY <3>1, Zenon
  <2>4. ASSUME NEW n \in 0..(k + 1) PROVE h[n] = IF n = 0 THEN start ELSE WithBase(env, id, h[n - 1], bases[n])
    <3>. HIDE DEF h
    <3>1. CASE n = k + 1
      BY <2>2, <2>3, <3>1
    <3>2. CASE n # k + 1
      <4>1. n \in 0..k /\ (n # 0 => n - 1 \in 0..k)
        BY <3>2
      <4>. QED
        BY <2>1, <2>2, <4>1
    <3>. QED
      BY <3>1, <3>2
  <2>5. h = [n \in 0..(k + 1) |-> h[n]]
    OBVIOUS
  <2>. HIDE DEF h
  <2>6. Fold(h, k + 1)
    BY <2>4, <2>5, Zenon
  <2>. QED
    BY <2>6
<1>3. \E g : Fold(g, 0)
  <2>. DEFINE g == [n \in 0..0 |-> start]
  <2>1. \A n \in 0..0 : n = 0
    OBVIOUS
  <2>2. Fold(g, 0)
    BY <2>1, Zenon
  <2>. QED
    BY <2>2
<1>. HIDE DEF Fold
<1>4. \E g : Fold(g, N)
  <2>. DEFINE P == {k \in Nat : \E g : Fold(g, k)}
  <2>1. 0 \in P /\ \A k \in Nat : k \in P => k + 1 \in P
    BY <1>2, <1>3
  <2>2. N \in P
    BY <1>1, <2>1, Climb
  <2>. QED
    BY <2>2
<1>. DEFINE after == CHOOSE g : Fold(g, N)
<1>5. Fold(after, N)
  BY <1>4, Zenon
<1>6. analyze_class_bases(env, id) = after[N]
  BY Zenon DEF analyze_class_bases, Fold, N, start
<1>. HIDE DEF after
<1>7. after[0] = start /\ \A n \in 1..N : after[n] = WithBase(env, id, after[n - 1], bases[n])
  <2>1. \A n \in 0..N : after[n] = IF n = 0 THEN start ELSE WithBase(env, id, after[n - 1], bases[n])
    BY <1>5, Zenon DEF Fold
  <2>. QED
    BY <1>1, <2>1
<1>. DEFINE P == {k \in Nat : BasesRight(env.defs, after[k])}
<1>8. 0 \in P
  BY <1>7 DEF BasesRight, BasesFields, start
<1>9. ASSUME NEW n \in Nat, n \in P, n < N PROVE n + 1 \in P
  <2>1. n + 1 \in 1..N /\ (n + 1) - 1 = n
    BY <1>1, <1>9
  <2>2. bases[n + 1].k = "sub" => IsList(bases[n + 1].args)
    BY <1>1, <2>1 DEF Range
  <2>3. after[n + 1] = WithBase(env, id, after[n], bases[n + 1])
    BY <1>7, <2>1
  <2>. QED
    BY <1>9, <2>1, <2>2, <2>3, BaseAdded
<1>10. N \in P
  BY <1>1, <1>8, <1>9, Climb
<1>. QED
  BY <1>6, <1>10

\* The classes in a list of types.
ClassIds(types) == {a[2] : a \in Range(types)}

\* A class that gets its ancestors, each with its own, keeps the invariant.
LEMMA AncestorsStep ==
  ASSUME IInv, Forward, UNCHANGED <<prog, scopes, method_class, defined_names, extension>>,
         NEW c \in DOMAIN defs, IsClass(defs[c]), NEW e, defs' = [defs EXCEPT ![c] = e],
         Kept(defs[c], e), Definition(e), e.methods = defs[c].methods,
         AncestorIds(c) \subseteq ClassIds(e.ancestors),
         \A a \in ClassIds(e.ancestors) :
           a \in 1..c /\ IsClass(defs[a]) /\ (a # c => AncestorIds(a) \subseteq ClassIds(e.ancestors)),
         e.ancestors # <<>> => e.ancestors[1][2] = c,
         c > builtin_num => ~Unbased(c)',
         c <= builtin_num => ClassIds(e.ancestors) \subseteq {c},
         \A d \in DOMAIN defs :
           IsClass(defs[d]) /\ d # c /\ c \in AncestorIds(d) => ClassIds(e.ancestors) \subseteq AncestorIds(d)
  PROVE  IInv' /\ Stable
<1>0. PICK ids : ids = ClassIds(e.ancestors)
  OBVIOUS
<1>1. DOMAIN defs' = DOMAIN defs /\ defs'[c] = e /\ \A i \in DOMAIN defs : i # c => defs'[i] = defs[i]
  OBVIOUS
<1>2. /\ IsList(defs) /\ builtin_num <= Len(defs) /\ \A i \in DOMAIN defs : Definition(defs[i])
      /\ Len(defs) \in Nat /\ DOMAIN defs = 1..Len(defs) /\ builtin_num = 18
  <2>1. IsList(defs) /\ builtin_num <= Len(defs) /\ \A i \in DOMAIN defs : Definition(defs[i])
    BY DEF IInv, Typed
  <2>. QED
    BY <2>1, ListFacts, PrimFacts
<1>3. IsList(defs') /\ Len(defs') = Len(defs)
  <2>1. defs' = [i \in 1..Len(defs) |-> defs'[i]]
    BY <1>1, <1>2
  <2>. QED
    BY <1>2, <2>1, ListOfFunction
<1>4. \A i \in DOMAIN defs : Kept(defs[i], defs'[i]) /\ Definition(defs'[i])
  BY <1>1, <1>2 DEF Kept
<1>5. \A i \in DOMAIN defs : /\ IsClass(defs'[i]) <=> IsClass(defs[i])
                             /\ HasAst(defs'[i]) <=> HasAst(defs[i])
                             /\ IsFunction(defs'[i]) <=> IsFunction(defs[i])
                             /\ IsClass(defs[i]) => defs'[i].methods = defs[i].methods
                             /\ IsFunction(defs[i]) => defs'[i] = defs[i]
  BY <1>1, <1>4 DEF Kept, IsClass, HasAst, IsFunction
<1>6. Grown(defs, defs')
  BY <1>1, <1>4 DEF Grown
<1>7. AncestorIds(c)' = ids /\ \A i \in DOMAIN defs : i # c => AncestorIds(i)' = AncestorIds(i)
  <2>1. AncestorIds(c)' = ids
    BY <1>0, <1>1 DEF AncestorIds, ClassIds
  <2>2. \A i \in DOMAIN defs : i # c => AncestorIds(i)' = AncestorIds(i)
    BY <1>1 DEF AncestorIds
  <2>. QED
    BY <2>1, <2>2
<1>8. \A i \in DOMAIN defs : AncestorIds(i) \subseteq AncestorIds(i)'
  BY <1>0, <1>7
<1>9. Typed'
  BY <1>1, <1>2, <1>3, <1>4 DEF IInv, Typed, Forward
<1>10. BuiltinsRight'
  <2>1. PrimId("Option") \in DOMAIN defs /\ PrimId("Exception") \in DOMAIN defs
    BY <1>2, PrimFacts
  <2>2. ASSUME NEW i \in 1..builtin_num
        PROVE  ~HasAst(defs'[i]) /\ (IsClass(defs'[i]) => AncestorIds(i)' \subseteq {i})
    <3>1. i \in DOMAIN defs /\ ~HasAst(defs[i]) /\ (IsClass(defs[i]) => AncestorIds(i) \subseteq {i})
      BY <1>2 DEF IInv, BuiltinsRight
    <3>2. i = c => AncestorIds(i)' \subseteq {i}
      BY <1>0, <1>2, <1>7
    <3>. QED
      BY <1>5, <1>7, <3>1, <3>2
  <2>. QED
    BY <1>5, <2>1, <2>2 DEF IInv, BuiltinsRight
<1>11. Tables'
  <2>1. \A i \in DOMAIN defs' \ DOMAIN defs : ~Declared(defs'[i])
    BY <1>1
  <2>. QED
    BY <1>6, <2>1, TablesKept DEF IInv
<1>12. ExtensionRight'
  BY <1>6, ExtensionKept DEF IInv
<1>13. AncestorsStart'
  <2>1. ASSUME NEW d \in DOMAIN defs, IsClass(defs[d])
        PROVE  /\ d > builtin_num /\ Unbased(d)' => defs'[d].ancestors = <<>>
               /\ defs'[d].ancestors # <<>> => defs'[d].ancestors[1][2] = d
    <3>1. CASE d = c
      BY <1>1, <3>1
    <3>2. CASE d # c
      <4>1. d \in Nat /\ (Unbased(d)' => Unbased(d))
        BY <1>2 DEF Forward
      <4>. QED
        BY <1>1, <2>1, <3>2, <4>1 DEF IInv, Ancestry, AncestorsStart
    <3>. QED
      BY <3>1, <3>2
  <2>. QED
    BY <1>1, <1>5, <2>1 DEF AncestorsStart
<1>14. HierarchyOrdered'
  <2>1. ASSUME NEW d \in DOMAIN defs, IsClass(defs[d]), NEW a \in AncestorIds(d)'
        PROVE  a \in 1..d /\ IsClass(defs'[a]) /\ AncestorIds(a)' \subseteq AncestorIds(d)'
    <3>1. CASE d = c
      <4>1. a \in ids /\ a \in DOMAIN defs
        BY <1>0, <1>2, <1>7, <2>1, <3>1
      <4>. QED
        BY <1>0, <1>5, <1>7, <3>1, <4>1
    <3>2. CASE d # c
      <4>1. a \in AncestorIds(d)
        BY <1>7, <2>1, <3>2
      <4>2. a \in 1..d /\ IsClass(defs[a]) /\ AncestorIds(a) \subseteq AncestorIds(d)
        BY <2>1, <4>1 DEF IInv, Ancestry, HierarchyOrdered
      <4>3. a \in DOMAIN defs
        BY <1>2, <4>2
      <4>. QED
        BY <1>0, <1>5, <1>7, <2>1, <3>2, <4>1, <4>2, <4>3
    <3>. QED
      BY <3>1, <3>2
  <2>. QED
    BY <1>1, <1>5, <2>1 DEF HierarchyOrdered
<1>15. MethodsRight'
  <2>1. ASSUME NEW d \in DOMAIN defs, IsClass(defs[d]), NEW m \in Range(defs[d].methods)
        PROVE  \/ Inherits(d, m)'
               \/ pc' \in {"instances", "done", "failed", "panic"} /\ MadeConstructor(d, m)'
    <3>1. CASE Inherits(d, m)
      <4>1. m.id \in DOMAIN method_class => m.id \in DOMAIN defs
        BY DEF IInv, Tables, MethodsOwned
      <4>2. Inherits(d, m)'
        BY <1>4, <1>8, <2>1, <3>1, <4>1 DEF Inherits, Kept
      <4>. QED
        BY <4>2
    <3>2. CASE pc \in {"instances", "done", "failed", "panic"} /\ MadeConstructor(d, m)
      <4>1. MadeConstructor(d, m)'
        BY <1>1, <1>4, <1>5, <2>1, <3>2 DEF MadeConstructor, Kept
      <4>. QED
        BY <3>2, <4>1 DEF Forward
    <3>. QED
      BY <2>1, <3>1, <3>2 DEF IInv, MethodsRight
  <2>. QED
    BY <1>1, <1>5, <2>1 DEF MethodsRight
<1>16. Pending'
  <2>1. ASSUME NEW d \in DOMAIN defs, IsClass(defs[d]), d > builtin_num, Unsigned(d)',
               NEW m \in Range(defs[d].methods)
        PROVE  m.id \in DOMAIN method_class /\ method_class[m.id] = d /\ ~defs'[m.id].sig.known
    <3>1. Unsigned(d)
      BY <1>2, <2>1 DEF Forward
    <3>2. m.id \in DOMAIN method_class /\ method_class[m.id] = d /\ ~defs[m.id].sig.known
      BY <2>1, <3>1 DEF IInv, Pending
    <3>3. m.id \in DOMAIN defs /\ IsFunction(defs[m.id])
      BY <3>2 DEF IInv, Tables, MethodsOwned
    <3>. QED
      BY <1>5, <3>2, <3>3
  <2>. QED
    BY <1>1, <1>5, <2>1 DEF Pending
<1>17. Stable
  BY <1>1, <1>4, <1>5 DEF Stable, Kept
<1>. QED
  BY <1>9, <1>10, <1>11, <1>12, <1>13, <1>14, <1>15, <1>16, <1>17 DEF IInv, Ancestry

\* A list without its first element.
LEMMA TailList ==
  ASSUME NEW s, IsList(s), s # <<>>
  PROVE  IsList(Tail(s)) /\ 1 \in DOMAIN s /\ Range(s) = {s[1]} \cup Range(Tail(s))
<1>. DEFINE t == Tail(s)
<1>1. s \in Seq(Range(s)) /\ Len(s) \in Nat /\ DOMAIN s = 1..Len(s)
  BY ListFacts DEF IsList
<1>2. t \in Seq(Range(s)) /\ Len(t) = Len(s) - 1 /\ \A i \in 1..Len(t) : t[i] = s[i + 1]
  BY <1>1, HeadTailProperties
<1>3. Len(t) \in Nat /\ DOMAIN t = 1..Len(t)
  BY <1>2, LenProperties
<1>. HIDE DEF t
<1>4. IsList(t)
  <2>1. t = [i \in 1..Len(t) |-> t[i]]
    BY <1>2, <1>3
  <2>. QED
    BY <1>3, <2>1, ListOfFunction
<1>5. 1 \in DOMAIN s
  BY <1>1, <1>2, <1>3
<1>6. ASSUME NEW x \in Range(s), x # s[1] PROVE x \in Range(t)
  <2>1. PICK i \in DOMAIN s : x = s[i]
    BY <1>6 DEF Range
  <2>2. i # 1 /\ i - 1 \in 1..Len(t) /\ (i - 1) + 1 = i
    BY <1>1, <1>2, <1>6, <2>1
  <2>3. t[i - 1] = x
    BY <1>2, <2>1, <2>2
  <2>. QED
    BY <1>3, <2>2, <2>3 DEF Range
<1>7. ASSUME NEW x \in Range(t) PROVE x \in Range(s)
  <2>1. PICK i \in DOMAIN t : x = t[i]
    BY <1>7 DEF Range
  <2>2. i + 1 \in DOMAIN s /\ x = s[i + 1]
    BY <1>1, <1>2, <1>3, <2>1
  <2>. QED
    BY <2>2 DEF Range
<1>8. s[1] \in Range(s)
  BY <1>5 DEF Range
<1>. QED
  BY <1>4, <1>5, <1>6, <1>7, <1>8 DEF t

\* The elements of a list in any order.
LEMMA ShuffledList ==
  ASSUME NEW s, IsList(s), NEW r \in SetToSeqs(Range(s))
  PROVE  IsList(r) /\ Range(r) = Range(s)
<1>. DEFINE S == Range(s)
            D == 1..Cardinality(S)
<1>1. Len(s) \in Nat /\ DOMAIN s = 1..Len(s)
  BY ListFacts
<1>2. IsFiniteSet(S)
  <2>1. s \in Surjection(1..Len(s), S)
    <3>1. s \in [1..Len(s) -> S]
      BY <1>1, ListFacts DEF Range
    <3>2. \A x \in S : \E i \in 1..Len(s) : s[i] = x
      BY <1>1 DEF Range
    <3>. QED
      BY <3>1, <3>2 DEF Surjection
  <2>2. IsFiniteSet(1..Len(s))
    BY <1>1, FS_Interval
  <2>. QED
    BY <2>1, <2>2, FS_Surjection
<1>3. Cardinality(S) \in Nat
  BY <1>2, FS_CardinalityType
<1>4. r \in [D -> S] /\ \A i, j \in D : i # j => r[i] # r[j]
  BY DEF SetToSeqs
<1>5. r \in Surjection(D, S)
  <2>1. r \in Injection(D, S)
    BY <1>4 DEF Injection, IsInjective
  <2>2. Cardinality(D) = Cardinality(S)
    BY <1>3, FS_Interval
  <2>. QED
    BY <1>2, <2>1, <2>2, FS_Injection
<1>6. Range(r) = S
  <2>1. DOMAIN r = D /\ \A i \in D : r[i] \in S
    BY <1>4
  <2>2. \A x \in S : \E i \in D : r[i] = x
    BY <1>5 DEF Surjection
  <2>. HIDE DEF S, D
  <2>. QED
    BY <2>1, <2>2 DEF Range
<1>7. IsList(r)
  <2>1. r = [i \in D |-> r[i]]
    BY <1>4
  <2>. QED
    BY <1>3, <2>1, ListOfFunction
<1>. QED
  BY <1>6, <1>7

\* What analyze_class_ancestors makes of the bases of a class: the class itself, its parent, and all
\* the ancestors of that.
LEMMA AncestorsMade ==
  ASSUME IInv, pc = "bases", at \in DOMAIN defs, IsClass(defs[at]),
         NEW bases, BasesRight(SubSeq(defs, 1, at - 1), bases),
         NEW ancestors \in analyze_class_ancestors(at, bases),
         NEW ids, ids = {a[2] : a \in Range(ancestors)}
  PROVE  /\ IsList(ancestors) /\ ancestors[1][2] = at
         /\ \A a \in ids : a \in 1..at /\ IsClass(defs[a]) /\ (a # at => AncestorIds(a) \subseteq ids)
         /\ Len(ancestors) > 1 => ancestors[2][2] \in 1..(at - 1)
<1>. DEFINE self == make_self(bases.type_vars, at)
<1>1. /\ IsList(defs) /\ at \in Nat /\ at > 18 /\ DOMAIN defs = 1..Len(defs) /\ Len(defs) \in Nat
      /\ \A i \in DOMAIN defs : Definition(defs[i])
  <2>1. IsList(defs) /\ at \in Nat /\ at > 18 /\ \A i \in DOMAIN defs : Definition(defs[i])
    BY PrimFacts DEF IInv, Typed
  <2>. QED
    BY <2>1, ListFacts
<1>2. self[2] = at
  BY DEF make_self, CustomClass
<1>. HIDE DEF self
<1>3. PICK rest : /\ ancestors = <<self>> \o bases.ancestors \o rest
                  /\ rest \in IF bases.ancestors = <<>> THEN {<<>>}
                              ELSE LET parents == defs[bases.ancestors[1][2]].ancestors
                                   IN SetToSeqs(Range(IF parents = <<>> THEN <<>> ELSE Tail(parents)))
  BY Zenon DEF analyze_class_ancestors, self
<1>4. CASE bases.ancestors = <<>>
  <2>1. ancestors = <<self>>
    BY <1>3, <1>4
  <2>2. IsList(ancestors) /\ Range(ancestors) = {self} /\ ancestors[1] = self /\ ~(Len(ancestors) > 1)
    BY <2>1, SingleList
  <2>3. ids = {at}
    BY <1>2, <2>2
  <2>. QED
    BY <1>1, <1>2, <2>2, <2>3
<1>5. CASE bases.ancestors # <<>>
  <2>. DEFINE ds == SubSeq(defs, 1, at - 1)
  <2>1. \E b, ps : bases.ancestors = <<CustomClass(b, ps)>> /\ Nameable(ds, b)
    BY <1>5 DEF BasesRight
  <2>2. PICK b, ps : bases.ancestors = <<CustomClass(b, ps)>> /\ Nameable(ds, b)
    BY <2>1
  <2>3. DOMAIN ds = 1..(at - 1) /\ \A i \in 1..(at - 1) : ds[i] = defs[i]
    <3>1. at - 1 \in Int /\ 1 <= at - 1 /\ at - 1 <= Len(defs) /\ \A i \in 1..(at - 1) : defs[i] \in Range(defs)
      BY <1>1 DEF Range
    <3>2. /\ ds \in Seq(Range(defs)) /\ Len(ds) = at - 1
          /\ \A i \in 1..(at - 1) : ds[i] = defs[i]
      BY <3>1, SubSeqProperties
    <3>. QED
      BY <3>2, LenProperties
  <2>. HIDE DEF ds
  <2>4. b \in 1..(at - 1) /\ b \in DOMAIN defs /\ IsClass(defs[b])
    <3>1. CASE b \in {8, 9}
      BY <1>1, <3>1, PrimFacts DEF IInv, BuiltinsRight
    <3>2. CASE b \in DOMAIN ds /\ IsClass(ds[b])
      BY <1>1, <2>3, <3>2
    <3>. QED
      BY <2>2, <3>1, <3>2 DEF Nameable
  <2>. DEFINE base == CustomClass(b, ps)
              parents == defs[b].ancestors
              others == IF parents = <<>> THEN <<>> ELSE Tail(parents)
  <2>5. base[2] = b /\ IsList(parents) /\ (parents # <<>> => parents[1][2] = b)
    <3>1. base[2] = b
      BY DEF CustomClass
    <3>2. IsList(parents)
      BY <1>1, <2>4 DEF Definition, IsClass
    <3>3. parents # <<>> => parents[1][2] = b
      BY <2>4 DEF IInv, Ancestry, AncestorsStart
    <3>. QED
      BY <3>1, <3>2, <3>3
  <2>6. AncestorIds(b) = {a[2] : a \in Range(parents)}
    BY DEF AncestorIds
  <2>7. rest \in SetToSeqs(Range(others))
    <3>1. bases.ancestors[1][2] = b
      BY <2>2, <2>5
    <3>. QED
      BY <1>3, <1>5, <3>1
  <2>8. ancestors = <<self>> \o <<base>> \o rest
    BY <1>3, <2>2
  <2>. HIDE DEF base, parents
  <2>9. IsList(others) /\ AncestorIds(b) \cup {b} = {a[2] : a \in Range(others)} \cup {b}
    <3>1. CASE parents = <<>>
      BY <2>6, <3>1, EmptyList
    <3>2. CASE parents # <<>>
      <4>1. IsList(Tail(parents)) /\ Range(parents) = {parents[1]} \cup Range(Tail(parents))
        BY <2>5, <3>2, TailList
      <4>2. others = Tail(parents)
        BY <3>2
      <4>. QED
        BY <2>5, <2>6, <3>2, <4>1, <4>2
    <3>. QED
      BY <3>1, <3>2
  <2>. HIDE DEF others
  <2>10. IsList(rest) /\ Range(rest) = Range(others)
    BY <2>7, <2>9, ShuffledList
  <2>11. /\ IsList(ancestors) /\ Range(ancestors) = {self} \cup {base} \cup Range(rest)
         /\ ancestors[1] = self /\ ancestors[2] = base
    <3>1. Joined(<<self>> \o <<base>>, <<self>>, <<base>>)
      BY SingleList, ConcatList
    <3>2. IsList(<<self>> \o <<base>>) /\ Range(<<self>> \o <<base>>) = {self} \cup {base}
      BY <3>1, SingleList DEF Joined
    <3>3. Joined(ancestors, <<self>> \o <<base>>, rest)
      BY <2>8, <2>10, <3>2, ConcatList
    <3>4. /\ Len(<<self>> \o <<base>>) = 2
          /\ (<<self>> \o <<base>>)[1] = self /\ (<<self>> \o <<base>>)[2] = base
      OBVIOUS
    <3>. QED
      BY <3>2, <3>3, <3>4 DEF Joined
  <2>12. ids = {at} \cup {b} \cup AncestorIds(b)
    BY <1>2, <2>5, <2>9, <2>10, <2>11
  <2>13. \A a \in AncestorIds(b) : a \in 1..b /\ IsClass(defs[a]) /\ AncestorIds(a) \subseteq AncestorIds(b)
    BY <2>4 DEF IInv, Ancestry, HierarchyOrdered
  <2>14. ASSUME NEW a \in ids PROVE a \in 1..at /\ IsClass(defs[a]) /\ (a # at => AncestorIds(a) \subseteq ids)
    <3>1. CASE a = at
      BY <1>1, <3>1
    <3>2. CASE a = b
      BY <1>1, <2>4, <2>12, <3>2
    <3>3. CASE a \in AncestorIds(b)
      BY <1>1, <2>4, <2>12, <2>13, <3>3
    <3>. QED
      BY <2>12, <3>1, <3>2, <3>3
  <2>. QED
    BY <1>2, <2>4, <2>5, <2>11, <2>14
<1>. QED
  BY <1>4, <1>5

\* What the analysis of the bases of a class writes.
LEMMA BasesWritten ==
  ASSUME IInv, analyze_top_level_class_definition, IsClass(defs[at]), HasAst(defs[at])
  PROVE  \E ts, ancestors :
           /\ defs' = [defs EXCEPT ![at].type_vars = ts, ![at].ancestors = ancestors]
           /\ pc' \in {"bases", "panic"}
           /\ IsList(ancestors) /\ ancestors[1][2] = at
           /\ \A a \in ClassIds(ancestors) :
                a \in 1..at /\ IsClass(defs[a]) /\ (a # at => AncestorIds(a) \subseteq ClassIds(ancestors))
           /\ Len(ancestors) > 1 => ancestors[2][2] \in 1..(at - 1)
<1>1. /\ pc = "bases" /\ at <= Len(defs)
  BY DEF analyze_top_level_class_definition
<1>2. /\ at \in DOMAIN defs /\ at > builtin_num /\ DOMAIN defs = 1..Len(defs)
      /\ at \in Nat /\ IsList(defs) /\ \A i \in DOMAIN defs : Definition(defs[i])
  <2>1. IsList(defs) /\ at \in Nat /\ at > builtin_num /\ \A i \in DOMAIN defs : Definition(defs[i])
    BY <1>1 DEF IInv, Typed
  <2>. QED
    BY <1>1, <2>1, ListFacts, PrimFacts
<1>. DEFINE env == Env(SubSeq(defs, 1, at - 1), defs[at].mod, {at})
            bases == analyze_class_bases(env, at)
<1>3. PICK ancestors \in analyze_class_ancestors(at, bases) :
        /\ defs' = [defs EXCEPT ![at].type_vars = bases.type_vars, ![at].ancestors = ancestors]
        /\ pc' = IF bases.r = Panic THEN "panic" ELSE pc
  BY Zenon DEF analyze_top_level_class_definition
<1>4. BasesRight(SubSeq(defs, 1, at - 1), bases)
  <2>1. env.defs = SubSeq(defs, 1, at - 1) /\ env.writing = {at}
    BY DEF Env
  <2>2. at \notin DOMAIN SubSeq(defs, 1, at - 1)
    <3>1. at - 1 \in Int /\ 1 <= at - 1 /\ \A i \in 1..(at - 1) : defs[i] \in Range(defs)
      BY <1>2, PrimFacts DEF Range
    <3>2. SubSeq(defs, 1, at - 1) \in Seq(Range(defs)) /\ Len(SubSeq(defs, 1, at - 1)) = at - 1
      BY <3>1, SubSeqProperties
    <3>3. DOMAIN SubSeq(defs, 1, at - 1) = 1..(at - 1)
      BY <3>2, LenProperties
    <3>. QED
      BY <1>2, <3>3
  <2>3. /\ IsList(defs[at].ast.bases)
        /\ \A b \in Range(defs[at].ast.bases) : b.k = "sub" => IsList(b.args)
    BY <1>2 DEF Definition, ClassSyntax, IsClass
  <2>. HIDE DEF env
  <2>. QED
    BY <2>1, <2>2, <2>3, BasesRead
<1>. HIDE DEF bases
<1>5. PICK ids : ids = {a[2] : a \in Range(ancestors)}
  OBVIOUS
<1>6. /\ IsList(ancestors) /\ ancestors[1][2] = at
      /\ \A a \in ids : a \in 1..at /\ IsClass(defs[a]) /\ (a # at => AncestorIds(a) \subseteq ids)
      /\ Len(ancestors) > 1 => ancestors[2][2] \in 1..(at - 1)
  BY <1>1, <1>2, <1>4, <1>5, AncestorsMade
<1>7. ids = ClassIds(ancestors)
  BY <1>5 DEF ClassIds
<1>8. pc' \in {"bases", "panic"}
  BY <1>1, <1>3
<1>. QED
  BY <1>3, <1>6, <1>7, <1>8

\* The bases and ancestors of a class.
LEMMA BasesStep ==
  ASSUME IInv, analyze_top_level_class_definition
  PROVE  IInv' /\ Stable
<1>1. /\ pc = "bases" /\ at <= Len(defs) /\ at' = at + 1
      /\ UNCHANGED <<prog, defined_names, method_class, scopes, extension>>
  BY DEF analyze_top_level_class_definition
<1>2. /\ at \in DOMAIN defs /\ at > builtin_num /\ DOMAIN defs = 1..Len(defs)
      /\ at \in Nat /\ IsList(defs) /\ \A i \in DOMAIN defs : Definition(defs[i])
  <2>1. IsList(defs) /\ at \in Nat /\ at > builtin_num /\ \A i \in DOMAIN defs : Definition(defs[i])
    BY <1>1 DEF IInv, Typed
  <2>. QED
    BY <1>1, <2>1, ListFacts, PrimFacts
<1>3. CASE ~IsClass(defs[at]) \/ ~HasAst(defs[at])
  <2>1. UNCHANGED <<pc, defs>>
    BY <1>3 DEF analyze_top_level_class_definition
  <2>. QED
    BY <1>1, <2>1, Progress, FrameStep
<1>4. CASE IsClass(defs[at]) /\ HasAst(defs[at])
  <2>1. PICK ts, ancestors :
           /\ defs' = [defs EXCEPT ![at].type_vars = ts, ![at].ancestors = ancestors]
           /\ pc' \in {"bases", "panic"}
           /\ IsList(ancestors) /\ ancestors[1][2] = at
           /\ \A a \in ClassIds(ancestors) :
                a \in 1..at /\ IsClass(defs[a]) /\ (a # at => AncestorIds(a) \subseteq ClassIds(ancestors))
    BY <1>4, BasesWritten
  <2>. DEFINE next == [defs[at] EXCEPT !.type_vars = ts, !.ancestors = ancestors]
  <2>0. PICK c, e : c = at /\ e = next
    OBVIOUS
  <2>3. PICK ids : ids = ClassIds(ancestors)
    OBVIOUS
  <2>4. /\ IsList(ancestors) /\ ancestors[1][2] = at
        /\ \A a \in ids : a \in 1..at /\ IsClass(defs[a]) /\ (a # at => AncestorIds(a) \subseteq ids)
    BY <2>1, <2>3
  <2>5. /\ DOMAIN e = ClassFields /\ e.ancestors = ancestors /\ e.methods = defs[at].methods
        /\ Kept(defs[at], e) /\ e.k = "class" /\ e.fields = defs[at].fields /\ e.attributes = defs[at].attributes
    <3>1. DOMAIN defs[at] = ClassFields /\ defs[at].k = "class"
      BY <1>2, <1>4 DEF Definition, IsClass
    <3>. QED
      BY <2>0, <3>1 DEF ClassFields, Kept
  <2>6. defs' = [defs EXCEPT ![c] = e]
    BY <2>0, <2>1
  <2>. HIDE DEF next
  <2>7. Definition(e)
    BY <1>2, <1>4, <2>4, <2>5 DEF Definition, IsClass, HasAst, Kept
  <2>8. Forward /\ ~Unbased(c)'
    <3>1. pc' \in {"bases", "panic"} /\ at' = at + 1
      BY <1>1, <2>1
    <3>. QED
      BY <1>1, <1>2, <2>0, <3>1, PrimFacts DEF Forward, Unbased, Unsigned
  <2>9. AncestorIds(at) = {}
    <3>1. defs[at].ancestors = <<>>
      BY <1>1, <1>2, <1>4, PrimFacts DEF IInv, Ancestry, AncestorsStart, Unbased
    <3>. QED
      BY <3>1, EmptyList DEF AncestorIds
  <2>10. \A d \in DOMAIN defs : IsClass(defs[d]) /\ d # at => at \notin AncestorIds(d)
    <3>1. ASSUME NEW d \in DOMAIN defs, IsClass(defs[d]), d # at, at \in AncestorIds(d) PROVE FALSE
      <4>1. at \in 1..d
        BY <3>1 DEF IInv, Ancestry, HierarchyOrdered
      <4>2. defs[d].ancestors = <<>>
        BY <1>1, <1>2, <3>1, <4>1, PrimFacts DEF IInv, Ancestry, AncestorsStart, Unbased
      <4>. QED
        BY <3>1, <4>2, EmptyList DEF AncestorIds
    <3>. QED
      BY <3>1
  <2>11. /\ c \in DOMAIN defs /\ IsClass(defs[c])
         /\ Kept(defs[c], e) /\ Definition(e) /\ e.methods = defs[c].methods
         /\ ids = ClassIds(e.ancestors)
         /\ \A a \in ids : a \in 1..c /\ IsClass(defs[a]) /\ (a # c => AncestorIds(a) \subseteq ids)
         /\ e.ancestors # <<>> => e.ancestors[1][2] = c
    BY <1>2, <1>4, <2>0, <2>3, <2>4, <2>5, <2>7 DEF ClassIds
  <2>12. /\ AncestorIds(c) \subseteq ids
         /\ c > builtin_num => ~Unbased(c)'
         /\ c <= builtin_num => ids \subseteq {c}
         /\ \A d \in DOMAIN defs : IsClass(defs[d]) /\ d # c /\ c \in AncestorIds(d) => ids \subseteq AncestorIds(d)
    BY <1>2, <2>0, <2>8, <2>9, <2>10, PrimFacts
  <2>. QED
    BY <1>1, <2>6, <2>8, <2>11, <2>12, AncestorsStep
<1>. QED
  BY <1>3, <1>4

\* Exception becomes its own ancestor.
LEMMA EndClasses ==
  ASSUME IInv, end_class_definition
  PROVE  IInv' /\ Stable
<1>. DEFINE self == make_self(<<>>, PrimId("Exception"))
            next == [defs[9] EXCEPT !.ancestors = Append(@, self)]
<1>0. PICK e : e = next
  OBVIOUS
<1>1. /\ pc = "bases" /\ defs' = [defs EXCEPT ![9].ancestors = Append(@, self)]
      /\ (at' = 0 /\ pc' = "failed") \/ (at' = builtin_num + 1 /\ pc' = "members")
      /\ UNCHANGED <<prog, defined_names, method_class, scopes, extension>>
  BY PrimFacts DEF end_class_definition, Stop, Step
<1>2. /\ 9 \in DOMAIN defs /\ IsClass(defs[9]) /\ Definition(defs[9]) /\ 9 <= builtin_num
      /\ AncestorIds(9) \subseteq {9}
  <2>1. IsList(defs) /\ builtin_num = 18 /\ 18 <= Len(defs)
    BY PrimFacts DEF IInv, Typed
  <2>2. 9 \in DOMAIN defs /\ 9 \in 1..builtin_num
    BY <2>1, ListFacts
  <2>. QED
    BY <2>1, <2>2, PrimFacts DEF IInv, Typed, BuiltinsRight
<1>3. self[2] = 9
  BY PrimFacts DEF make_self, CustomClass
<1>. HIDE DEF self
<1>4. PICK old : old = defs[9].ancestors
  OBVIOUS
<1>5. IsList(old) /\ AncestorIds(9) = {a[2] : a \in Range(old)} /\ (old # <<>> => old[1][2] = 9)
  BY <1>2, <1>4 DEF AncestorIds, Definition, IsClass, IInv, Ancestry, AncestorsStart
<1>6. /\ IsList(Append(old, self)) /\ Range(Append(old, self)) = Range(old) \cup {self}
      /\ Append(old, self)[1][2] = 9
  <2>1. /\ IsList(Append(old, self)) /\ Range(Append(old, self)) = Range(old) \cup {self}
        /\ \A i \in 1..Len(old) : Append(old, self)[i] = old[i]
        /\ Append(old, self)[Len(old) + 1] = self
    BY <1>5, AppendList
  <2>2. CASE old = <<>>
    BY <1>3, <2>1, <2>2, EmptyList
  <2>3. CASE old # <<>>
    <3>1. 1 \in 1..Len(old)
      BY <1>5, <2>3, TailList, ListFacts
    <3>. QED
      BY <1>5, <2>1, <2>3, <3>1
  <2>. QED
    BY <2>1, <2>2, <2>3
<1>7. /\ DOMAIN e = ClassFields /\ e.ancestors = Append(old, self) /\ e.methods = defs[9].methods
      /\ Kept(defs[9], e) /\ e.k = "class" /\ e.fields = defs[9].fields /\ e.attributes = defs[9].attributes
  <2>1. DOMAIN defs[9] = ClassFields /\ defs[9].k = "class"
    BY <1>2 DEF Definition, IsClass
  <2>. QED
    BY <1>0, <1>4, <2>1 DEF ClassFields, Kept
<1>8. defs' = [defs EXCEPT ![9] = e]
  BY <1>0, <1>1
<1>. HIDE DEF next
<1>9. Definition(e)
  BY <1>2, <1>6, <1>7 DEF Definition, IsClass, HasAst, Kept
<1>10. PICK ids : ids = {a[2] : a \in Range(e.ancestors)}
  OBVIOUS
<1>11. ids = {9} /\ ids = ClassIds(e.ancestors)
  <2>1. ids = AncestorIds(9) \cup {9}
    BY <1>3, <1>5, <1>6, <1>7, <1>10
  <2>. QED
    BY <1>2, <1>10, <2>1 DEF ClassIds
<1>12. Forward
  BY <1>1, Progress
<1>13. /\ 9 \in DOMAIN defs /\ IsClass(defs[9]) /\ AncestorIds(9) \subseteq ids
       /\ Kept(defs[9], e) /\ Definition(e) /\ e.methods = defs[9].methods
       /\ e.ancestors # <<>> => e.ancestors[1][2] = 9
  BY <1>2, <1>6, <1>7, <1>9, <1>11
<1>14. /\ UNCHANGED <<prog, scopes, method_class, defined_names, extension>>
       /\ \A a \in ids : a \in 1..9 /\ IsClass(defs[a]) /\ (a # 9 => AncestorIds(a) \subseteq ids)
       /\ 9 > builtin_num => ~Unbased(9)'
       /\ 9 <= builtin_num => ids \subseteq {9}
       /\ \A d \in DOMAIN defs : IsClass(defs[d]) /\ d # 9 /\ 9 \in AncestorIds(d) => ids \subseteq AncestorIds(d)
  BY <1>1, <1>2, <1>11, PrimFacts
<1>. QED
  BY <1>8, <1>11, <1>12, <1>13, <1>14, AncestorsStep

-----------------------------------------------------------------------------
(* The members of a class                                                  *)

\* The methods that a class declares.
OwnIds(id) == {m.id : m \in Range(defs[id].methods)}
MembersFields == {"r", "sigs", "fields", "attributes", "seen", "new"}
\* What the members read so far have given: lists of fields and attributes, and signatures of methods of
\* the class alone.
FieldsListed(a) == DOMAIN a = MembersFields /\ IsList(a.fields) /\ IsList(a.attributes)
MembersRight(id, members) ==
  FieldsListed(members) /\ DOMAIN members.sigs \subseteq {0} \cup OwnIds(id)

\* A field writes no signature.
LEMMA FieldAdded ==
  ASSUME NEW env, NEW id, NEW acc, NEW s, MembersRight(id, acc)
  PROVE  MembersRight(id, analyze_field(env, id, acc, s))
<1>. DEFINE f == FieldAnnotation(s)
            parsed == parse_ast(env, [c \in {id} |-> defs[id].type_vars], f.ann)
            after == analyze_field(env, id, acc, s)
<1>1. after = IF s.target = "" \/ s.target \in acc.seen THEN [acc EXCEPT !.r = Error]
              ELSE IF f.kind = "ignored" THEN [acc EXCEPT !.seen = @ \cup {s.target}]
              ELSE IF f.kind = "attribute" /\ s.value.k # "constant" THEN [acc EXCEPT !.r = Error]
              ELSE ParsedField(id, acc, s, f, parsed)
  BY Zenon DEF analyze_field, DeclaredField
<1>. HIDE DEF f, parsed, after
<1>0. FieldsListed(acc)
  BY DEF MembersRight
<1>2. \A x : FieldsListed(WithField(acc, s, f, x)) /\ WithField(acc, s, f, x).sigs = acc.sigs
  <2>1. ASSUME NEW x PROVE FieldsListed(WithField(acc, s, f, x)) /\ WithField(acc, s, f, x).sigs = acc.sigs
    <3>. DEFINE fields == Append(acc.fields, [name |-> s.target, ann |-> x, mutable |-> f.mutable])
                attributes == Append(acc.attributes, [name |-> s.target, ann |-> x, value |-> s.value])
                seen == acc.seen \cup {s.target}
                a == WithField(acc, s, f, x)
    <3>1. IsList(fields) /\ IsList(attributes)
      BY <1>0, AppendList DEF FieldsListed
    <3>2. a = IF f.kind = "field" THEN [acc EXCEPT !.seen = seen, !.fields = fields]
              ELSE [acc EXCEPT !.seen = seen, !.attributes = attributes]
      BY Zenon DEF WithField
    <3>. HIDE DEF fields, attributes, seen, a
    <3>3. FieldsListed(a) /\ a.sigs = acc.sigs
      BY <1>0, <3>1, <3>2 DEF FieldsListed, MembersFields
    <3>. QED
      BY <3>3 DEF a
  <2>. QED
    BY <2>1
<1>3. LET a == ParsedField(id, acc, s, f, parsed) IN FieldsListed(a) /\ a.sigs = acc.sigs
  <2>. DEFINE vs == VarsContained(parsed)
              declared == Range(defs[id].type_vars)
              resolved == resolve_auto_field_type(id, s.target)
              a == ParsedField(id, acc, s, f, parsed)
  <2>1. a = AnnotatedField(acc, s, f, parsed, vs, declared, resolved)
    BY Zenon DEF ParsedField
  <2>. HIDE DEF vs, declared, resolved, a
  <2>2. CASE Failed(parsed)
    <3>1. a = [acc EXCEPT !.r = parsed]
      BY <2>1, <2>2, Zenon DEF AnnotatedField
    <3>2. FieldsListed(a) /\ a.sigs = acc.sigs
      BY <1>0, <3>1 DEF FieldsListed, MembersFields
    <3>. QED
      BY <3>2 DEF a
  <2>3. CASE ~Failed(parsed) /\ HasAuto(parsed, vs, declared) /\ resolved # <<"none">>
    <3>1. a = WithField(acc, s, f, resolved[2])
      BY <2>1, <2>3, Zenon DEF AnnotatedField
    <3>. QED
      BY <1>2, <3>1 DEF a
  <2>4. CASE ~Failed(parsed) /\ ~(HasAuto(parsed, vs, declared) /\ resolved # <<"none">>)
    <3>1. a = IF Bounded(vs) \subseteq declared THEN [WithField(acc, s, f, parsed) EXCEPT !.new = @ \cup {parsed}]
              ELSE [acc EXCEPT !.r = Error]
      BY <2>1, <2>4, Zenon DEF AnnotatedField
    <3>. DEFINE w == WithField(acc, s, f, parsed)
    <3>2. FieldsListed(w) /\ w.sigs = acc.sigs
      BY <1>2
    <3>. HIDE DEF w
    <3>3. a = IF Bounded(vs) \subseteq declared THEN [w EXCEPT !.new = @ \cup {parsed}]
              ELSE [acc EXCEPT !.r = Error]
      BY <3>1 DEF w
    <3>4. FieldsListed(a) /\ a.sigs = acc.sigs
      BY <1>0, <3>2, <3>3 DEF FieldsListed, MembersFields
    <3>. QED
      BY <3>4 DEF a
  <2>. QED
    BY <2>2, <2>3, <2>4
<1>4. FieldsListed(after) /\ after.sigs = acc.sigs
  <2>. DEFINE a == ParsedField(id, acc, s, f, parsed)
  <2>1. FieldsListed(a) /\ a.sigs = acc.sigs
    BY <1>3
  <2>. HIDE DEF a
  <2>2. after = IF s.target = "" \/ s.target \in acc.seen THEN [acc EXCEPT !.r = Error]
                ELSE IF f.kind = "ignored" THEN [acc EXCEPT !.seen = @ \cup {s.target}]
                ELSE IF f.kind = "attribute" /\ s.value.k # "constant" THEN [acc EXCEPT !.r = Error]
                ELSE a
    BY <1>1, Zenon DEF a
  <2>. QED
    BY <1>0, <2>1, <2>2 DEF FieldsListed, MembersFields
<1>. QED
  BY <1>4 DEF MembersRight, after

\* A method writes its own signature.
LEMMA MethodAdded ==
  ASSUME NEW env, NEW id, NEW acc, NEW m, MembersRight(id, acc)
  PROVE  MembersRight(id, analyze_method(env, id, acc, m))
<1>. DEFINE locked == [c \in {id} |-> defs[id].type_vars]
            params == IF m.static THEN m.params ELSE Tail(m.params)
            anns == [i \in DOMAIN params |-> Annotation(env, locked, params[i])]
            ret == Returned(env, locked, m.ret)
            r == FirstFailure(Append([i \in DOMAIN params |->
                   Then(anns[i], CheckedDefault(DefaultOf(params, m.defaults, i), anns[i]))], ret))
            sig == Signature([i \in DOMAIN params |->
                                Arg(params[i].name, anns[i], DefaultOf(params, m.defaults, i), FALSE)],
                             ret, UNION {VarsContained(a) : a \in Range(anns) \cup {ret}})
            own == MethodId(defs[id], m.name)
            read == acc.new \cup Range(anns) \cup {ret}
            after == analyze_method(env, id, acc, m)
<1>1. after = IF BadReceiver(m) \/ (m.params # <<>> /\ Repeated(Tail(m.params))) THEN [acc EXCEPT !.r = Error]
              ELSE ParsedMethod(id, acc, m, params, anns, ret)
  BY Zenon DEF analyze_method
<1>2. ParsedMethod(id, acc, m, params, anns, ret) =
        IF Failed(r) THEN [acc EXCEPT !.r = r]
        ELSE [acc EXCEPT !.sigs = Put(@, own, sig), !.new = read]
  BY Zenon DEF ParsedMethod, CheckedMethod
<1>. HIDE DEF locked, params, anns, ret, r, sig, own, read, after
<1>3. own \in {0} \cup OwnIds(id)
  BY DEF own, MethodId, OwnIds
<1>4. DOMAIN Put(acc.sigs, own, sig) = DOMAIN acc.sigs \cup {own}
  BY DEF Put
<1>5. FieldsListed(after) /\ after.sigs \in {acc.sigs, Put(acc.sigs, own, sig)}
  BY <1>1, <1>2 DEF MembersRight, FieldsListed, MembersFields
<1>. QED
  BY <1>3, <1>4, <1>5 DEF MembersRight, after

\* One more member.
LEMMA MemberAdded ==
  ASSUME NEW env, NEW id, NEW acc, NEW s, MembersRight(id, acc)
  PROVE  MembersRight(id, WithMember(env, id, acc, s))
<1>. DEFINE after == WithMember(env, id, acc, s)
<1>1. CASE Failed(acc.r)
  BY <1>1 DEF WithMember
<1>2. CASE ~Failed(acc.r) /\ s.k = "def"
  <2>1. after = analyze_method(env, id, acc, s)
    BY <1>2, Zenon DEF WithMember
  <2>. QED
    BY <2>1, MethodAdded
<1>3. CASE ~Failed(acc.r) /\ s.k = "ann"
  <2>1. after = analyze_field(env, id, acc, s)
    BY <1>3 DEF WithMember
  <2>. QED
    BY <2>1, FieldAdded
<1>4. CASE ~Failed(acc.r) /\ s.k \in {"assign", "expr", "pass"}
  BY <1>4 DEF WithMember
<1>5. CASE ~Failed(acc.r) /\ s.k \notin {"def", "ann", "assign", "expr", "pass"}
  <2>1. after = [acc EXCEPT !.r = Error]
    BY <1>5 DEF WithMember
  <2>. HIDE DEF after
  <2>2. FieldsListed(after) /\ after.sigs = acc.sigs
    BY <2>1 DEF MembersRight, FieldsListed, MembersFields
  <2>. QED
    BY <2>2 DEF MembersRight, after
<1>. QED
  BY <1>1, <1>2, <1>3, <1>4, <1>5

\* All the members of a class.
LEMMA MembersRead ==
  ASSUME NEW env, NEW id, IsList(defs[id].ast.body)
  PROVE  MembersRight(id, analyze_single_class_methods_fields(env, id))
<1>. DEFINE body == defs[id].ast.body
            N == Len(body)
            start == [r |-> <<"ok">>, sigs |-> <<>>, fields |-> <<>>, attributes |-> <<>>, seen |-> {}, new |-> {}]
            Fold(g, k) == g = [n \in 0..k |-> IF n = 0 THEN start ELSE WithMember(env, id, g[n - 1], body[n])]
<1>1. N \in Nat
  BY ListFacts
<1>. HIDE DEF N, start
<1>2. ASSUME NEW k \in Nat, NEW g, Fold(g, k) PROVE \E h : Fold(h, k + 1)
  <2>. DEFINE h == [n \in 0..(k + 1) |-> IF n = k + 1 THEN WithMember(env, id, g[n - 1], body[n]) ELSE g[n]]
  <2>1. \A n \in 0..k : g[n] = IF n = 0 THEN start ELSE WithMember(env, id, g[n - 1], body[n])
    BY <1>2, Zenon
  <2>2. \A n \in 0..k : h[n] = g[n]
    OBVIOUS
  <2>3. h[k + 1] = WithMember(env, id, g[(k + 1) - 1], body[k + 1])
    <3>1. k + 1 \in 0..(k + 1)
      OBVIOUS
    <3>. QED
      BY <3>1, Zenon
  <2>4. ASSUME NEW n \in 0..(k + 1) PROVE h[n] = IF n = 0 THEN start ELSE WithMember(env, id, h[n - 1], body[n])
    <3>. HIDE DEF h
    <3>1. CASE n = k + 1
      BY <2>2, <2>3, <3>1
    <3>2. CASE n # k + 1
      <4>1. n \in 0..k /\ (n # 0 => n - 1 \in 0..k)
        BY <3>2
      <4>. QED
        BY <2>1, <2>2, <4>1
    <3>. QED
      BY <3>1, <3>2
  <2>5. h = [n \in 0..(k + 1) |-> h[n]]
    OBVIOUS
  <2>. HIDE DEF h
  <2>6. Fold(h, k + 1)
    BY <2>4, <2>5, Zenon
  <2>. QED
    BY <2>6
<1>3. \E g : Fold(g, 0)
  <2>. DEFINE g == [n \in 0..0 |-> start]
  <2>1. \A n \in 0..0 : n = 0
    OBVIOUS
  <2>2. Fold(g, 0)
    BY <2>1, Zenon
  <2>. QED
    BY <2>2
<1>. HIDE DEF Fold
<1>4. \E g : Fold(g, N)
  <2>. DEFINE P == {k \in Nat : \E g : Fold(g, k)}
  <2>1. 0 \in P /\ \A k \in Nat : k \in P => k + 1 \in P
    BY <1>2, <1>3
  <2>2. N \in P
    BY <1>1, <2>1, Climb
  <2>. QED
    BY <2>2
<1>. DEFINE after == CHOOSE g : Fold(g, N)
<1>5. Fold(after, N)
  BY <1>4, Zenon
<1>6. analyze_single_class_methods_fields(env, id) = after[N]
  BY Zenon DEF analyze_single_class_methods_fields, Fold, N, start
<1>. HIDE DEF after
<1>7. after[0] = start /\ \A n \in 1..N : after[n] = WithMember(env, id, after[n - 1], body[n])
  <2>1. \A n \in 0..N : after[n] = IF n = 0 THEN start ELSE WithMember(env, id, after[n - 1], body[n])
    BY <1>5, Zenon DEF Fold
  <2>. QED
    BY <1>1, <2>1
<1>. DEFINE P == {k \in Nat : MembersRight(id, after[k])}
<1>8. 0 \in P
  <2>1. FieldsListed(start) /\ DOMAIN start.sigs = {}
    BY EmptyList DEF FieldsListed, MembersFields, start
  <2>. QED
    BY <1>7, <2>1 DEF MembersRight
<1>9. ASSUME NEW n \in Nat, n \in P, n < N PROVE n + 1 \in P
  <2>1. n + 1 \in 1..N /\ (n + 1) - 1 = n
    BY <1>1, <1>9
  <2>2. after[n + 1] = WithMember(env, id, after[n], body[n + 1])
    BY <1>7, <2>1
  <2>. QED
    BY <1>9, <2>1, <2>2, MemberAdded
<1>10. N \in P
  BY <1>1, <1>8, <1>9, Climb
<1>. QED
  BY <1>6, <1>10

\* The definitions after a class has got its members keep what they are, and only its own methods
\* have signatures they had not.
Signed(list) ==
  /\ IsList(list) /\ DOMAIN list = DOMAIN defs
  /\ \A i \in DOMAIN defs :
       /\ Kept(defs[i], list[i]) /\ Definition(list[i])
       /\ IsClass(defs[i]) => /\ list[i].methods = defs[i].methods /\ list[i].ancestors = defs[i].ancestors
                              /\ i # at => list[i] = defs[i]
       /\ IsFunction(defs[i]) /\ i \notin OwnIds(at) => list[i] = defs[i]

\* The members are written.
LEMMA MembersWritten ==
  ASSUME IInv, pc = "members", at \in DOMAIN defs, IsClass(defs[at]), HasAst(defs[at]),
         NEW members, MembersRight(at, members)
  PROVE  Signed(WithMembers(at, members))
<1>. DEFINE list == WithMembers(at, members)
<1>1. /\ IsList(defs) /\ Len(defs) \in Nat /\ DOMAIN defs = 1..Len(defs) /\ at > builtin_num
      /\ \A i \in DOMAIN defs : Definition(defs[i])
  <2>1. IsList(defs) /\ at > builtin_num /\ \A i \in DOMAIN defs : Definition(defs[i])
    BY DEF IInv, Typed
  <2>. QED
    BY <2>1, ListFacts
<1>2. DOMAIN list = DOMAIN defs /\ IsList(list)
  <2>1. DOMAIN list = DOMAIN defs /\ list = [i \in DOMAIN defs |-> list[i]]
    BY DEF WithMembers
  <2>. HIDE DEF list
  <2>2. list = [i \in 1..Len(defs) |-> list[i]]
    BY <1>1, <2>1
  <2>. QED
    BY <1>1, <2>1, <2>2, ListOfFunction
<1>3. \A i \in DOMAIN members.sigs : i \in DOMAIN defs => i \in OwnIds(at) /\ IsFunction(defs[i])
  <2>1. ASSUME NEW i \in DOMAIN members.sigs, i \in DOMAIN defs PROVE i \in OwnIds(at) /\ IsFunction(defs[i])
    <3>1. i \in OwnIds(at)
      BY <1>1, <2>1 DEF MembersRight
    <3>2. PICK m \in Range(defs[at].methods) : m.id = i
      BY <3>1 DEF OwnIds
    <3>3. Unsigned(at)
      BY <1>1, PrimFacts DEF Unsigned, IInv, Typed
    <3>4. i \in DOMAIN method_class
      BY <1>1, <3>2, <3>3 DEF IInv, Pending
    <3>. QED
      BY <3>1, <3>4 DEF IInv, Tables, MethodsOwned
  <2>. QED
    BY <2>1
<1>4. list[at] = [defs[at] EXCEPT !.fields = members.fields, !.attributes = members.attributes]
  BY Zenon DEF WithMembers
<1>5. \A i \in DOMAIN defs : i # at /\ i \in DOMAIN members.sigs =>
        list[i] = [defs[i] EXCEPT !.sig = members.sigs[i], !.var_id = Bounded(members.sigs[i].vars)]
  BY Zenon DEF WithMembers
<1>6. \A i \in DOMAIN defs : i # at /\ i \notin DOMAIN members.sigs => list[i] = defs[i]
  BY DEF WithMembers
<1>. HIDE DEF list
<1>7. ASSUME NEW i \in DOMAIN defs
      PROVE  /\ Kept(defs[i], list[i]) /\ Definition(list[i])
             /\ IsClass(defs[i]) => /\ list[i].methods = defs[i].methods /\ list[i].ancestors = defs[i].ancestors
                                    /\ i # at => list[i] = defs[i]
             /\ IsFunction(defs[i]) /\ i \notin OwnIds(at) => list[i] = defs[i]
  <2>1. CASE i = at
    <3>. DEFINE d == defs[at]
                e == list[at]
    <3>1. DOMAIN d = ClassFields /\ d.k = "class" /\ IsList(d.methods) /\ IsList(d.ancestors)
          /\ (HasAst(d) => ClassSyntax(d.ast))
      BY <1>1 DEF Definition, IsClass
    <3>2. e = [d EXCEPT !.fields = members.fields, !.attributes = members.attributes]
      BY <1>4
    <3>. HIDE DEF d, e
    <3>3. /\ DOMAIN e = ClassFields /\ e.k = d.k /\ e.name = d.name /\ e.mod = d.mod /\ e.ast = d.ast
          /\ e.methods = d.methods /\ e.ancestors = d.ancestors
          /\ e.fields = members.fields /\ e.attributes = members.attributes
      BY <3>1, <3>2 DEF ClassFields
    <3>4. Kept(d, e) /\ Definition(e)
      BY <3>1, <3>3 DEF Kept, Definition, HasAst, MembersRight, FieldsListed
    <3>5. ~IsFunction(d)
      BY <3>1 DEF IsFunction
    <3>. QED
      BY <2>1, <3>3, <3>4, <3>5 DEF d, e
  <2>2. CASE i # at /\ i \in DOMAIN members.sigs
    <3>. DEFINE d == defs[i]
                e == list[i]
                sig == members.sigs[i]
                bounded == Bounded(members.sigs[i].vars)
    <3>1. i \in OwnIds(at) /\ d.k = "function" /\ DOMAIN d = FunctionFields
      BY <1>1, <1>3, <2>2 DEF Definition, IsFunction
    <3>2. e = [d EXCEPT !.sig = sig, !.var_id = bounded]
      BY <1>5, <2>2
    <3>. HIDE DEF d, e, sig, bounded
    <3>3. DOMAIN e = FunctionFields /\ e.k = d.k /\ e.name = d.name /\ e.mod = d.mod /\ e.ast = d.ast
      BY <3>1, <3>2 DEF FunctionFields
    <3>4. Kept(d, e) /\ Definition(e)
      BY <3>1, <3>3 DEF Kept, Definition
    <3>5. ~IsClass(d)
      BY <3>1 DEF IsClass
    <3>. QED
      BY <3>1, <3>4, <3>5 DEF d, e
  <2>3. CASE i # at /\ i \notin DOMAIN members.sigs
    BY <1>1, <1>6, <2>3 DEF Kept
  <2>. QED
    BY <2>1, <2>2, <2>3
<1>. QED
  BY <1>2, <1>7 DEF Signed, list

\* A class that has got its members, and the methods of its parent, keeps the invariant.
LEMMA MembersKept ==
  ASSUME IInv, pc = "members", pc' = "members", at' = at + 1,
         at \in DOMAIN defs, IsClass(defs[at]), HasAst(defs[at]),
         UNCHANGED <<prog, scopes, method_class, defined_names, extension>>,
         IsList(defs'), DOMAIN defs' = DOMAIN defs,
         \A i \in DOMAIN defs :
           /\ Kept(defs[i], defs'[i]) /\ Definition(defs'[i])
           /\ IsClass(defs[i]) => /\ defs'[i].ancestors = defs[i].ancestors
                                  /\ i # at => defs'[i].methods = defs[i].methods
           /\ IsFunction(defs[i]) /\ i \notin OwnIds(at) => defs'[i] = defs[i],
         \A m \in Range(defs'[at].methods) : Inherits(at, m)
  PROVE  IInv' /\ Stable
<1>0. PICK id : id = at
  OBVIOUS
<1>1. /\ IsList(defs) /\ Len(defs) \in Nat /\ DOMAIN defs = 1..Len(defs) /\ builtin_num <= Len(defs)
      /\ at > builtin_num /\ at \in Nat /\ builtin_num = 18 /\ Len(defs') = Len(defs)
  <2>1. IsList(defs) /\ at > builtin_num /\ at \in Nat /\ builtin_num <= Len(defs)
    BY DEF IInv, Typed
  <2>2. Len(defs) \in Nat /\ DOMAIN defs = 1..Len(defs) /\ Len(defs') \in Nat /\ DOMAIN defs' = 1..Len(defs')
    BY <2>1, ListFacts
  <2>. QED
    BY <2>1, <2>2, PrimFacts
<1>2. \A i \in DOMAIN defs : /\ IsClass(defs'[i]) <=> IsClass(defs[i])
                             /\ HasAst(defs'[i]) <=> HasAst(defs[i])
                             /\ IsFunction(defs'[i]) <=> IsFunction(defs[i])
  BY DEF Kept, IsClass, HasAst, IsFunction
<1>3. \A i \in DOMAIN defs : IsClass(defs[i]) => AncestorIds(i)' = AncestorIds(i)
  BY DEF AncestorIds
<1>4. Grown(defs, defs')
  BY DEF Grown
<1>5. /\ Unsigned(at)
      /\ \A c \in Nat : /\ Unbased(c)' => Unbased(c)
                        /\ Unsigned(c)' => Unsigned(c) /\ c # at
  BY <1>1 DEF Unbased, Unsigned
<1>6. \A i \in OwnIds(at) : i \in DOMAIN method_class /\ method_class[i] = at /\ ~defs[i].sig.known
  BY <1>1, <1>5 DEF IInv, Pending, OwnIds
<1>7. Typed'
  BY <1>1 DEF IInv, Typed
<1>8. BuiltinsRight'
  <2>1. PrimId("Option") \in DOMAIN defs /\ PrimId("Exception") \in DOMAIN defs
    BY <1>1, PrimFacts
  <2>2. \A i \in 1..builtin_num : i \in DOMAIN defs
    BY <1>1
  <2>. QED
    BY <1>2, <1>3, <2>1, <2>2 DEF IInv, BuiltinsRight
<1>9. Tables'
  <2>1. \A i \in DOMAIN defs' \ DOMAIN defs : ~Declared(defs'[i])
    OBVIOUS
  <2>. QED
    BY <1>4, <2>1, TablesKept DEF IInv
<1>10. ExtensionRight'
  BY <1>4, ExtensionKept DEF IInv
<1>11. AncestorsStart'
  <2>1. \A c \in DOMAIN defs : Unbased(c)' => Unbased(c)
    BY <1>1, <1>5
  <2>. QED
    BY <1>2, <2>1 DEF IInv, Ancestry, AncestorsStart
<1>12. HierarchyOrdered'
  <2>1. ASSUME NEW c \in DOMAIN defs, IsClass(defs[c]), NEW a \in AncestorIds(c)
        PROVE  a \in 1..c /\ IsClass(defs'[a]) /\ AncestorIds(a)' \subseteq AncestorIds(c)
    <3>1. a \in 1..c /\ IsClass(defs[a]) /\ AncestorIds(a) \subseteq AncestorIds(c)
      BY <2>1 DEF IInv, Ancestry, HierarchyOrdered
    <3>2. a \in DOMAIN defs
      BY <1>1, <3>1
    <3>. QED
      BY <1>2, <1>3, <3>1, <3>2
  <2>. QED
    BY <1>2, <1>3, <2>1 DEF HierarchyOrdered
<1>13. MethodsRight'
  <2>1. ASSUME NEW c \in DOMAIN defs, IsClass(defs[c]), NEW m \in Range(defs'[c].methods)
        PROVE  Inherits(c, m)'
    <3>1. Inherits(c, m)
      <4>1. CASE c = at
        BY <2>1, <4>1
      <4>2. CASE c # at
        BY <2>1, <4>2 DEF IInv, MethodsRight
      <4>. QED
        BY <4>1, <4>2
    <3>2. m.id \in DOMAIN method_class => m.id \in DOMAIN defs
      BY DEF IInv, Tables, MethodsOwned
    <3>. QED
      BY <1>3, <2>1, <3>1, <3>2 DEF Inherits, Kept
  <2>. QED
    BY <1>2, <2>1 DEF MethodsRight
<1>14. Pending'
  <2>1. ASSUME NEW c \in DOMAIN defs, IsClass(defs[c]), c > builtin_num, Unsigned(c)',
               NEW m \in Range(defs'[c].methods)
        PROVE  m.id \in DOMAIN method_class /\ method_class[m.id] = c /\ ~defs'[m.id].sig.known
    <3>1. c # at /\ Unsigned(c) /\ m \in Range(defs[c].methods)
      BY <1>1, <1>5, <2>1
    <3>2. m.id \in DOMAIN method_class /\ method_class[m.id] = c /\ ~defs[m.id].sig.known
      BY <2>1, <3>1 DEF IInv, Pending
    <3>3. m.id \in DOMAIN defs /\ IsFunction(defs[m.id])
      BY <3>2 DEF IInv, Tables, MethodsOwned
    <3>4. m.id \notin OwnIds(at)
      BY <1>6, <3>1, <3>2
    <3>. QED
      BY <3>2, <3>3, <3>4
  <2>. QED
    BY <1>2, <2>1 DEF Pending
<1>15. Stable
  BY <1>6 DEF Stable, Kept
<1>. QED
  BY <1>7, <1>8, <1>9, <1>10, <1>11, <1>12, <1>13, <1>14, <1>15 DEF IInv, Ancestry

\* An entry of the methods of a class that inherits is one of its own or of its parent's, and
\* the parent's names are all there.
LEMMA OverriddenList ==
  ASSUME NEW parents, IsList(parents), NEW own, IsList(own)
  PROVE  LET all == Overridden(parents, own)
         IN /\ IsList(all) /\ Range(all) \subseteq Range(parents) \cup Range(own)
            /\ NamesOf(parents) \subseteq NamesOf(all)
<1>. DEFINE s == [i \in DOMAIN parents |-> IF parents[i].name \in NamesOf(own)
                                           THEN CHOOSE m \in Range(own) : m.name = parents[i].name ELSE parents[i]]
            T == {m \in Range(own) : m.name \notin NamesOf(parents)}
<1>1. Overridden(parents, own) = s \o Selected(own, T)
  BY Zenon DEF Overridden
<1>2. Len(parents) \in Nat /\ DOMAIN parents = 1..Len(parents)
  BY ListFacts
<1>3. IsList(s) /\ DOMAIN s = DOMAIN parents
  <2>1. s = [i \in 1..Len(parents) |-> s[i]]
    BY <1>2
  <2>. HIDE DEF s
  <2>. QED
    BY <1>2, <2>1, ListOfFunction
<1>4. ASSUME NEW x \in Range(s) PROVE x \in Range(parents) \cup Range(own)
  <2>1. PICK i \in DOMAIN parents : x = s[i]
    BY <1>3 DEF Range
  <2>2. CASE parents[i].name \in NamesOf(own)
    <3>1. \E m \in Range(own) : m.name = parents[i].name
      BY <2>2 DEF NamesOf
    <3>2. x = CHOOSE m \in Range(own) : m.name = parents[i].name
      BY <2>1, <2>2
    <3>. QED
      BY <3>1, <3>2
  <2>3. CASE parents[i].name \notin NamesOf(own)
    BY <2>1, <2>3 DEF Range
  <2>. QED
    BY <2>2, <2>3
<1>7. ASSUME NEW x \in NamesOf(parents) PROVE \E y \in Range(s) : y.name = x
  <2>1. PICK i \in DOMAIN parents : x = parents[i].name
    BY <1>7 DEF NamesOf, Range
  <2>2. s[i] \in Range(s)
    BY <1>3 DEF Range
  <2>3. s[i].name = x
    <3>1. CASE parents[i].name \in NamesOf(own)
      <4>1. \E m \in Range(own) : m.name = parents[i].name
        BY <3>1 DEF NamesOf
      <4>2. s[i] = CHOOSE m \in Range(own) : m.name = parents[i].name
        BY <3>1
      <4>. QED
        BY <2>1, <4>1, <4>2
    <3>2. CASE parents[i].name \notin NamesOf(own)
      BY <2>1, <3>2
    <3>. QED
      BY <3>1, <3>2
  <2>. QED
    BY <2>2, <2>3
<1>. HIDE DEF s, T
<1>5. IsList(Selected(own, T)) /\ Range(Selected(own, T)) \subseteq Range(own)
  BY SelectedList
<1>6. Joined(s \o Selected(own, T), s, Selected(own, T))
  BY <1>3, <1>5, ConcatList
<1>8. NamesOf(parents) \subseteq NamesOf(s \o Selected(own, T))
  BY <1>6, <1>7 DEF Joined, NamesOf
<1>. QED
  BY <1>1, <1>4, <1>5, <1>6, <1>8 DEF Joined

\* The class at is a child of a class before it, that it extends in the definitions list.
Extended(list) ==
  LET p == ParentId(at)
  IN Len(defs[at].ancestors) > 1 /\ p # at => Extends(list[at], defs[p])
\* The definitions after a class has also got the methods of its parent.
Membered(list) ==
  /\ IsList(list) /\ DOMAIN list = DOMAIN defs
  /\ \A i \in DOMAIN defs :
       /\ Kept(defs[i], list[i]) /\ Definition(list[i])
       /\ IsClass(defs[i]) => /\ list[i].ancestors = defs[i].ancestors
                              /\ i # at => list[i] = defs[i]
       /\ IsFunction(defs[i]) /\ i \notin OwnIds(at) => list[i] = defs[i]
  /\ \A m \in Range(list[at].methods) : Inherits(at, m)

\* A class inherits from its parent what that declares or inherits.
LEMMA InheritedRight ==
  ASSUME IInv, pc = "members", at \in DOMAIN defs, IsClass(defs[at]), HasAst(defs[at]),
         NEW list, Signed(list)
  PROVE  /\ Membered(Inherited(list, at)[2])
         /\ Inherited(list, at)[1] # "error" => Extended(Inherited(list, at)[2])
<1>. DEFINE after == Inherited(list, at)[2]
<1>1. /\ IsList(defs) /\ Len(defs) \in Nat /\ DOMAIN defs = 1..Len(defs)
      /\ \A i \in DOMAIN defs : Definition(defs[i])
  <2>1. IsList(defs) /\ \A i \in DOMAIN defs : Definition(defs[i])
    BY DEF IInv, Typed
  <2>. QED
    BY <2>1, ListFacts
<1>2. \A c \in DOMAIN defs : IsClass(defs[c]) => \A m \in Range(defs[c].methods) : Inherits(c, m)
  BY DEF IInv, MethodsRight
<1>3. Membered(list)
  BY <1>2 DEF Membered, Signed
<1>4. CASE ~(Len(list[at].ancestors) > 1)
  <2>1. Inherited(list, at) = <<"ok", list>>
    BY <1>4, Zenon DEF Inherited
  <2>2. ~(Len(defs[at].ancestors) > 1)
    BY <1>4 DEF Signed
  <2>. QED
    BY <1>3, <2>1, <2>2 DEF Extended
<1>5. CASE Len(list[at].ancestors) > 1 /\ analyze_single_class_ancestors(list, at) = <<"error", list>>
  <2>1. Inherited(list, at) = <<"error", list>>
    BY <1>5, Zenon DEF Inherited
  <2>. QED
    BY <1>3, <2>1
<1>6. CASE Len(list[at].ancestors) > 1 /\ analyze_single_class_ancestors(list, at) # <<"error", list>>
  <2>. DEFINE class == list[at]
              p == class.ancestors[2][2]
              parent == list[p]
              methods == Overridden(parent.methods, class.methods)
              fields == parent.fields \o class.fields
              attributes == parent.attributes \o class.attributes
  <2>1. Len(class.ancestors) > 1
    BY <1>6
  <2>2. Inherited(list, at) = analyze_single_class_ancestors(list, at)
    BY <2>1, Zenon DEF Inherited
  <2>3. \/ analyze_single_class_ancestors(list, at) = <<"error", list>>
        \/ analyze_single_class_ancestors(list, at) =
             <<"ok", [list EXCEPT ![at].methods = Overridden(parent.methods, @),
                                  ![at].fields = parent.fields \o @,
                                  ![at].attributes = parent.attributes \o @]>>
    BY Zenon DEF analyze_single_class_ancestors
  <2>4. after = [list EXCEPT ![at].methods = Overridden(parent.methods, @),
                             ![at].fields = parent.fields \o @,
                             ![at].attributes = parent.attributes \o @]
    <3>. DEFINE made == [list EXCEPT ![at].methods = Overridden(parent.methods, @),
                                     ![at].fields = parent.fields \o @,
                                     ![at].attributes = parent.attributes \o @]
    <3>1. analyze_single_class_ancestors(list, at) = <<"ok", made>>
      BY <1>6, <2>3, Zenon
    <3>2. after = analyze_single_class_ancestors(list, at)[2]
      BY <2>2
    <3>. HIDE DEF made, after
    <3>3. after = made
      BY <3>1, <3>2
    <3>. QED
      BY <3>3 DEF made
  <2>5. /\ class.ancestors = defs[at].ancestors /\ class.methods = defs[at].methods
        /\ class.k = "class" /\ DOMAIN class = ClassFields /\ IsList(class.methods) /\ IsList(class.ancestors)
        /\ IsList(class.fields) /\ IsList(class.attributes)
        /\ (HasAst(class) => ClassSyntax(class.ast))
    BY DEF Signed, Definition, Kept, IsClass
  <2>. DEFINE d == [class EXCEPT !.methods = methods, !.fields = fields, !.attributes = attributes]
  <2>6. after = [list EXCEPT ![at] = d]
    <3>1. at \in DOMAIN list
      BY DEF Signed
    <3>2. DOMAIN list[at] = ClassFields
      BY <2>5
    <3>. HIDE DEF after
    <3>. QED
      BY <2>4, <3>1, <3>2 DEF ClassFields
  <2>7. p \in AncestorIds(at)
    <3>1. Len(class.ancestors) \in Nat /\ DOMAIN class.ancestors = 1..Len(class.ancestors)
      BY <2>5, ListFacts
    <3>2. 2 \in DOMAIN class.ancestors
      BY <2>1, <3>1
    <3>3. class.ancestors[2] \in Range(class.ancestors)
      BY <3>2 DEF Range
    <3>. HIDE DEF class
    <3>. QED
      BY <2>5, <3>3 DEF AncestorIds
  <2>. HIDE DEF p
  <2>8. p \in DOMAIN defs /\ IsClass(defs[p]) /\ AncestorIds(p) \subseteq AncestorIds(at)
    <3>1. p \in 1..at /\ IsClass(defs[p]) /\ AncestorIds(p) \subseteq AncestorIds(at)
      BY <2>7 DEF IInv, Ancestry, HierarchyOrdered
    <3>. QED
      BY <1>1, <3>1
  <2>9. /\ parent.methods = defs[p].methods /\ IsList(parent.methods)
        /\ IsList(parent.fields) /\ IsList(parent.attributes)
    BY <1>1, <2>8 DEF Signed, Definition, IsClass, Kept
  <2>10. /\ IsList(methods)
         /\ Range(methods) \subseteq Range(defs[p].methods) \cup Range(defs[at].methods)
    BY <2>5, <2>9, OverriddenList
  <2>19. IsList(fields) /\ IsList(attributes)
    BY <2>5, <2>9, ConcatList DEF Joined
  <2>20. /\ IsPrefix(parent.fields, fields) /\ IsPrefix(parent.attributes, attributes)
         /\ NamesOf(parent.methods) \subseteq NamesOf(methods)
    BY <2>5, <2>9, PrefixList, OverriddenList
  <2>21. p = ParentId(at) /\ (p # at => parent = defs[p])
    BY <2>5, <2>8 DEF ParentId, p, Signed
  <2>. HIDE DEF class, parent, methods, fields, attributes, after
  <2>11. /\ DOMAIN d = ClassFields /\ d.k = class.k /\ d.name = class.name /\ d.mod = class.mod /\ d.ast = class.ast
         /\ d.methods = methods /\ d.ancestors = class.ancestors /\ d.fields = fields /\ d.attributes = attributes
    BY <2>5 DEF ClassFields
  <2>. HIDE DEF d
  <2>12. DOMAIN after = DOMAIN list /\ after[at] = d /\ \A i \in DOMAIN list : i # at => after[i] = list[i]
    BY <2>6 DEF Signed
  <2>13. Definition(d) /\ Kept(defs[at], d)
    <3>1. Definition(d)
      BY <2>5, <2>10, <2>11, <2>19 DEF Definition, HasAst
    <3>2. Kept(defs[at], class)
      BY DEF Signed, class
    <3>. QED
      BY <2>11, <3>1, <3>2 DEF Kept
  <2>14. \A m \in Range(methods) : Inherits(at, m)
    <3>1. ASSUME NEW m \in Range(defs[p].methods) PROVE Inherits(at, m)
      <4>1. Inherits(p, m)
        BY <1>2, <2>8
      <4>. QED
        BY <2>7, <2>8, <4>1 DEF Inherits
    <3>. QED
      BY <1>2, <2>10, <3>1
  <2>15. IsList(after)
    <3>1. after = [i \in 1..Len(defs) |-> after[i]]
      BY <1>1, <2>6, <2>12 DEF Signed
    <3>. QED
      BY <1>1, <3>1, ListOfFunction
  <2>16. ASSUME NEW i \in DOMAIN defs
         PROVE  /\ Kept(defs[i], after[i]) /\ Definition(after[i])
                /\ IsClass(defs[i]) => /\ after[i].ancestors = defs[i].ancestors
                                       /\ i # at => after[i] = defs[i]
                /\ IsFunction(defs[i]) /\ i \notin OwnIds(at) => after[i] = defs[i]
    <3>1. CASE i = at
      BY <2>5, <2>11, <2>12, <2>13, <3>1 DEF IsClass, IsFunction
    <3>2. CASE i # at
      BY <2>12, <3>2 DEF Signed
    <3>. QED
      BY <3>1, <3>2
  <2>17. \A m \in Range(after[at].methods) : Inherits(at, m)
    BY <2>11, <2>12, <2>14
  <2>18. DOMAIN after = DOMAIN defs
    BY <2>12 DEF Signed
  <2>22. Extended(after)
    BY <2>11, <2>12, <2>20, <2>21 DEF Signed, Extended, Extends
  <2>. QED
    BY <2>15, <2>16, <2>17, <2>18, <2>22 DEF Membered, after
<1>. QED
  BY <1>4, <1>5, <1>6

\* What the analysis of the members of a class writes: when there is no error, it then extends its parent.
LEMMA MembersWrites ==
  ASSUME IInv, analyze_top_level_class_fields_methods, pc = "members",
         at \in DOMAIN defs, IsClass(defs[at]), HasAst(defs[at])
  PROVE  \/ UNCHANGED defs /\ at' = 0 /\ pc' \in {"panic", "failed"}
         \/ /\ at' = at + 1 /\ pc' = "members" /\ Membered(defs')
            /\ errors' = {} => errors = {} /\ Extended(defs')
<1>0. \A i \in DOMAIN defs : Definition(defs[i])
  BY DEF IInv, Typed
<1>. DEFINE env == Env(defs, defs[at].mod, {at})
            members == analyze_single_class_methods_fields(env, at)
            list == WithMembers(at, members)
            inherited == Inherited(list, at)
            tys == TypesIn(inherited[2], defs[at].mod, members.new)
<1>1. ClassMembers(members)
  BY Zenon DEF analyze_top_level_class_fields_methods
<1>2. IF Failed(members.r) \/ errors # {}
      THEN Stop(IF members.r = Panic THEN "panic" ELSE "failed") /\ UNCHANGED <<defs, errors>>
      ELSE WriteMembers(inherited, tys)
  BY <1>1, Zenon DEF ClassMembers, InheritMembers
<1>3. MembersRight(at, members)
  <2>1. IsList(defs[at].ast.body)
    BY <1>0 DEF Definition, ClassSyntax, IsClass
  <2>. QED
    BY <2>1, MembersRead
<1>4. Membered(inherited[2]) /\ (inherited[1] # "error" => Extended(inherited[2]))
  <2>1. Signed(list)
    BY <1>3, MembersWritten
  <2>. QED
    BY <2>1, InheritedRight
<1>. HIDE DEF members, inherited, tys
<1>5. CASE Failed(members.r) \/ errors # {} \/ Panic \in tys
  BY <1>2, <1>5 DEF WriteMembers, Stop
<1>6. CASE ~(Failed(members.r) \/ errors # {} \/ Panic \in tys)
  <2>1. /\ defs' = inherited[2] /\ at' = at + 1 /\ pc' = pc /\ errors = {}
        /\ errors' = errors \cup {e \in {"ancestors"} : inherited[1] = "error"} \cup {e \in {"annotation"} : Error \in tys}
    BY <1>2, <1>6 DEF WriteMembers
  <2>2. errors' = {} => inherited[1] # "error"
    BY <2>1
  <2>3. PICK ds : ds = inherited[2]
    OBVIOUS
  <2>4. Membered(ds) /\ (inherited[1] # "error" => Extended(ds)) /\ defs' = ds
    BY <1>4, <2>1, <2>3
  <2>. QED
    BY <2>1, <2>2, <2>4
<1>. QED
  BY <1>5, <1>6

\* The members of a class, its own and inherited.
LEMMA MembersStep ==
  ASSUME IInv, analyze_top_level_class_fields_methods
  PROVE  IInv' /\ Stable
<1>1. /\ pc = "members" /\ at <= Len(defs)
      /\ UNCHANGED <<prog, defined_names, method_class, scopes, extension>>
  BY DEF analyze_top_level_class_fields_methods
<1>2. at \in DOMAIN defs /\ \A i \in DOMAIN defs : Definition(defs[i])
  <2>1. IsList(defs) /\ at \in Nat /\ at > 0 /\ \A i \in DOMAIN defs : Definition(defs[i])
    BY <1>1, PrimFacts DEF IInv, Typed
  <2>. QED
    BY <1>1, <2>1, ListFacts
<1>3. CASE ~(IsClass(defs[at]) /\ HasAst(defs[at]))
  <2>1. at' = at + 1 /\ UNCHANGED <<pc, defs>>
    BY <1>3 DEF analyze_top_level_class_fields_methods
  <2>. QED
    BY <1>1, <2>1, Progress, FrameStep
<1>4. CASE IsClass(defs[at]) /\ HasAst(defs[at])
  <2>5. \/ UNCHANGED defs /\ at' = 0 /\ pc' \in {"panic", "failed"}
        \/ Membered(defs') /\ at' = at + 1 /\ pc' = pc
    BY <1>1, <1>2, <1>4, MembersWrites
  <2>6. CASE UNCHANGED defs /\ at' = 0 /\ pc' \in {"panic", "failed"}
    BY <1>1, <2>6, Progress, FrameStep
  <2>7. CASE Membered(defs') /\ at' = at + 1 /\ pc' = pc
    BY <1>1, <1>2, <1>4, <2>7, MembersKept DEF Membered
  <2>. QED
    BY <2>5, <2>6, <2>7
<1>. QED
  BY <1>3, <1>4

-----------------------------------------------------------------------------
(* Every step                                                              *)

\* Every step keeps the invariant, and what is stable.
LEMMA NextInv ==
  ASSUME IInv, [Next]_vars
  PROVE  IInv' /\ Stable
<1>1. CASE UNCHANGED vars
  <2>1. UNCHANGED <<prog, pc, at, defs, scopes, defined_names, method_class, extension>>
    BY <1>1 DEF vars
  <2>. QED
    BY <2>1, Progress, FrameStep
<1>2. CASE Next
  <2>1. \/ Register \/ register_top_level_module
        \/ handle_assignment_pattern \/ register_other \/ start_analysis
        \/ end_class_fields_methods \/ end_functions \/ end_instances
        \/ analyze_top_level_class_definition \/ end_class_definition
        \/ analyze_top_level_class_fields_methods \/ analyze_top_level_function
        \/ analyze_constructor \/ end_constructors \/ analyze_function_instance
    BY <1>2 DEF Next
  <2>2. CASE Register \/ register_top_level_module
    BY <2>2, RegisterSteps
  <2>3. CASE \/ handle_assignment_pattern \/ register_other \/ start_analysis
             \/ end_class_fields_methods \/ end_functions \/ end_instances
    BY <2>3, FrameSteps
  <2>4. CASE analyze_top_level_class_definition
    BY <2>4, BasesStep
  <2>5. CASE end_class_definition
    BY <2>5, EndClasses
  <2>6. CASE analyze_top_level_class_fields_methods
    BY <2>6, MembersStep
  <2>7. CASE analyze_top_level_function
    BY <2>7, FunctionStep
  <2>8. CASE analyze_constructor
    BY <2>8, ConstructorStep
  <2>9. CASE end_constructors
    BY <2>9, EndConstructors
  <2>10. CASE analyze_function_instance
    BY <2>10, InstanceStep
  <2>. QED
    BY <2>1, <2>2, <2>3, <2>4, <2>5, <2>6, <2>7, <2>8, <2>9, <2>10
<1>. QED
  BY <1>1, <1>2

-----------------------------------------------------------------------------
(* The signatures given by the steps so far                                *)

\* What the steps for functions and constructors have passed without an error has a signature.
SignedSoFar ==
  \A i \in DOMAIN defs : HasAst(defs[i]) =>
    /\ IsFunction(defs[i]) =>
         /\ pc = "functions" /\ errors = {} /\ i < at => defs[i].sig.known
         /\ pc \in {"constructors", "instances", "done"} => defs[i].sig.known
    /\ IsClass(defs[i]) =>
         /\ pc = "constructors" /\ errors = {} /\ i < at => defs[i].constructor.known
         /\ pc \in {"instances", "done"} => defs[i].constructor.known

\* The place of a definition of the program.
LEMMA Places ==
  ASSUME IInv
  PROVE  /\ at \in Nat /\ Len(defs) \in Nat /\ DOMAIN defs = 1..Len(defs) /\ builtin_num = 18
         /\ \A i \in DOMAIN defs : HasAst(defs[i]) => i > builtin_num
         /\ \A i \in DOMAIN defs : ~(IsClass(defs[i]) /\ IsFunction(defs[i]))
<1>1. IsList(defs) /\ at \in Nat
  BY DEF IInv, Typed
<1>2. \A i \in 1..builtin_num : ~HasAst(defs[i])
  BY DEF IInv, BuiltinsRight
<1>3. DOMAIN defs = 1..Len(defs) /\ Len(defs) \in Nat
  BY <1>1, ListFacts
<1>4. \A i \in DOMAIN defs : HasAst(defs[i]) => i > builtin_num
  BY <1>2, <1>3, PrimFacts
<1>5. \A i \in DOMAIN defs : ~(IsClass(defs[i]) /\ IsFunction(defs[i]))
  BY DEF IsClass, IsFunction
<1>. QED
  BY <1>1, <1>3, <1>4, <1>5, PrimFacts

\* Registration and the steps for classes.
LEMMA SignedEarly ==
  ASSUME IInv, SignedSoFar,
         \/ Register \/ handle_assignment_pattern \/ register_other \/ register_top_level_module
         \/ start_analysis \/ analyze_top_level_class_definition \/ end_class_definition
         \/ analyze_top_level_class_fields_methods \/ end_class_fields_methods
  PROVE  SignedSoFar'
<1>1. ASSUME pc' \in {"register", "bases", "members", "failed", "panic"} PROVE SignedSoFar'
  BY <1>1 DEF SignedSoFar
<1>2. ASSUME Register PROVE pc' \in {"register", "failed"}
  BY <1>2 DEF Register, register_class, register_function, Stop
<1>3. ASSUME handle_assignment_pattern PROVE pc' \in {"register", "failed"}
  BY <1>3 DEF handle_assignment_pattern, Stop
<1>4. ASSUME register_other PROVE pc' \in {"register", "failed"}
  BY <1>4 DEF register_other, Stop
<1>5. ASSUME register_top_level_module PROVE pc' = "register"
  BY <1>5 DEF register_top_level_module
<1>6. ASSUME start_analysis PROVE pc' = "bases"
  BY <1>6 DEF start_analysis, Step
<1>7. ASSUME analyze_top_level_class_definition PROVE pc' \in {"bases", "panic"}
  BY <1>7 DEF analyze_top_level_class_definition
<1>8. ASSUME end_class_definition PROVE pc' \in {"members", "failed"}
  BY <1>8 DEF end_class_definition, Step, Stop
<1>9. ASSUME analyze_top_level_class_fields_methods PROVE pc' \in {"members", "failed", "panic"}
  BY <1>9, Zenon DEF analyze_top_level_class_fields_methods, ClassMembers, InheritMembers, WriteMembers, Stop
<1>10. ASSUME end_class_fields_methods PROVE SignedSoFar'
  <2>1. UNCHANGED defs /\ (pc' = "failed" \/ (pc' = "functions" /\ at' = builtin_num + 1))
    BY <1>10 DEF end_class_fields_methods, EndOf, Step, Stop
  <2>. QED
    BY <2>1, Places DEF SignedSoFar
<1>. QED
  BY <1>1, <1>2, <1>3, <1>4, <1>5, <1>6, <1>7, <1>8, <1>9, <1>10

\* The signature of a function.
LEMMA SignedFunction ==
  ASSUME IInv, SignedSoFar, analyze_top_level_function
  PROVE  SignedSoFar'
<1>1. pc = "functions" /\ at <= Len(defs)
  BY DEF analyze_top_level_function
<1>2. at \in DOMAIN defs
  <2>1. at > 0
    BY <1>1, PrimFacts DEF IInv, Typed
  <2>. QED
    BY <1>1, <2>1, Places
<1>3. CASE ~IsFunction(defs[at]) \/ ~HasAst(defs[at]) \/ defs[at].sig.known
  <2>1. at' = at + 1 /\ UNCHANGED <<pc, defs, errors>>
    BY <1>3 DEF analyze_top_level_function
  <2>. QED
    BY <1>1, <1>3, <2>1, Places DEF SignedSoFar
<1>4. CASE ~(~IsFunction(defs[at]) \/ ~HasAst(defs[at]) \/ defs[at].sig.known)
  <2>. DEFINE f == defs[at].ast
              anns == [i \in DOMAIN f.params |-> Annotation(Env(defs, defs[at].mod, {at}), <<>>, f.params[i])]
              r == analyze_function(Env(defs, defs[at].mod, {at}), f)
  <2>1. WriteSignature(r)
    BY <1>4 DEF analyze_top_level_function
  <2>2. r[1] = "signature" => r[2].known
    BY DEF analyze_function, ParsedFunction, TypedFunction, FunctionSignature, Signature, Then, Failed, Error
  <2>. HIDE DEF r
  <2>3. CASE r[1] = "signature" /\ defs' = [defs EXCEPT ![at].sig = r[2], ![at].var_id = Bounded(r[2].vars)]
             /\ at' = at + 1 /\ UNCHANGED <<pc, errors>>
    <3>1. DOMAIN defs[at] = FunctionFields
      BY <1>2, <1>4 DEF IInv, Typed, Definition, IsFunction
    <3>2. PICK e : /\ e = [defs[at] EXCEPT !.sig = r[2], !.var_id = Bounded(r[2].vars)]
                   /\ defs' = [defs EXCEPT ![at] = e]
      BY <1>2, <2>3
    <3>3. e.sig = r[2] /\ e.k = defs[at].k
      BY <3>1, <3>2 DEF FunctionFields
    <3>4. \A i \in DOMAIN defs' : i # at => defs'[i] = defs[i]
      BY <3>2
    <3>5. DOMAIN defs' = DOMAIN defs /\ defs'[at] = e
      BY <1>2, <3>2
    <3>6. ~IsClass(e)
      BY <1>4, <3>3 DEF IsFunction, IsClass
    <3>. QED
      BY <1>1, <2>2, <2>3, <3>3, <3>4, <3>5, <3>6, Places DEF SignedSoFar
  <2>4. CASE errors' = errors \cup {"signature"} /\ UNCHANGED pc
    BY <1>1, <2>4 DEF SignedSoFar
  <2>5. CASE Stop("panic")
    BY <2>5 DEF Stop, SignedSoFar
  <2>. QED
    BY <2>1, <2>3, <2>4, <2>5 DEF WriteSignature
<1>. QED
  BY <1>3, <1>4

\* The constructor of a class.
LEMMA SignedConstructor ==
  ASSUME IInv, SignedSoFar, analyze_constructor
  PROVE  SignedSoFar'
<1>1. pc = "constructors" /\ at <= Len(defs)
  BY DEF analyze_constructor
<1>2. at \in DOMAIN defs
  <2>1. at > 0
    BY <1>1, PrimFacts DEF IInv, Typed
  <2>. QED
    BY <1>1, <2>1, Places
<1>3. CASE ~IsClass(defs[at]) \/ ~HasAst(defs[at])
  <2>1. at' = at + 1 /\ UNCHANGED <<pc, defs, errors>>
    BY <1>3 DEF analyze_constructor
  <2>. QED
    BY <1>1, <1>3, <2>1, Places DEF SignedSoFar
<1>4. CASE ~(~IsClass(defs[at]) \/ ~HasAst(defs[at]))
  <2>. DEFINE class == defs[at]
              self == make_self(class.type_vars, at)
              made == GetType(Env(defs, class.mod, {}), self)
              inits == Inits(class)
              args == FlattenSeq([i \in DOMAIN inits |-> defs[inits[i].id].sig.args])
              vs == UNION {defs[m.id].sig.vars : m \in Range(inits)}
              exception == IsException(class.ancestors)
              r == Then(made, IF exception THEN <<"ok">> ELSE FieldsAssigned(at, inits))
              signature == IF exception THEN exn_constructor(at).sig ELSE Signature(args, self, vs)
  <2>1. IF r = Panic THEN Stop("panic") /\ UNCHANGED <<defs, errors, extension>>
        ELSE /\ extension' = IF exception /\ ~Failed(r)
                             THEN Append(extension, [class |-> at, def |-> exn_constructor(at)]) ELSE extension
             /\ defs' = IF Failed(made) THEN defs ELSE [defs EXCEPT ![at].constructor = signature]
             /\ errors' = errors \cup {e \in {"constructor"} : Failed(r)}
             /\ at' = at + 1 /\ UNCHANGED pc
    BY <1>4, Zenon DEF analyze_constructor
  <2>2. signature.known
    <3>1. Signature(args, self, vs).known
      BY DEF Signature
    <3>2. exn_constructor(at).sig.known
      <4>. DEFINE g == make_top_level_function_def(make_class_method_name(defs[at].name, "__init__"), defs[at].mod, FALSE, Absent)
                  s == Signature(exn_constructor_args, make_self(<<>>, at), {})
      <4>1. exn_constructor(at) = [g EXCEPT !.sig = s]
        BY DEF exn_constructor
      <4>2. "sig" \in DOMAIN g
        BY DEF make_top_level_function_def
      <4>3. s.known
        BY DEF Signature
      <4>. HIDE DEF g, s
      <4>. QED
        BY <4>1, <4>2, <4>3
    <3>. HIDE DEF args, self, vs, exception
    <3>. QED
      BY <3>1, <3>2
  <2>3. Failed(made) => Failed(r)
    BY DEF Then
  <2>. HIDE DEF signature, exception, r, made, class
  <2>4. CASE r = Panic
    BY <2>1, <2>4 DEF Stop, SignedSoFar
  <2>5. CASE r # Panic
    <3>1. /\ at' = at + 1 /\ pc' = pc
          /\ \/ defs' = defs /\ errors' # {}
             \/ defs' = [defs EXCEPT ![at].constructor = signature] /\ (errors' = {} => errors = {})
      <4>1. errors' = errors \cup {e \in {"constructor"} : Failed(r)}
        BY <2>1, <2>5
      <4>2. Failed(r) => errors' # {}
        BY <4>1
      <4>. QED
        BY <2>1, <2>3, <2>5, <4>1, <4>2
    <3>2. CASE defs' = defs /\ errors' # {}
      BY <1>1, <3>1, <3>2 DEF SignedSoFar
    <3>3. CASE defs' = [defs EXCEPT ![at].constructor = signature] /\ (errors' = {} => errors = {})
      <4>1. DOMAIN defs[at] = ClassFields /\ ~IsFunction(defs[at])
        BY <1>2, <1>4 DEF IInv, Typed, Definition, IsClass, IsFunction
      <4>2. PICK e : e = [defs[at] EXCEPT !.constructor = signature] /\ defs' = [defs EXCEPT ![at] = e]
        BY <1>2, <3>3
      <4>3. e.constructor = signature /\ ~IsFunction(e)
        BY <4>1, <4>2 DEF ClassFields, IsFunction
      <4>4. /\ DOMAIN defs' = DOMAIN defs /\ defs'[at] = e
            /\ \A i \in DOMAIN defs : i # at => defs'[i] = defs[i]
        BY <1>2, <4>2
      <4>. QED
        BY <1>1, <2>2, <3>1, <3>3, <4>3, <4>4, Places DEF SignedSoFar
    <3>. QED
      BY <3>1, <3>2, <3>3
  <2>. QED
    BY <2>4, <2>5
<1>. QED
  BY <1>3, <1>4

\* What the constructors of the exceptions add, when there is no error.
LEMMA ConstructorsAdded ==
  ASSUME IInv, end_constructors, errors = {}
  PROVE  /\ pc = "constructors" /\ at > Len(defs) /\ pc' = "instances"
         /\ \A i \in DOMAIN defs' \ DOMAIN defs : ~HasAst(defs'[i])
         /\ \A i \in DOMAIN defs :
              \/ defs'[i] = defs[i]
              \/ \E x : defs'[i] = [defs[i] EXCEPT !.methods = Append(@, Method("__init__", x))]
<1>. DEFINE ds == [i \in DOMAIN defs |->
                     IF \E e \in DOMAIN extension : extension[e].class = i
                     THEN [defs[i] EXCEPT !.methods = Append(@, Method("__init__",
                             Len(defs) + CHOOSE e \in DOMAIN extension : extension[e].class = i))]
                     ELSE defs[i]]
            fs == [e \in DOMAIN extension |-> extension[e].def]
<1>1. pc = "constructors" /\ at > Len(defs) /\ defs' = ds \o fs /\ pc' = "instances"
  BY DEF end_constructors, Step
<1>2. IsList(defs) /\ IsList(extension)
  BY DEF IInv, Typed, ExtensionRight
<1>3. IsList(ds) /\ Len(ds) = Len(defs) /\ IsList(fs) /\ Len(fs) = Len(extension)
  <2>1. ds = [i \in 1..Len(defs) |-> ds[i]] /\ fs = [i \in 1..Len(extension) |-> fs[i]]
    BY <1>2, ListFacts
  <2>. HIDE DEF ds, fs
  <2>. QED
    BY <1>2, <2>1, ListFacts, ListOfFunction
<1>4. \A i \in DOMAIN defs : \/ ds[i] = defs[i]
                             \/ \E x : ds[i] = [defs[i] EXCEPT !.methods = Append(@, Method("__init__", x))]
  OBVIOUS
<1>5. \A e \in DOMAIN extension : fs[e] = extension[e].def
  OBVIOUS
<1>. HIDE DEF ds, fs
<1>6. Joined(defs', ds, fs)
  BY <1>1, <1>3, ConcatList
<1>7. ASSUME NEW i \in DOMAIN defs', i \notin DOMAIN defs
      PROVE  ~HasAst(defs'[i])
  <2>1. PICK e \in DOMAIN extension : defs'[i] = fs[e]
    <3>1. i \in 1..(Len(defs) + Len(extension)) /\ i > Len(defs)
      BY <1>2, <1>3, <1>6, <1>7, ListFacts DEF Joined
    <3>2. i - Len(defs) \in 1..Len(extension) /\ Len(defs) + (i - Len(defs)) = i
      BY <1>2, <3>1, ListFacts
    <3>3. i - Len(defs) \in DOMAIN extension
      BY <1>2, <3>2, ListFacts
    <3>. QED
      BY <1>3, <1>6, <3>2, <3>3 DEF Joined
  <2>. QED
    BY <1>5, <2>1 DEF IInv, ExtensionRight
<1>8. ASSUME NEW i \in DOMAIN defs PROVE defs'[i] = ds[i]
  BY <1>2, <1>3, <1>6, <1>8, ListFacts DEF Joined
<1>. QED
  BY <1>1, <1>4, <1>7, <1>8

\* The last steps: the definitions keep their signatures.
LEMMA SignedLate ==
  ASSUME IInv, SignedSoFar, IInv' /\ Stable,
         \/ end_functions \/ end_constructors \/ analyze_function_instance \/ end_instances
  PROVE  SignedSoFar'
<1>1. ASSUME end_functions PROVE SignedSoFar'
  <2>1. /\ UNCHANGED <<defs, errors>> /\ pc = "functions" /\ at > Len(defs)
        /\ pc' = "failed" \/ (errors = {} /\ pc' = "constructors" /\ at' = builtin_num + 1)
    BY <1>1 DEF end_functions, EndOf, Step, Stop
  <2>. QED
    BY <2>1, Places DEF SignedSoFar
<1>2. ASSUME end_constructors PROVE SignedSoFar'
  <2>1. CASE errors # {}
    BY <1>2, <2>1 DEF end_constructors, Stop, SignedSoFar
  <2>2. CASE errors = {}
    <3>1. /\ pc = "constructors" /\ at > Len(defs) /\ pc' = "instances"
          /\ \A i \in DOMAIN defs' \ DOMAIN defs : ~HasAst(defs'[i])
          /\ \A i \in DOMAIN defs :
               \/ defs'[i] = defs[i]
               \/ \E x : defs'[i] = [defs[i] EXCEPT !.methods = Append(@, Method("__init__", x))]
      BY <1>2, <2>2, ConstructorsAdded
    <3>2. \A i \in DOMAIN defs : \/ defs'[i] = defs[i]
                                 \/ \E x : defs'[i] = [defs[i] EXCEPT !.methods = x]
      BY <3>1, Zenon
    <3>9. ASSUME NEW i \in DOMAIN defs, HasAst(defs'[i]), IsClass(defs'[i])
          PROVE  defs'[i].constructor.known
      <4>1. HasAst(defs[i]) /\ IsClass(defs[i])
        BY <3>9 DEF Stable, HasAst, IsClass
      <4>2. defs[i].constructor.known
        BY <2>2, <3>1, <4>1, Places DEF SignedSoFar
      <4>3. DOMAIN defs[i] = ClassFields
        BY <4>1 DEF IInv, Typed, Definition, IsClass
      <4>4. defs'[i].constructor = defs[i].constructor
        BY <3>2, <4>3 DEF ClassFields
      <4>. QED
        BY <4>2, <4>4
    <3>10. ASSUME NEW i \in DOMAIN defs, HasAst(defs'[i]), IsFunction(defs'[i])
           PROVE  defs'[i].sig.known
      <4>1. HasAst(defs[i]) /\ IsFunction(defs[i])
        BY <3>10 DEF Stable, HasAst, IsFunction
      <4>2. defs[i].sig.known
        BY <3>1, <4>1 DEF SignedSoFar
      <4>. QED
        BY <4>1, <4>2 DEF Stable
    <3>. QED
      BY <3>1, <3>9, <3>10 DEF SignedSoFar
  <2>. QED
    BY <2>1, <2>2
<1>3. ASSUME analyze_function_instance PROVE SignedSoFar'
  <2>1. pc = "instances" /\ pc' = pc
    BY <1>3 DEF analyze_function_instance
  <2>2. UNCHANGED defs \/ (IsFunction(defs[at]) /\ \E e : defs' = [defs EXCEPT ![at] = e])
    BY <1>3, InstanceWrites, Zenon
  <2>3. CASE UNCHANGED defs
    BY <2>1, <2>3 DEF SignedSoFar
  <2>4. CASE IsFunction(defs[at]) /\ \E e : defs' = [defs EXCEPT ![at] = e]
    <3>1. DOMAIN defs' = DOMAIN defs
      BY <2>4
    <3>2. ASSUME NEW i \in DOMAIN defs, HasAst(defs'[i]), IsClass(defs'[i])
          PROVE  defs'[i].constructor.known
      <4>1. HasAst(defs[i]) /\ IsClass(defs[i])
        BY <3>2 DEF Stable, HasAst, IsClass
      <4>2. i # at
        BY <2>4, <4>1 DEF IsClass, IsFunction
      <4>3. defs'[i] = defs[i]
        BY <2>4, <4>2
      <4>. QED
        BY <2>1, <4>1, <4>3 DEF SignedSoFar
    <3>3. ASSUME NEW i \in DOMAIN defs, HasAst(defs'[i]), IsFunction(defs'[i])
          PROVE  defs'[i].sig.known
      <4>1. HasAst(defs[i]) /\ IsFunction(defs[i])
        BY <3>3 DEF Stable, HasAst, IsFunction
      <4>2. defs[i].sig.known
        BY <2>1, <4>1 DEF SignedSoFar
      <4>. QED
        BY <4>1, <4>2 DEF Stable
    <3>. QED
      BY <2>1, <3>1, <3>2, <3>3 DEF SignedSoFar
  <2>. QED
    BY <2>2, <2>3, <2>4
<1>4. ASSUME end_instances PROVE SignedSoFar'
  <2>1. /\ UNCHANGED <<defs, errors>> /\ pc = "instances" /\ pc' \in {"failed", "done"}
    BY <1>4 DEF end_instances, Stop
  <2>. QED
    BY <2>1 DEF SignedSoFar
<1>. QED
  BY <1>1, <1>2, <1>3, <1>4

\* What is signed stays signed.
LEMMA SignedStep ==
  ASSUME IInv, SignedSoFar, [Next]_vars
  PROVE  SignedSoFar'
<1>1. IInv' /\ [Stable]_vars
  BY NextInv
<1>2. CASE UNCHANGED vars
  BY <1>2 DEF vars, SignedSoFar
<1>3. CASE ~UNCHANGED vars
  <2>1. Next /\ IInv' /\ Stable
    BY <1>1, <1>3
  <2>. QED
    BY <2>1, SignedEarly, SignedFunction, SignedConstructor, SignedLate DEF Next
<1>. QED
  BY <1>2, <1>3

-----------------------------------------------------------------------------
(* Parents                                                                 *)

\* The parent of a class is another, before it.
ParentsBefore ==
  \A c \in DOMAIN defs : Subclass(c) => ParentId(c) < c
Layout == ParentsBefore /\ ExtendsParent

\* Where the parent of a class is found.
LEMMA ParentFacts ==
  ASSUME IInv, NEW c \in DOMAIN defs, Subclass(c)
  PROVE  c > builtin_num /\ ParentId(c) \in DOMAIN defs /\ IsClass(defs[ParentId(c)])
<1>. DEFINE as == defs[c].ancestors
<1>1. IsList(as) /\ Len(as) > 1
  BY DEF Subclass, IsClass, IInv, Typed, Definition
<1>2. as[2] \in Range(as)
  <2>1. 2 \in DOMAIN as
    BY <1>1, ListFacts
  <2>. QED
    BY <2>1 DEF Range
<1>3. ParentId(c) \in AncestorIds(c)
  BY <1>2 DEF ParentId, AncestorIds
<1>4. ParentId(c) \in 1..c /\ IsClass(defs[ParentId(c)])
  BY <1>3 DEF Subclass, IInv, Ancestry, HierarchyOrdered
<1>. QED
  BY <1>4, Places DEF Subclass

\* While definitions are registered no class has a parent.
LEMMA LayoutEmpty ==
  ASSUME IInv, pc = "register"
  PROVE  Layout
<1>1. ASSUME NEW c \in DOMAIN defs, Subclass(c) PROVE FALSE
  <2>1. defs[c].ancestors = <<>>
    BY <1>1, Places DEF Subclass, IInv, Ancestry, AncestorsStart, Unbased
  <2>. QED
    BY <1>1, <2>1, EmptyList DEF Subclass
<1>. QED
  BY <1>1 DEF Layout, ParentsBefore, ExtendsParent

\* A class whose members are those it had, but for a constructor.
SameMembers(d, e) ==
  /\ e.fields = d.fields /\ e.attributes = d.attributes
  /\ NamesOf(d.methods) \subseteq NamesOf(e.methods)
  /\ NamesOf(e.methods) \subseteq NamesOf(d.methods) \cup {"__init__"}

\* A step that changes the members of no class, and says of none that it has them.
LEMMA LayoutKept ==
  ASSUME IInv, Layout, Stable,
         \A i \in DOMAIN defs' \ DOMAIN defs : ~HasAst(defs'[i]),
         \A i \in DOMAIN defs : IsClass(defs[i]) =>
           SameMembers(defs[i], defs'[i]) /\ (HasAst(defs[i]) => defs'[i].ancestors = defs[i].ancestors),
         \A c \in DOMAIN defs : Subclass(c) /\ HasMembers(c)' => HasMembers(c)
  PROVE  Layout'
<1>1. ASSUME NEW c \in DOMAIN defs', Subclass(c)'
      PROVE  /\ c \in DOMAIN defs /\ Subclass(c) /\ ParentId(c)' = ParentId(c)
             /\ SameMembers(defs[c], defs'[c])
  <2>1. c \in DOMAIN defs
    BY <1>1 DEF Subclass
  <2>2. IsClass(defs[c]) /\ HasAst(defs[c])
    BY <1>1, <2>1 DEF Subclass, Stable, IsClass, HasAst
  <2>. QED
    BY <1>1, <2>1, <2>2 DEF Subclass, ParentId
<1>2. ParentsBefore'
  BY <1>1 DEF Layout, ParentsBefore
<1>3. ASSUME NEW c \in DOMAIN defs', Subclass(c)', HasMembers(c)'
      PROVE  Extends(defs'[c], defs'[ParentId(c)'])
  <2>1. PICK p : p = ParentId(c) /\ p = ParentId(c)'
    BY <1>1, <1>3
  <2>2. Extends(defs[c], defs[p])
    BY <1>1, <1>3, <2>1 DEF Layout, ExtendsParent
  <2>3. SameMembers(defs[p], defs'[p])
    BY <1>1, <1>3, <2>1, ParentFacts
  <2>4. SameMembers(defs[c], defs'[c])
    BY <1>1, <1>3
  <2>5. Extends(defs'[c], defs'[p])
    BY <2>2, <2>3, <2>4 DEF Extends, SameMembers
  <2>. QED
    BY <2>1, <2>5
<1>4. ExtendsParent'
  BY <1>3 DEF ExtendsParent
<1>. QED
  BY <1>2, <1>4 DEF Layout

\* A step that changes no definition.
LEMMA LayoutFrame ==
  ASSUME IInv, Layout, UNCHANGED defs,
         \A c \in DOMAIN defs : Subclass(c) /\ HasMembers(c)' => HasMembers(c)
  PROVE  Layout'
<1>1. \A i \in DOMAIN defs : SameMembers(defs[i], defs'[i])
  BY DEF SameMembers
<1>2. Stable
  BY DEF Stable
<1>. QED
  BY <1>1, <1>2, LayoutKept

\* Registration.
LEMMA LayoutRegister ==
  ASSUME IInv, Layout, IInv',
         \/ Register \/ handle_assignment_pattern \/ register_other \/ register_top_level_module
         \/ start_analysis
  PROVE  Layout'
<1>1. CASE pc' = "register"
  <2>1. ASSUME NEW c \in DOMAIN defs', Subclass(c)' PROVE FALSE
    <3>1. \A i \in 1..builtin_num : ~HasAst(defs'[i])
      BY DEF IInv, BuiltinsRight
    <3>2. IsList(defs')
      BY DEF IInv, Typed
    <3>3. c > builtin_num
      <4>1. c \in Nat /\ c >= 1
        BY <2>1, <3>2, ListFacts
      <4>2. HasAst(defs'[c])
        BY <2>1 DEF Subclass
      <4>. QED
        BY <3>1, <4>1, <4>2, PrimFacts
    <3>4. defs'[c].ancestors = <<>>
      BY <1>1, <2>1, <3>3 DEF Subclass, IInv, Ancestry, AncestorsStart, Unbased
    <3>. QED
      BY <2>1, <3>4, EmptyList DEF Subclass
  <2>. QED
    BY <2>1 DEF Layout, ParentsBefore, ExtendsParent
<1>2. CASE pc' # "register"
  <2>1. UNCHANGED defs /\ pc' \in {"failed", "bases"}
    <3>1. ASSUME Register PROVE UNCHANGED defs /\ pc' = "failed"
      BY <1>2, <3>1 DEF Register, register_class, register_function, Stop
    <3>2. ASSUME handle_assignment_pattern PROVE UNCHANGED defs /\ pc' = "failed"
      BY <1>2, <3>2 DEF handle_assignment_pattern, Stop
    <3>3. ASSUME register_other PROVE UNCHANGED defs /\ pc' = "failed"
      BY <1>2, <3>3 DEF register_other, Stop
    <3>4. ASSUME register_top_level_module PROVE FALSE
      BY <1>2, <3>4 DEF register_top_level_module
    <3>5. ASSUME start_analysis PROVE UNCHANGED defs /\ pc' = "bases"
      BY <3>5 DEF start_analysis, Step
    <3>. QED
      BY <3>1, <3>2, <3>3, <3>4, <3>5
  <2>2. \A c : ~HasMembers(c)'
    BY <2>1 DEF HasMembers
  <2>. QED
    BY <2>1, <2>2, LayoutFrame
<1>. QED
  BY <1>1, <1>2

\* The bases of the classes.
LEMMA LayoutBases ==
  ASSUME IInv, Layout, Stable, analyze_top_level_class_definition \/ end_class_definition
  PROVE  Layout'
<1>1. ASSUME analyze_top_level_class_definition PROVE Layout'
  <2>1. pc = "bases" /\ pc' \in {"bases", "panic"} /\ at \in DOMAIN defs
    <3>1. pc = "bases" /\ at <= Len(defs) /\ pc' \in {"bases", "panic"}
      BY <1>1 DEF analyze_top_level_class_definition
    <3>2. at > 0
      BY <3>1, PrimFacts DEF IInv, Typed
    <3>. QED
      BY <3>1, <3>2, Places
  <2>2. \A c : ~HasMembers(c)'
    BY <2>1 DEF HasMembers
  <2>3. CASE ~IsClass(defs[at]) \/ ~HasAst(defs[at])
    <3>1. UNCHANGED defs
      BY <1>1, <2>3 DEF analyze_top_level_class_definition
    <3>. QED
      BY <2>2, <3>1, LayoutFrame
  <2>4. CASE IsClass(defs[at]) /\ HasAst(defs[at])
    <3>1. PICK ts, ancestors :
            /\ defs' = [defs EXCEPT ![at].type_vars = ts, ![at].ancestors = ancestors]
            /\ Len(ancestors) > 1 => ancestors[2][2] \in 1..(at - 1)
      BY <1>1, <2>4, BasesWritten
    <3>2. DOMAIN defs[at] = ClassFields /\ at \in Nat
      BY <2>1, <2>4 DEF IInv, Typed, Definition, IsClass
    <3>3. PICK e : e = [defs[at] EXCEPT !.type_vars = ts, !.ancestors = ancestors] /\ defs' = [defs EXCEPT ![at] = e]
      BY <2>1, <3>1
    <3>4. e.ancestors = ancestors
      BY <3>2, <3>3 DEF ClassFields
    <3>5. /\ DOMAIN defs' = DOMAIN defs /\ defs'[at] = e
          /\ \A i \in DOMAIN defs : i # at => defs'[i] = defs[i]
      BY <2>1, <3>3
    <3>6. ASSUME NEW c \in DOMAIN defs', Subclass(c)' PROVE ParentId(c)' < c
      <4>1. CASE c = at
        BY <3>1, <3>2, <3>4, <3>5, <3>6, <4>1 DEF Subclass, ParentId
      <4>2. CASE c # at
        BY <3>5, <3>6, <4>2 DEF Layout, ParentsBefore, Subclass, ParentId
      <4>. QED
        BY <4>1, <4>2
    <3>. QED
      BY <2>2, <3>6 DEF Layout, ParentsBefore, ExtendsParent
  <2>. QED
    BY <2>3, <2>4
<1>2. ASSUME end_class_definition PROVE Layout'
  <2>. DEFINE self == make_self(<<>>, PrimId("Exception"))
  <2>1. /\ defs' = [defs EXCEPT ![9].ancestors = Append(@, self)]
        /\ pc' = "failed" \/ (pc' = "members" /\ at' = builtin_num + 1)
    BY <1>2, PrimFacts DEF end_class_definition, Stop, Step
  <2>. HIDE DEF self
  <2>2. /\ 9 \in DOMAIN defs /\ ~HasAst(defs[9]) /\ DOMAIN defs[9] = ClassFields
    <3>1. builtin_num <= Len(defs) /\ \A i \in DOMAIN defs : Definition(defs[i])
      BY DEF IInv, Typed
    <3>2. 9 \in DOMAIN defs
      BY <3>1, Places
    <3>3. IsClass(defs[9]) /\ \A i \in 1..18 : ~HasAst(defs[i])
      BY PrimFacts DEF IInv, BuiltinsRight
    <3>4. 9 \in 1..18
      OBVIOUS
    <3>5. ~HasAst(defs[9])
      BY <3>3, <3>4
    <3>6. Definition(defs[9])
      BY <3>1, <3>2
    <3>7. DOMAIN defs[9] = ClassFields
      BY <3>3, <3>6 DEF Definition, IsClass
    <3>. QED
      BY <3>2, <3>5, <3>7
  <2>3. PICK e : (\E x : e = [defs[9] EXCEPT !.ancestors = x]) /\ defs' = [defs EXCEPT ![9] = e]
    BY <2>1, Zenon
  <2>4. e.fields = defs[9].fields /\ e.attributes = defs[9].attributes /\ e.methods = defs[9].methods
    BY <2>2, <2>3 DEF ClassFields
  <2>5. /\ DOMAIN defs' = DOMAIN defs /\ defs'[9] = e
        /\ \A i \in DOMAIN defs : i # 9 => defs'[i] = defs[i]
    BY <2>2, <2>3
  <2>6. \A i \in DOMAIN defs : /\ SameMembers(defs[i], defs'[i])
                               /\ HasAst(defs[i]) => defs'[i].ancestors = defs[i].ancestors
    BY <2>2, <2>4, <2>5 DEF SameMembers
  <2>7. \A c \in DOMAIN defs : Subclass(c) => ~HasMembers(c)'
    BY <2>1, Places DEF HasMembers, Subclass
  <2>. QED
    BY <2>5, <2>6, <2>7, LayoutKept
<1>. QED
  BY <1>1, <1>2

\* The members of the classes.
LEMMA LayoutMembers ==
  ASSUME IInv, Layout, Stable, analyze_top_level_class_fields_methods \/ end_class_fields_methods
  PROVE  Layout'
<1>1. ASSUME end_class_fields_methods PROVE Layout'
  <2>1. /\ UNCHANGED defs /\ pc = "members" /\ at > Len(defs)
        /\ pc' = "failed" \/ (errors = {} /\ pc' = "functions")
    BY <1>1 DEF end_class_fields_methods, EndOf, Step, Stop
  <2>2. \A c \in DOMAIN defs : HasMembers(c)' => HasMembers(c)
    BY <2>1, Places DEF HasMembers
  <2>. QED
    BY <2>1, <2>2, LayoutFrame
<1>2. ASSUME analyze_top_level_class_fields_methods PROVE Layout'
  <2>1. pc = "members" /\ at \in DOMAIN defs
    <3>1. pc = "members" /\ at <= Len(defs)
      BY <1>2 DEF analyze_top_level_class_fields_methods
    <3>2. at > 0
      BY <3>1, PrimFacts DEF IInv, Typed
    <3>. QED
      BY <3>1, <3>2, Places
  <2>2. CASE ~(IsClass(defs[at]) /\ HasAst(defs[at]))
    <3>1. at' = at + 1 /\ UNCHANGED <<pc, defs, errors>>
      BY <1>2, <2>2 DEF analyze_top_level_class_fields_methods
    <3>2. \A c \in DOMAIN defs : Subclass(c) /\ HasMembers(c)' => HasMembers(c)
      BY <2>1, <2>2, <3>1, Places DEF HasMembers, Subclass
    <3>. QED
      BY <3>1, <3>2, LayoutFrame
  <2>3. CASE IsClass(defs[at]) /\ HasAst(defs[at])
    <3>1. \/ UNCHANGED defs /\ pc' \in {"panic", "failed"}
          \/ /\ pc' = "members" /\ at' = at + 1 /\ Membered(defs')
             /\ errors' = {} => errors = {} /\ Extended(defs')
      BY <1>2, <2>1, <2>3, MembersWrites
    <3>2. CASE UNCHANGED defs /\ pc' \in {"panic", "failed"}
      <4>1. \A c : ~HasMembers(c)'
        BY <3>2 DEF HasMembers
      <4>. QED
        BY <3>2, <4>1, LayoutFrame
    <3>3. CASE /\ pc' = "members" /\ at' = at + 1 /\ Membered(defs')
               /\ errors' = {} => errors = {} /\ Extended(defs')
      <4>1. DOMAIN defs' = DOMAIN defs
        BY <3>3 DEF Membered
      <4>2. ASSUME NEW c \in DOMAIN defs, Subclass(c)'
            PROVE  Subclass(c) /\ ParentId(c)' = ParentId(c) /\ ParentId(c) < c
        <5>1. IsClass(defs[c]) /\ HasAst(defs[c])
          BY <4>2 DEF Subclass, Stable, IsClass, HasAst
        <5>2. defs'[c].ancestors = defs[c].ancestors
          BY <3>3, <5>1 DEF Membered
        <5>. QED
          BY <4>2, <5>1, <5>2 DEF Subclass, ParentId, Layout, ParentsBefore
      <4>3. ASSUME NEW c \in DOMAIN defs, Subclass(c)', HasMembers(c)'
            PROVE  Extends(defs'[c], defs'[ParentId(c)'])
        <5>1. PICK p : p = ParentId(c) /\ p = ParentId(c)' /\ p < c
          BY <4>2, <4>3
        <5>2. p \in DOMAIN defs /\ IsClass(defs[p]) /\ IsClass(defs[c]) /\ Subclass(c)
          BY <4>2, <4>3, <5>1, ParentFacts DEF Subclass
        <5>3. errors' = {} /\ c < at + 1
          BY <3>3, <4>3 DEF HasMembers
        <5>4. p # at /\ defs'[p] = defs[p]
          BY <2>1, <3>3, <5>1, <5>2, <5>3, Places DEF Membered
        <5>5. CASE c = at
          BY <3>3, <5>1, <5>2, <5>3, <5>4, <5>5 DEF Extended, Subclass
        <5>6. CASE c # at
          <6>1. defs'[c] = defs[c]
            BY <3>3, <5>2, <5>6 DEF Membered
          <6>2. HasMembers(c)
            BY <2>1, <3>3, <5>3, <5>6, Places DEF HasMembers
          <6>3. Extends(defs[c], defs[p])
            BY <5>1, <5>2, <6>2 DEF Layout, ExtendsParent
          <6>. QED
            BY <5>1, <5>4, <6>1, <6>3
        <5>. QED
          BY <5>5, <5>6
      <4>4. ParentsBefore'
        BY <4>1, <4>2 DEF ParentsBefore
      <4>5. ExtendsParent'
        BY <4>1, <4>3 DEF ExtendsParent
      <4>. QED
        BY <4>4, <4>5 DEF Layout
    <3>. QED
      BY <3>1, <3>2, <3>3
  <2>. QED
    BY <2>2, <2>3
<1>. QED
  BY <1>1, <1>2

\* The steps after those for classes.
LEMMA LayoutLate ==
  ASSUME IInv, Layout, Stable,
         \/ analyze_top_level_function \/ end_functions \/ analyze_constructor \/ end_constructors
         \/ analyze_function_instance \/ end_instances
  PROVE  Layout'
<1>1. \A c : HasMembers(c)
  BY DEF HasMembers, analyze_top_level_function, end_functions, EndOf, analyze_constructor,
         end_constructors, analyze_function_instance, end_instances
<1>2. CASE UNCHANGED defs
  BY <1>1, <1>2, LayoutFrame
<1>3. ASSUME NEW e, NEW i \in DOMAIN defs, defs' = [defs EXCEPT ![i] = e],
             IsClass(defs[i]) => SameMembers(defs[i], e) /\ e.ancestors = defs[i].ancestors
      PROVE  Layout'
  <2>1. /\ DOMAIN defs' = DOMAIN defs /\ defs'[i] = e
        /\ \A j \in DOMAIN defs : j # i => defs'[j] = defs[j]
    BY <1>3
  <2>2. \A j \in DOMAIN defs : SameMembers(defs[j], defs[j])
    BY DEF SameMembers
  <2>3. \A j \in DOMAIN defs : IsClass(defs[j]) =>
          SameMembers(defs[j], defs'[j]) /\ defs'[j].ancestors = defs[j].ancestors
    BY <1>3, <2>1, <2>2
  <2>. QED
    BY <1>1, <2>1, <2>3, LayoutKept
<1>4. at <= Len(defs) /\ pc \in {"functions", "constructors", "instances"} => at \in DOMAIN defs
  <2>1. pc \in {"functions", "constructors", "instances"} => at > 0
    BY PrimFacts DEF IInv, Typed
  <2>. QED
    BY <2>1, Places
<1>5. ASSUME IsFunction(defs[at]), at \in DOMAIN defs, \E e : defs' = [defs EXCEPT ![at] = e]
      PROVE  Layout'
  BY <1>3, <1>5, Places
<1>6. ASSUME analyze_top_level_function PROVE Layout'
  <2>1. at \in DOMAIN defs
    BY <1>4, <1>6 DEF analyze_top_level_function
  <2>2. UNCHANGED defs \/ (IsFunction(defs[at]) /\ \E e : defs' = [defs EXCEPT ![at] = e])
    BY <1>6, FunctionWrites, Zenon
  <2>. QED
    BY <1>2, <1>5, <2>1, <2>2
<1>7. ASSUME analyze_function_instance PROVE Layout'
  <2>1. at \in DOMAIN defs
    BY <1>4, <1>7 DEF analyze_function_instance
  <2>2. UNCHANGED defs \/ (IsFunction(defs[at]) /\ \E e : defs' = [defs EXCEPT ![at] = e])
    BY <1>7, InstanceWrites, Zenon
  <2>. QED
    BY <1>2, <1>5, <2>1, <2>2
<1>8. ASSUME analyze_constructor PROVE Layout'
  <2>1. at \in DOMAIN defs
    BY <1>4, <1>8 DEF analyze_constructor
  <2>2. UNCHANGED defs \/ (IsClass(defs[at]) /\ \E x : defs' = [defs EXCEPT ![at].constructor = x])
    BY <1>8, ConstructorWrites, Zenon
  <2>3. ASSUME IsClass(defs[at]), NEW x, defs' = [defs EXCEPT ![at].constructor = x] PROVE Layout'
    <3>1. DOMAIN defs[at] = ClassFields
      BY <2>1, <2>3 DEF IInv, Typed, Definition, IsClass
    <3>2. PICK e : e = [defs[at] EXCEPT !.constructor = x] /\ defs' = [defs EXCEPT ![at] = e]
      BY <2>1, <2>3
    <3>3. /\ e.fields = defs[at].fields /\ e.attributes = defs[at].attributes /\ e.methods = defs[at].methods
          /\ e.ancestors = defs[at].ancestors
      BY <3>1, <3>2 DEF ClassFields
    <3>4. SameMembers(defs[at], e)
      BY <3>3 DEF SameMembers
    <3>. QED
      BY <1>3, <2>1, <3>2, <3>3, <3>4
  <2>. QED
    BY <1>2, <2>2, <2>3
<1>9. ASSUME end_constructors PROVE Layout'
  <2>1. CASE errors # {}
    BY <1>2, <1>9, <2>1 DEF end_constructors
  <2>2. CASE errors = {}
    <3>1. /\ \A i \in DOMAIN defs' \ DOMAIN defs : ~HasAst(defs'[i])
          /\ \A i \in DOMAIN defs :
               \/ defs'[i] = defs[i]
               \/ \E x : defs'[i] = [defs[i] EXCEPT !.methods = Append(@, Method("__init__", x))]
      BY <1>9, <2>2, ConstructorsAdded
    <3>2. ASSUME NEW i \in DOMAIN defs, IsClass(defs[i])
          PROVE  SameMembers(defs[i], defs'[i]) /\ defs'[i].ancestors = defs[i].ancestors
      <4>1. CASE defs'[i] = defs[i]
        BY <4>1 DEF SameMembers
      <4>2. ASSUME NEW x, defs'[i] = [defs[i] EXCEPT !.methods = Append(@, Method("__init__", x))]
            PROVE  SameMembers(defs[i], defs'[i]) /\ defs'[i].ancestors = defs[i].ancestors
        <5>. DEFINE m == Method("__init__", x)
                    ms == Append(defs[i].methods, m)
        <5>1. DOMAIN defs[i] = ClassFields /\ IsList(defs[i].methods)
          BY <3>2 DEF IInv, Typed, Definition, IsClass
        <5>2. Range(ms) = Range(defs[i].methods) \cup {m}
          BY <5>1, AppendList
        <5>3. m.name = "__init__"
          BY DEF Method
        <5>4. PICK e : e = defs'[i] /\ e = [defs[i] EXCEPT !.methods = ms]
          BY <4>2
        <5>. HIDE DEF m, ms
        <5>5. /\ e.methods = ms /\ e.fields = defs[i].fields /\ e.attributes = defs[i].attributes
              /\ e.ancestors = defs[i].ancestors
          BY <5>1, <5>4 DEF ClassFields
        <5>6. NamesOf(ms) = NamesOf(defs[i].methods) \cup {"__init__"}
          BY <5>2, <5>3 DEF NamesOf
        <5>. QED
          BY <5>4, <5>5, <5>6 DEF SameMembers
      <4>. QED
        BY <3>1, <4>1, <4>2
    <3>. QED
      BY <1>1, <3>1, <3>2, LayoutKept
  <2>. QED
    BY <2>1, <2>2
<1>10. ASSUME end_functions \/ end_instances PROVE Layout'
  BY <1>2, <1>10 DEF end_functions, EndOf, end_instances
<1>. QED
  BY <1>6, <1>7, <1>8, <1>9, <1>10

\* Every class goes on as an extension of its parent.
LEMMA LayoutStep ==
  ASSUME IInv, Layout, [Next]_vars
  PROVE  Layout'
<1>1. IInv' /\ [Stable]_vars
  BY NextInv
<1>2. CASE UNCHANGED vars
  <2>1. UNCHANGED <<defs, pc, at, errors>>
    BY <1>2 DEF vars
  <2>2. \A c : HasMembers(c)' <=> HasMembers(c)
    BY <2>1 DEF HasMembers
  <2>. QED
    BY <2>1, <2>2, LayoutFrame
<1>3. CASE ~UNCHANGED vars
  <2>1. Next /\ IInv' /\ Stable
    BY <1>1, <1>3
  <2>. QED
    BY <2>1, LayoutRegister, LayoutBases, LayoutMembers, LayoutLate DEF Next
<1>. QED
  BY <1>2, <1>3

-----------------------------------------------------------------------------
(* The theorems                                                            *)

\* The invariant is inductive.
THEOREM InvariantHolds == Spec => []IInv
<1>1. Init => IInv
  BY InitInv
<1>2. IInv /\ [Next]_vars => IInv'
  BY NextInv
<1>. QED
  BY <1>1, <1>2, PTL DEF Spec

\* For every program, whatever the analyses find: no two definitions have the same name; methods, scopes
\* and ancestors lead to definitions of the right kind that were registered before; a class has the
\* ancestors of its ancestors, and only methods that it or one of them declares; its fields and attributes
\* begin with its parent's, and it has all of the parent's methods but for a constructor; and no signature is
\* missing where a later step reads it, or in the end.
THEOREM ComposerDefinitionsAgree == Spec => []DefinitionsAgree
<1>1. IInv /\ SignedSoFar /\ Layout => DefinitionsAgree
  <2>1. MethodsRight => MethodsInherited
    BY DEF MethodsRight, MethodsInherited, Inherits, MadeConstructor
  <2>2. SignedSoFar => SignaturesGiven
    BY DEF SignedSoFar, SignaturesGiven
  <2>. QED
    BY <2>1, <2>2 DEF IInv, Tables, Ancestry, DefinitionsAgree, Layout
<1>2. Init => SignedSoFar /\ Layout
  <2>1. Init => SignedSoFar
    BY DEF Init, SignedSoFar
  <2>2. Init => Layout
    BY InitInv, LayoutEmpty DEF Init
  <2>. QED
    BY <2>1, <2>2
<1>3. IInv /\ SignedSoFar /\ Layout /\ [Next]_vars => SignedSoFar' /\ Layout'
  BY SignedStep, LayoutStep
<1>. QED
  BY <1>1, <1>2, <1>3, InvariantHolds, PTL DEF Spec

\* A DefinitionId that has been handed out denotes the same definition for ever, although the list is
\* rebuilt by later analyses and by the constructors that are appended; a signature is never replaced.
THEOREM ComposerDefinitionsStable == Spec => DefinitionsStable
<1>1. IInv /\ [Next]_vars => [Stable]_vars
  BY NextInv
<1>2. Spec => [][Stable]_vars
  BY <1>1, InvariantHolds, PTL DEF Spec
<1>. QED
  BY <1>2, PTL DEF DefinitionsStable, Stable

=================================================================================
