------------------------ MODULE RuntimeBuilderProofs ------------------------
(***************************************************************************)
(* A runtime is built from sound archives and from no others, and nothing  *)
(* leaks from a build, for every set of downloads, whatever is in them,    *)
(* and whichever constructor fails.                                        *)
(*                                                                         *)
(* What the functions of ContractArchive compute is defined by recursion:  *)
(* SolutionExists shows that such definitions have the values they say,    *)
(* and a least element of the counterexamples takes the place of           *)
(* induction.  Then UnpacksSound, IncludesSound and RoutesSound compare    *)
(* Unpack, LoadArchive and ExtractRoutes with SoundArchive, part by part.  *)
(***************************************************************************)
EXTENDS RuntimeBuilder, TLAPS, FiniteSetTheorems, WellFoundedInduction

(* Recursion                                                               *)

\* Every nonempty subset of S has an element that nothing in it is below.
Founded(R, S) ==
    /\ \A T \in SUBSET S : T # {} => \E x \in T : \A y \in T : <<y, x>> \notin R
    /\ \A x, y, z \in S : <<x, y>> \in R /\ <<y, z>> \in R => <<x, z>> \in R

\* phi[g][x] depends only on what g is below x.
LooksBelow(phi, R, S, A) ==
    /\ \A g \in [S -> A] : phi[g] \in [S -> A]
    /\ \A g, h \in [S -> A] : \A x \in S :
      (\A y \in S : <<y, x>> \in R => g[y] = h[y]) => phi[g][x] = phi[h][x]

SolvedUpTo(g, x, phi, R, S) == \A z \in S : z = x \/ <<z, x>> \in R => g[z] = phi[g][z]

\* Two solutions up to x are the same up to x.
LEMMA SolutionUnique ==
  ASSUME NEW R, NEW S, NEW A, NEW phi, NEW x, NEW g, NEW h,
         Founded(R, S), LooksBelow(phi, R, S, A), x \in S, g \in [S -> A], h \in [S -> A],
         SolvedUpTo(g, x, phi, R, S), SolvedUpTo(h, x, phi, R, S)
  PROVE  \A z \in S : z = x \/ <<z, x>> \in R => g[z] = h[z]
<1> DEFINE T == {z \in S : (z = x \/ <<z, x>> \in R) /\ g[z] # h[z]}
<1>1. SUFFICES ASSUME T # {} PROVE FALSE
  OBVIOUS
<1>2. PICK z \in T : \A y \in T : <<y, z>> \notin R
  BY <1>1 DEF Founded
<1>3. \A y \in S : <<y, z>> \in R => g[y] = h[y]
  BY <1>2 DEF Founded
<1>4. phi[g][z] = phi[h][z]
  BY <1>2, <1>3 DEF LooksBelow
<1> QED BY <1>2, <1>4 DEF SolvedUpTo

\* A solution up to x is one up to everything below x.
LEMMA SolutionBelow ==
  ASSUME NEW R, NEW S, NEW A, NEW phi, NEW x, NEW z, NEW g, NEW h,
         Founded(R, S), LooksBelow(phi, R, S, A), x \in S, z \in S, <<z, x>> \in R, g \in [S -> A], h \in [S -> A],
         SolvedUpTo(g, x, phi, R, S), SolvedUpTo(h, z, phi, R, S)
  PROVE  g[z] = h[z]
<1>1. SolvedUpTo(g, z, phi, R, S)
  <2>1. \A y \in S : y = z \/ <<y, z>> \in R => <<y, x>> \in R
    BY DEF Founded
  <2> QED BY <2>1 DEF SolvedUpTo
<1>2. \A y \in S : y = z \/ <<y, z>> \in R => g[y] = h[y]
  BY <1>1, SolutionUnique
<1> QED BY <1>2

\* What solves the equation everywhere, put together from the solutions up to each
\* element.
LEMMA SolutionJoined ==
  ASSUME NEW R, NEW S, NEW A, NEW phi, NEW D, NEW c, NEW f,
         Founded(R, S), LooksBelow(phi, R, S, A),
         D \in SUBSET S, \A x \in D, z \in S : <<z, x>> \in R => z \in D,
         c \in [D -> [S -> A]], \A x \in D : SolvedUpTo(c[x], x, phi, R, S),
         f \in [S -> A], \A x \in D : f[x] = c[x][x]
  PROVE  \A x \in D : f[x] = phi[f][x]
<1> SUFFICES ASSUME NEW x \in D PROVE f[x] = phi[f][x]
  OBVIOUS
<1>1. ASSUME NEW z \in S, <<z, x>> \in R PROVE c[x][z] = f[z]
  <2>1. z \in D /\ x \in S
    BY <1>1
  <2>2. c[x] \in [S -> A] /\ c[z] \in [S -> A] /\ SolvedUpTo(c[x], x, phi, R, S) /\ SolvedUpTo(c[z], z, phi, R, S)
    BY <2>1
  <2>3. c[x][z] = c[z][z]
    BY ONLY <1>1, <2>1, <2>2, SolutionBelow, Founded(R, S), LooksBelow(phi, R, S, A), z \in S
  <2> QED BY <2>1, <2>3
<1>2. phi[c[x]][x] = phi[f][x]
  BY <1>1 DEF LooksBelow
<1>3. c[x][x] = phi[c[x]][x]
  BY DEF SolvedUpTo
<1> QED BY <1>2, <1>3

\* An equation whose right side looks only below each element has a solution: what a
\* recursive function definition relies on.
LEMMA SolutionExists ==
  ASSUME NEW R, NEW S, NEW A, NEW phi, Founded(R, S), LooksBelow(phi, R, S, A), A # {}
  PROVE  \E f \in [S -> A] : f = phi[f]
<1> PICK a \in A : TRUE
  OBVIOUS
<1> DEFINE Solved(g, x) == SolvedUpTo(g, x, phi, R, S)
<1>1. \A x \in S : \E g \in [S -> A] : Solved(g, x)
  <2> DEFINE T == {x \in S : ~\E g \in [S -> A] : Solved(g, x)}
  <2>1. SUFFICES ASSUME T # {} PROVE FALSE
    OBVIOUS
  <2>2. PICK x \in T : \A y \in T : <<y, x>> \notin R
    <3> HIDE DEF T
    <3>1. T \in SUBSET S
      BY DEF T
    <3> QED BY <2>1, <3>1 DEF Founded
  <2> DEFINE D == {y \in S : <<y, x>> \in R}
             c == [y \in D |-> CHOOSE g \in [S -> A] : Solved(g, y)]
             f == [y \in S |-> IF y \in D THEN c[y][y] ELSE a]
             h == [y \in S |-> IF y = x THEN phi[f][x] ELSE f[y]]
  <2>3. \A y \in D : \E g \in [S -> A] : Solved(g, y)
    BY <2>2
  <2>4. \A y \in D : c[y] \in [S -> A] /\ Solved(c[y], y)
    <3> HIDE DEF Solved
    <3> QED BY <2>3
  <2>5. c \in [D -> [S -> A]]
    <3> HIDE DEF Solved
    <3> QED BY <2>4
  <2>6. f \in [S -> A] /\ \A y \in D : f[y] = c[y][y]
    <3>1. ASSUME NEW y \in D PROVE c[y][y] \in A
      <4> HIDE DEF c, Solved
      <4> QED BY <2>4
    <3> HIDE DEF c
    <3> QED BY <3>1
  <2>7. \A y \in D, z \in S : <<z, y>> \in R => z \in D
    BY <2>2 DEF Founded
  <2>8. \A y \in D : f[y] = phi[f][y]
    <3> HIDE DEF c, f, D
    <3>1. D \in SUBSET S
      BY DEF D
    <3> QED BY <2>4, <2>5, <2>6, <2>7, <3>1, SolutionJoined
  <2>9. phi[f] \in [S -> A]
    <3> HIDE DEF f
    <3> QED BY <2>6 DEF LooksBelow
  <2>10. h \in [S -> A] /\ h[x] = phi[f][x] /\ \A y \in S : y # x => h[y] = f[y]
    <3> HIDE DEF f
    <3> QED BY <2>6, <2>9, <2>2
  <2>11. x \notin D
    <3>1. \E y \in {x} : \A z \in {x} : <<z, y>> \notin R
      BY <2>2 DEF Founded
    <3> QED BY <3>1
  <2>12. \A y \in S : y = x \/ y \in D => phi[h][y] = phi[f][y]
    <3> HIDE DEF c, f, h, T
    <3>1. \A y \in S : y = x \/ y \in D => \A z \in S : <<z, y>> \in R => h[z] = f[z]
      BY <2>7, <2>10, <2>11
    <3> QED BY <2>6, <2>10, <3>1 DEF LooksBelow
  <2>13. Solved(h, x)
    <3> HIDE DEF f, h, T
    <3> QED BY <2>8, <2>10, <2>11, <2>12 DEF SolvedUpTo
  <2> QED
    <3> HIDE DEF f, h, Solved
    <3> QED BY <2>2, <2>10, <2>13
<1> DEFINE c == [x \in S |-> CHOOSE g \in [S -> A] : Solved(g, x)]
           f == [x \in S |-> c[x][x]]
<1>2. \A x \in S : c[x] \in [S -> A] /\ Solved(c[x], x)
  <2> HIDE DEF Solved
  <2> QED BY <1>1
<1>3. c \in [S -> [S -> A]] /\ f \in [S -> A]
  <2> HIDE DEF Solved
  <2> QED BY <1>2
<1>4. \A x \in S : f[x] = phi[f][x]
  <2>1. \A x \in S : f[x] = c[x][x]
    BY DEF f
  <2>2. PICK D : D = S
    OBVIOUS
  <2>3. D \in SUBSET S /\ \A x \in D, z \in S : <<z, x>> \in R => z \in D
    BY <2>2
  <2>4. c \in [D -> [S -> A]] /\ \A x \in D : SolvedUpTo(c[x], x, phi, R, S)
    <3> HIDE DEF c
    <3> QED BY <1>2, <1>3, <2>2
  <2>5. f \in [S -> A] /\ \A x \in D : f[x] = c[x][x]
    BY <1>3, <2>1, <2>2
  <2>6. \A x \in D : f[x] = phi[f][x]
    <3> HIDE DEF c, f
    <3> QED BY <2>3, <2>4, <2>5, SolutionJoined
  <2> QED BY <2>2, <2>6
<1>5. f = phi[f]
  <2> HIDE DEF f
  <2> QED BY <1>3, <1>4 DEF LooksBelow
<1> QED BY <1>3, <1>5

\* What stands in for induction: numbers of any kind have a least one.
LEMMA Least ==
  ASSUME NEW T \in SUBSET Nat, T # {}
  PROVE  \E x \in T : \A y \in T : x <= y
<1> DEFINE R == {p \in Nat \X Nat : p[1] < p[2]}
<1>1. IsWellFoundedOn(R, Nat)
  BY NatLessThanWellFounded DEF OpToRel
<1> HIDE DEF R
<1>2. PICK x \in T : \A y \in T : ~(<<y, x>> \in R)
  BY <1>1, WFMin
<1>3. \A y \in T : ~(y < x)
  BY <1>2 DEF R
<1> QED BY <1>3

\* x comes before y by mu, or by nu if mu does not tell them apart.
Lex(mu, nu, S) ==
    {p \in S \X S : mu[p[1]] < mu[p[2]] \/ (mu[p[1]] = mu[p[2]] /\ nu[p[1]] < nu[p[2]])}

\* Two measures make a recursion well founded.
LEMMA LexFounded ==
  ASSUME NEW S, NEW mu \in [S -> Nat], NEW nu \in [S -> Nat]
  PROVE  Founded(Lex(mu, nu, S), S)
<1> DEFINE R == Lex(mu, nu, S)
<1>1. \A x, y \in S : <<x, y>> \in R <=> mu[x] < mu[y] \/ (mu[x] = mu[y] /\ nu[x] < nu[y])
  BY DEF Lex
<1> HIDE DEF R
<1>2. ASSUME NEW T \in SUBSET S, T # {} PROVE \E x \in T : \A y \in T : <<y, x>> \notin R
  <2> DEFINE M == {mu[x] : x \in T}
  <2>1. M \in SUBSET Nat /\ M # {}
    BY <1>2
  <2>2. PICK m \in M : \A y \in M : m <= y
    <3> HIDE DEF M
    <3> QED BY <2>1, Least
  <2> DEFINE N == {nu[x] : x \in {z \in T : mu[z] = m}}
  <2>3. N \in SUBSET Nat /\ N # {}
    BY <2>2
  <2>4. PICK n \in N : \A y \in N : n <= y
    <3> HIDE DEF N
    <3> QED BY <2>3, Least
  <2>5. PICK x \in T : mu[x] = m /\ nu[x] = n
    BY <2>4
  <2>6. \A y \in T : m <= mu[y] /\ (mu[y] = m => n <= nu[y])
    BY <2>2, <2>4
  <2> QED BY <2>5, <2>6, <1>1
<1>3. \A x, y, z \in S : <<x, y>> \in R /\ <<y, z>> \in R => <<x, z>> \in R
  BY <1>1
<1> QED BY <1>2, <1>3 DEF R, Founded
-----------------------------------------------------------------------------
(* Unpack: names and sizes                                                 *)

\* What total is, in Unpack (fetcher.go:112).
LEMMA TotalIsRecursive ==
  ASSUME NEW es, Len(es) \in Nat, \A i \in 1 .. Len(es) : es[i].claimed \in Nat
  PROVE  \A i \in 1 .. Len(es) :
           TotalBefore(es)[i] =
             IF i = 1 THEN 0
             ELSE (TotalBefore(es)[i - 1] + (IF IsDir(es[i - 1]) THEN 0 ELSE es[i - 1].claimed)) % 2 ^ W
<1> DEFINE S == 1 .. Len(es)
           A == Nat
           next(g, i) == IF i = 1 THEN 0
                         ELSE (g[i - 1] + (IF IsDir(es[i - 1]) THEN 0 ELSE es[i - 1].claimed)) % 2 ^ W
           mu == [i \in S |-> i]
           R == Lex(mu, mu, S)
           phi == [g \in [S -> A] |-> [i \in S |-> next(g, i)]]
<1>1. Founded(R, S)
  <2>1. mu \in [S -> Nat]
    OBVIOUS
  <2> HIDE DEF mu, S
  <2> QED BY <2>1, LexFounded
<1>2. \A i, j \in S : <<i, j>> \in R <=> i < j
  BY DEF Lex
<1>3. ASSUME NEW g \in [S -> A], NEW i \in S PROVE next(g, i) \in A
  <2>1. i # 1 => g[i - 1] + (IF IsDir(es[i - 1]) THEN 0 ELSE es[i - 1].claimed) \in Nat
    OBVIOUS
  <2> QED BY <2>1, SizesAreWords
<1>4. ASSUME NEW g \in [S -> A], NEW h \in [S -> A], NEW i \in S, \A j \in S : <<j, i>> \in R => g[j] = h[j]
      PROVE  next(g, i) = next(h, i)
  <2>1. i # 1 => i - 1 \in S /\ <<i - 1, i>> \in R
    <3> HIDE DEF R
    <3> QED BY <1>2
  <2> HIDE DEF R, S
  <2> QED BY <1>4, <2>1
<1>5. LooksBelow(phi, R, S, A)
  <2> HIDE DEF next, R, S, A
  <2>1. \A g \in [S -> A] : phi[g] \in [S -> A] /\ \A i \in S : phi[g][i] = next(g, i)
    BY <1>3
  <2> HIDE DEF phi
  <2>2. ASSUME NEW g \in [S -> A], NEW h \in [S -> A], NEW i \in S, \A j \in S : <<j, i>> \in R => g[j] = h[j]
        PROVE  phi[g][i] = phi[h][i]
    BY <2>1, <2>2, <1>4
  <2> QED BY <2>1, <2>2 DEF LooksBelow
<1>6. PICK f \in [S -> A] : f = phi[f]
  <2>1. A # {}
    OBVIOUS
  <2> HIDE DEF phi, R, S, A
  <2> QED BY <1>1, <1>5, <2>1, SolutionExists
<1>7. f = [i \in S |-> next(f, i)]
  <2> HIDE DEF next
  <2> QED BY <1>6
<1>8. TotalBefore(es) = [i \in S |-> next(TotalBefore(es), i)]
  BY <1>7, Zenon DEF TotalBefore
<1>9. \A i \in S : TotalBefore(es)[i] = next(TotalBefore(es), i)
  <2> HIDE DEF next, S
  <2> QED BY <1>8
<1> QED BY <1>9

\* Words that did not wrap.
LEMMA SmallMod == ASSUME NEW m \in Nat, NEW x \in Nat, x < m PROVE x % m = x
OBVIOUS

\* sum[s] is the size of the files s, for any of the files fs.
IsSum(sum, es, fs) ==
    /\ sum \in [SUBSET fs -> Nat]
    /\ sum[{}] = 0
    /\ \A s \in SUBSET fs : \A i \in s : sum[s] = es[i].actual + sum[s \ {i}]

\* SizeOf adds up one element at a time, whichever comes first.
LEMMA SumIsAdditive ==
  ASSUME NEW es, NEW fs, IsFiniteSet(fs), \A i \in fs : es[i].actual \in Nat
  PROVE  \E sum : IsSum(sum, es, fs) /\ sum[fs] = SizeOf(es, fs)
<1> DEFINE S == SUBSET fs
           A == Nat
           pick(s) == CHOOSE i \in s : TRUE
           next(g, s) == IF s = {} THEN 0 ELSE es[pick(s)].actual + g[s \ {pick(s)}]
           mu == [s \in S |-> Cardinality(s)]
           R == Lex(mu, mu, S)
           phi == [g \in [S -> A] |-> [s \in S |-> next(g, s)]]
<1>1. \A s \in S : IsFiniteSet(s) /\ mu[s] \in Nat
  <2> SUFFICES ASSUME NEW s \in S PROVE IsFiniteSet(s) /\ Cardinality(s) \in Nat
    OBVIOUS
  <2> QED BY FS_Subset, FS_CardinalityType
<1>2. Founded(R, S)
  <2>1. mu \in [S -> Nat]
    BY <1>1
  <2> HIDE DEF mu, S
  <2> QED BY <2>1, LexFounded
<1>3. \A s \in S : \A i \in s : s \ {i} \in S /\ <<s \ {i}, s>> \in R
  <2> SUFFICES ASSUME NEW s \in S, NEW i \in s PROVE Cardinality(s \ {i}) < Cardinality(s)
    BY DEF Lex
  <2>1. IsFiniteSet(s) /\ Cardinality(s) \in Nat
    BY <1>1
  <2>2. Cardinality(s \ {i}) = Cardinality(s) - 1
    BY <2>1, FS_RemoveElement
  <2> QED BY <2>1, <2>2
<1>4. \A s \in S : s # {} => pick(s) \in s
  OBVIOUS
<1>5. ASSUME NEW g \in [S -> A], NEW s \in S PROVE next(g, s) \in A
  <2> HIDE DEF pick
  <2> QED BY <1>3, <1>4
<1>6. ASSUME NEW g \in [S -> A], NEW h \in [S -> A], NEW s \in S, \A t \in S : <<t, s>> \in R => g[t] = h[t]
      PROVE  next(g, s) = next(h, s)
  <2> HIDE DEF R, S, pick
  <2> QED BY <1>6, <1>3, <1>4
<1>7. LooksBelow(phi, R, S, A)
  <2> HIDE DEF next, R, S, A
  <2>1. \A g \in [S -> A] : phi[g] \in [S -> A] /\ \A s \in S : phi[g][s] = next(g, s)
    BY <1>5
  <2> HIDE DEF phi
  <2>2. ASSUME NEW g \in [S -> A], NEW h \in [S -> A], NEW s \in S, \A t \in S : <<t, s>> \in R => g[t] = h[t]
        PROVE  phi[g][s] = phi[h][s]
    BY <2>1, <2>2, <1>6
  <2> QED BY <2>1, <2>2 DEF LooksBelow
<1>8. PICK f \in [S -> A] : f = phi[f]
  <2>1. A # {}
    OBVIOUS
  <2> HIDE DEF phi, R, S, A
  <2> QED BY <1>2, <1>7, <2>1, SolutionExists
<1> DEFINE sum == CHOOSE f1 : f1 = [s \in S |-> next(f1, s)]
<1>9. sum = [s \in S |-> next(sum, s)]
  <2>1. f = [s \in S |-> next(f, s)]
    <3> HIDE DEF next
    <3> QED BY <1>8
  <2> QED BY <2>1, Zenon
<1>10. sum[fs] = SizeOf(es, fs)
  BY Zenon DEF SizeOf, MapThenSumSet, MapThenFoldSet
<1>11. \A s \in S : sum[s] = next(sum, s)
  <2> HIDE DEF next, S, sum
  <2> QED BY <1>9
<1>12. /\ sum[{}] = 0
       /\ \A s \in S : s # {} => sum[s] = es[pick(s)].actual + sum[s \ {pick(s)}]
  <2> HIDE DEF sum, pick
  <2>1. {} \in S
    OBVIOUS
  <2> QED BY <1>11, <2>1
<1>13. \A s \in S : sum[s] \in Nat
  <2> DEFINE T == {s \in S : sum[s] \notin Nat}
  <2> SUFFICES ASSUME T # {} PROVE FALSE
    OBVIOUS
  <2> HIDE DEF sum, R, pick
  <2>1. PICK s \in T : \A t \in T : <<t, s>> \notin R
    BY <1>2 DEF Founded
  <2>2. s \in S /\ sum[s] \notin Nat /\ \A t \in S : <<t, s>> \in R => sum[t] \in Nat
    BY <2>1
  <2> HIDE DEF T, S
  <2>3. s # {}
    <3>1. 0 \in Nat
      OBVIOUS
    <3> QED BY <1>12, <2>2, <3>1, Zenon
  <2>4. sum[s \ {pick(s)}] \in Nat
    BY <1>3, <1>4, <2>2, <2>3
  <2>5. es[pick(s)].actual \in Nat
    BY <1>4, <2>2, <2>3 DEF S
  <2> QED BY <1>12, <2>2, <2>3, <2>4, <2>5
<1>14. \A s \in S : \A i \in s : sum[s] = es[i].actual + sum[s \ {i}]
  <2> DEFINE T == {s \in S : \E i \in s : sum[s] # es[i].actual + sum[s \ {i}]}
  <2> SUFFICES ASSUME T # {} PROVE FALSE
    OBVIOUS
  <2> HIDE DEF sum, R, pick
  <2>1. PICK s \in T : \A t \in T : <<t, s>> \notin R
    BY <1>2 DEF Founded
  <2>2. PICK i \in s : sum[s] # es[i].actual + sum[s \ {i}]
    OBVIOUS
  <2>3. PICK c \in s : sum[s] = es[c].actual + sum[s \ {c}]
    BY <1>4, <1>12
  <2>4. i # c /\ i \in s \ {c} /\ c \in s \ {i}
    BY <2>2, <2>3
  <2>5. s \ {c} \in S \ T /\ s \ {i} \in S \ T
    BY <1>3, <2>1
  <2>6. sum[s \ {c}] = es[i].actual + sum[(s \ {c}) \ {i}] /\ sum[s \ {i}] = es[c].actual + sum[(s \ {i}) \ {c}]
    BY <2>4, <2>5
  <2>7. (s \ {c}) \ {i} = (s \ {i}) \ {c} /\ (s \ {c}) \ {i} \in S
    OBVIOUS
  <2>8. sum[(s \ {c}) \ {i}] \in Nat /\ es[i].actual \in Nat /\ es[c].actual \in Nat
    BY <1>13, <2>7
  <2> DEFINE rest == sum[(s \ {c}) \ {i}]
  <2>9. sum[(s \ {i}) \ {c}] = rest
    BY <2>7
  <2> HIDE DEF rest, T
  <2>10. /\ sum[s] = es[c].actual + (es[i].actual + rest) /\ sum[s \ {i}] = es[c].actual + rest
        /\ rest \in Nat /\ es[i].actual \in Nat /\ es[c].actual \in Nat
    BY <2>3, <2>6, <2>8, <2>9 DEF rest
  <2> QED BY ONLY <2>2, <2>10
<1>15. sum \in [S -> Nat]
  <2> HIDE DEF sum, next
  <2> QED BY <1>9, <1>13
<1> HIDE DEF sum
<1> QED BY <1>10, <1>12, <1>14, <1>15 DEF IsSum

\* What TypedEntries says, by index.
LEMMA EntryFacts ==
  ASSUME NEW es, TypedEntries(es)
  PROVE  /\ Len(es) \in Nat /\ DOMAIN es = 1 .. Len(es)
         /\ \A i \in 1 .. Len(es) : es[i].name \in Seq(STRING) /\ es[i].claimed \in Nat /\ es[i].actual \in Nat
BY DEF TypedEntries

\* Unpack compares each name with those before it.
LEMMA NamesDistinct ==
  ASSUME NEW es, Len(es) \in Nat, DOMAIN es = 1 .. Len(es)
  PROVE  (\A i \in DOMAIN es : \A j \in 1 .. i - 1 : es[j].name # es[i].name)
           <=> Cardinality({es[i].name : i \in DOMAIN es}) = Len(es)
<1> DEFINE S == 1 .. Len(es)
           T == {es[i].name : i \in DOMAIN es}
           f == [i \in S |-> es[i].name]
<1>1. f \in Surjection(S, T)
  BY DEF Surjection
<1>2. IsFiniteSet(S) /\ Cardinality(S) = Len(es)
  <2>1. 1 \in Int /\ Len(es) \in Int /\ (IF 1 > Len(es) THEN 0 ELSE Len(es) - 1 + 1) = Len(es)
    OBVIOUS
  <2> QED BY <2>1, FS_Interval
<1>3. Cardinality(T) = Len(es) <=> f \in Injection(S, T)
  <2> HIDE DEF f, S, T
  <2> QED BY <1>1, <1>2, FS_Surjection
<1>4. f \in Injection(S, T) <=> \A i, j \in S : es[i].name = es[j].name => i = j
  BY DEF Injection, IsInjective
<1>5. (\A i \in DOMAIN es : \A j \in 1 .. i - 1 : es[j].name # es[i].name)
        <=> \A i, j \in S : es[i].name = es[j].name => i = j
  <2>1. ASSUME \A i \in DOMAIN es : \A j \in 1 .. i - 1 : es[j].name # es[i].name, NEW i \in S, NEW j \in S, i # j
        PROVE  es[i].name # es[j].name
    <3>1. i \in 1 .. j - 1 \/ j \in 1 .. i - 1
      BY <2>1
    <3> QED BY <2>1, <3>1
  <2> QED BY <2>1
<1> QED BY <1>3, <1>4, <1>5

\* One name is a directory of another.
LEMMA PrefixIsSubSeq ==
  ASSUME NEW s \in Seq(STRING), NEW t \in Seq(STRING), s # <<>>
  PROVE  IsStrictPrefix(s, t) <=> \E k \in 1 .. Len(t) - 1 : s = SubSeq(t, 1, k)
<1>1. SubSeq(s, 1, Len(s)) = s /\ SubSeq(t, 1, Len(t)) = t /\ Len(s) \in Nat \ {0} /\ Len(t) \in Nat
  OBVIOUS
<1>2. \A k \in 1 .. Len(t) : Len(SubSeq(t, 1, k)) = k
  OBVIOUS
<1>3. ASSUME IsStrictPrefix(s, t) PROVE \E k \in 1 .. Len(t) - 1 : s = SubSeq(t, 1, k)
  <2>1. Len(s) <= Len(t) /\ s = SubSeq(t, 1, Len(s)) /\ s # t
    BY <1>1, <1>3 DEF IsStrictPrefix, IsPrefix
  <2>2. Len(s) \in 1 .. Len(t) - 1
    BY <1>1, <2>1
  <2> QED BY <2>1, <2>2
<1>4. ASSUME NEW k \in 1 .. Len(t) - 1, s = SubSeq(t, 1, k) PROVE IsStrictPrefix(s, t)
  <2>1. Len(s) = k
    BY <1>1, <1>2, <1>4
  <2>2. Len(s) <= Len(t) /\ s # t
    BY <1>1, <2>1
  <2>3. SubSeq(s, 1, Len(s)) = SubSeq(t, 1, Len(s))
    BY ONLY <1>1, <1>4, <2>1
  <2> QED BY <2>2, <2>3 DEF IsStrictPrefix, IsPrefix
<1> QED BY <1>3, <1>4

\* What is left of the limit never wraps: each file fits by its turn exactly when all of
\* them fit together (fetcher.go:112).
LEMMA TotalsFit ==
  ASSUME NEW es, TypedEntries(es), NEW fs, fs = {i \in DOMAIN es : ~IsDir(es[i])},
         \A i \in fs : es[i].claimed = es[i].actual
  PROVE  (\A i \in fs : Fits(es[i], TotalBefore(es)[i]))
           <=> /\ \A i \in fs : es[i].actual <= MaxFile
               /\ SizeOf(es, fs) <= MaxExpanded
<1> DEFINE n == Len(es)
           total == TotalBefore(es)
           before(i) == {j \in fs : j < i}
           size(i) == IF IsDir(es[i]) THEN 0 ELSE es[i].actual
<1>1. n \in Nat /\ DOMAIN es = 1 .. n /\ \A i \in 1 .. n : es[i].claimed \in Nat /\ es[i].actual \in Nat
  BY EntryFacts
<1>2. IsFiniteSet(fs) /\ fs \subseteq 1 .. n
  <2>1. IsFiniteSet(1 .. n) /\ fs \in SUBSET (1 .. n)
    BY <1>1, FS_Interval
  <2> QED BY <2>1, FS_Subset
<1>3. PICK sum : IsSum(sum, es, fs) /\ sum[fs] = SizeOf(es, fs)
  <2>1. \A i \in fs : es[i].actual \in Nat
    BY <1>1, <1>2
  <2> QED BY <1>2, <2>1, SumIsAdditive
<1> DEFINE P == [i \in 1 .. n + 1 |-> sum[before(i)]]
<1>4. P \in [1 .. n + 1 -> Nat] /\ P[1] = 0 /\ P[n + 1] = sum[fs]
  <2>1. before(1) = {} /\ before(n + 1) = fs /\ \A i \in 1 .. n + 1 : before(i) \in SUBSET fs
    BY <1>1, <1>2
  <2> HIDE DEF before
  <2>2. 1 \in 1 .. n + 1 /\ n + 1 \in 1 .. n + 1
    BY <1>1
  <2> QED BY <1>3, <2>1, <2>2 DEF IsSum
<1>5. \A i \in 1 .. n : P[i + 1] = P[i] + size(i) /\ size(i) \in Nat
  <2> SUFFICES ASSUME NEW i \in 1 .. n PROVE P[i + 1] = P[i] + size(i) /\ size(i) \in Nat
    OBVIOUS
  <2>1. i \in 1 .. n + 1 /\ i + 1 \in 1 .. n + 1 /\ P[i] = sum[before(i)] /\ P[i + 1] = sum[before(i + 1)] /\ P[i] \in Nat
    <3>1. i \in 1 .. n + 1 /\ i + 1 \in 1 .. n + 1
      BY <1>1
    <3> HIDE DEF n, before
    <3> QED BY <1>4, <3>1
  <2>2. CASE IsDir(es[i])
    <3>1. before(i + 1) = before(i)
      BY <1>1, <1>2, <2>2
    <3> HIDE DEF before, P
    <3> QED BY <2>1, <2>2, <3>1
  <2>3. CASE ~IsDir(es[i])
    <3>1. i \in before(i + 1) /\ before(i + 1) \ {i} = before(i) /\ before(i + 1) \in SUBSET fs
      BY <1>1, <1>2, <2>3
    <3> HIDE DEF before, P
    <3>2. sum[before(i + 1)] = es[i].actual + sum[before(i)]
      BY <1>3, <3>1 DEF IsSum
    <3> QED BY <1>1, <2>1, <2>3, <3>2
  <2> QED BY <2>2, <2>3
<1>6. /\ n > 0 => total[1] = 0
      /\ \A i \in 1 .. n : i + 1 <= n => total[i + 1] = (total[i] + size(i)) % 2 ^ W
  <2>1. \A i \in 1 .. n :
          total[i] = IF i = 1 THEN 0
                     ELSE (total[i - 1] + (IF IsDir(es[i - 1]) THEN 0 ELSE es[i - 1].claimed)) % 2 ^ W
    BY <1>1, TotalIsRecursive
  <2>2. \A i \in 1 .. n : (IF IsDir(es[i]) THEN 0 ELSE es[i].claimed) = size(i)
    BY <1>1
  <2>3. ASSUME NEW i \in 1 .. n, i + 1 <= n PROVE total[i + 1] = (total[i] + size(i)) % 2 ^ W
    <3>1. i + 1 \in 1 .. n /\ i + 1 # 1 /\ (i + 1) - 1 = i
      BY <1>1, <2>3
    <3> HIDE DEF size, total
    <3>2. total[i + 1] =
            (total[(i + 1) - 1] + (IF IsDir(es[(i + 1) - 1]) THEN 0 ELSE es[(i + 1) - 1].claimed)) % 2 ^ W
      BY <2>1, <3>1
    <3> QED BY <2>2, <3>1, <3>2
  <2>4. n > 0 => 1 \in 1 .. n
    BY <1>1
  <2> HIDE DEF size, total
  <2> QED BY <2>1, <2>3, <2>4
\* Until the sizes are more than MaxExpanded, total does not wrap.
<1> HIDE DEF P, total, size, before, n
<1>7. ASSUME NEW i \in 1 .. n, \A j \in 1 .. i : P[j] <= MaxExpanded PROVE total[i] = P[i]
  <2> DEFINE T == {j \in 1 .. i : total[j] # P[j]}
  <2> SUFFICES ASSUME T # {} PROVE FALSE
    BY <1>1
  <2>1. T \in SUBSET Nat
    BY <1>1
  <2>2. PICK j \in T : \A k \in T : j <= k
    <3> HIDE DEF T
    <3> QED BY <2>1, Least
  <2>3. j # 1
    BY <1>1, <1>4, <1>6
  <2>4. j - 1 \in 1 .. i /\ j - 1 \in 1 .. n /\ (j - 1) + 1 = j /\ j <= n /\ total[j - 1] = P[j - 1]
    BY <1>1, <2>2, <2>3
  <2>5. total[j] = (P[j - 1] + size(j - 1)) % 2 ^ W /\ P[j] = P[j - 1] + size(j - 1)
    BY <1>5, <1>6, <2>4
  <2>6. P[j] \in Nat /\ P[j] < 2 ^ W
    BY <1>1, <1>4, <1>7, SizesAreWords
  <2> QED BY <2>5, <2>6, SmallMod, SizesAreWords
<1>8. ASSUME NEW i \in fs, P[i] <= MaxExpanded, total[i] = P[i]
      PROVE  Fits(es[i], total[i]) <=> es[i].actual <= MaxFile /\ P[i + 1] <= MaxExpanded
  <2>1. i \in 1 .. n /\ P[i] \in Nat /\ size(i) = es[i].actual /\ es[i].claimed = es[i].actual /\ es[i].actual \in Nat
    BY <1>1, <1>2, <1>4 DEF size
  <2>2. MaxExpanded - P[i] \in Nat /\ MaxExpanded - P[i] < 2 ^ W
    BY <1>8, <2>1, SizesAreWords
  <2>3. (MaxExpanded - P[i]) % 2 ^ W = MaxExpanded - P[i]
    BY <2>2, SmallMod, SizesAreWords
  <2>4. P[i + 1] = P[i] + es[i].actual
    BY <1>5, <2>1
  <2> QED BY <1>8, <2>1, <2>3, <2>4, SizesAreWords DEF Fits
<1>9. ASSUME \A i \in fs : Fits(es[i], total[i])
      PROVE  (\A i \in fs : es[i].actual <= MaxFile) /\ sum[fs] <= MaxExpanded
  <2>1. \A i \in 1 .. n + 1 : P[i] <= MaxExpanded
    <3>1. \A i \in 1 .. n + 1 : P[i] \in Nat
      BY <1>4
    <3> SUFFICES ASSUME NEW i0 \in 1 .. n + 1, P[i0] > MaxExpanded PROVE FALSE
      BY <3>1, SizesAreWords
    <3> DEFINE T == {i \in 1 .. n + 1 : P[i] > MaxExpanded}
    <3>2. T \in SUBSET Nat
      BY <1>1
    <3>3. PICK j \in T : \A k \in T : j <= k
      <4>1. T # {}
        OBVIOUS
      <4> HIDE DEF T
      <4> QED BY <3>2, <4>1, Least
    <3>4. j # 1
      BY <1>4, <3>3, SizesAreWords
    <3>5. j - 1 \in 1 .. n /\ (j - 1) + 1 = j /\ \A k \in 1 .. j - 1 : P[k] <= MaxExpanded
      <4>1. j - 1 \in 1 .. n /\ (j - 1) + 1 = j
        BY <1>1, <3>3, <3>4
      <4>2. ASSUME NEW k \in 1 .. j - 1 PROVE P[k] <= MaxExpanded
        <5>1. k \in 1 .. n + 1 /\ ~(j <= k)
          BY <1>1, <3>3
        <5> QED BY <3>1, <3>3, <5>1, SizesAreWords
      <4> QED BY <4>1, <4>2
    <3>6. total[j - 1] = P[j - 1] /\ P[j - 1] <= MaxExpanded
      BY <1>1, <1>7, <3>5
    <3>7. CASE j - 1 \in fs
      BY <1>8, <1>9, <3>3, <3>5, <3>6, <3>7, SizesAreWords, <1>4
    <3>8. CASE j - 1 \notin fs
      <4>1. size(j - 1) = 0
        BY <1>1, <3>5, <3>8 DEF size
      <4>2. P[(j - 1) + 1] = P[j - 1] + size(j - 1)
        BY <1>5, <3>5
      <4>3. P[j - 1] \in Nat /\ P[j] > MaxExpanded
        BY <1>1, <3>1, <3>3, <3>5
      <4> QED BY <3>5, <3>6, <4>1, <4>2, <4>3, SizesAreWords
    <3> QED BY <3>7, <3>8
  <2>2. sum[fs] <= MaxExpanded
    BY <1>1, <1>4, <2>1
  <2>3. ASSUME NEW i \in fs PROVE es[i].actual <= MaxFile
    <3>1. i \in 1 .. n /\ \A j \in 1 .. i : P[j] <= MaxExpanded
      BY <1>1, <1>2, <2>1
    <3>2. total[i] = P[i] /\ P[i] <= MaxExpanded
      BY <1>1, <1>7, <3>1
    <3> QED BY <1>8, <1>9, <3>2
  <2> QED BY <2>2, <2>3
<1>10. ASSUME \A i \in fs : es[i].actual <= MaxFile, sum[fs] <= MaxExpanded
       PROVE  \A i \in fs : Fits(es[i], total[i])
  <2>1. \A i \in 1 .. n + 1 : P[i] <= P[n + 1]
    <3>1. \A i \in 1 .. n + 1 : P[i] \in Nat
      BY <1>4
    <3>2. n + 1 \in 1 .. n + 1
      BY <1>1
    <3> SUFFICES ASSUME NEW i0 \in 1 .. n + 1, P[i0] > P[n + 1] PROVE FALSE
      BY <3>1, <3>2
    <3> DEFINE T == {k \in 0 .. n : P[n + 1 - k] > P[n + 1]}
    <3>3. T # {}
      <4>1. n + 1 - i0 \in 0 .. n /\ n + 1 - (n + 1 - i0) = i0
        BY <1>1
      <4> QED BY <4>1
    <3>4. T \in SUBSET Nat
      BY <1>1
    <3>5. PICK k \in T : \A l \in T : k <= l
      <4> HIDE DEF T
      <4> QED BY <3>3, <3>4, Least
    <3>6. k # 0
      BY <1>1, <1>4, <3>5
    <3>7. k - 1 \in 0 .. n /\ ~(k <= k - 1) /\ n + 1 - k \in 1 .. n /\ n + 1 - (k - 1) = (n + 1 - k) + 1
      BY <1>1, <3>5, <3>6
    <3>8. k - 1 \notin T
      <4> HIDE DEF T
      <4> QED BY <3>5, <3>7
    <3>9. P[(n + 1 - k) + 1] <= P[n + 1]
      <4>1. ~(P[n + 1 - (k - 1)] > P[n + 1])
        BY <3>7, <3>8
      <4>2. (n + 1 - k) + 1 \in 1 .. n + 1
        BY <1>1, <3>7
      <4> QED BY <3>1, <3>2, <3>7, <4>1, <4>2
    <3>10. P[(n + 1 - k) + 1] >= P[n + 1 - k]
      BY <1>1, <1>4, <1>5, <3>7
    <3> QED BY <1>1, <1>4, <3>5, <3>7, <3>9, <3>10
  <2>2. \A i \in 1 .. n + 1 : P[i] <= MaxExpanded
    <3>1. n + 1 \in 1 .. n + 1 /\ \A i \in 1 .. n + 1 : P[i] \in Nat
      BY <1>1, <1>4
    <3>2. P[n + 1] <= MaxExpanded
      BY <1>4, <1>10
    <3> QED BY <2>1, <3>1, <3>2, SizesAreWords
  <2> SUFFICES ASSUME NEW i \in fs PROVE Fits(es[i], total[i])
    OBVIOUS
  <2>3. i \in 1 .. n /\ i + 1 \in 1 .. n + 1 /\ \A j \in 1 .. i : P[j] <= MaxExpanded
    BY <1>1, <1>2, <2>2
  <2>4. total[i] = P[i] /\ P[i] <= MaxExpanded
    BY <1>1, <1>7, <2>3
  <2> QED BY <1>8, <1>10, <2>2, <2>3, <2>4
<1> QED BY <1>3, <1>9, <1>10 DEF total

\* The map that Unpack returns has the names of the files.
LEMMA NamesOfFiles ==
  ASSUME NEW d, NEW fs, fs = {i \in DOMAIN d.entries : ~IsDir(d.entries[i])}
  PROVE  DOMAIN FilesOf(d) = {d.entries[i].name : i \in fs}
BY DEF FilesOf

\* What Unpack lets through is what is sound, and the other way round: names that are
\* compared with those before, sizes that are subtracted from a limit.
LEMMA UnpacksSound ==
  ASSUME NEW d, TypedEntries(d.entries)
  PROVE  Unpacks(d) <=> d.zip /\ SoundEntries(d.entries)
<1> DEFINE es == d.entries
           fs == {i \in DOMAIN es : ~IsDir(es[i])}
           F == DOMAIN FilesOf(d)
<1>1. /\ Len(es) \in Nat /\ DOMAIN es = 1 .. Len(es)
      /\ \A i \in 1 .. Len(es) : es[i].name \in Seq(STRING) /\ es[i].claimed \in Nat /\ es[i].actual \in Nat
  BY EntryFacts
<1>2. F = {es[i].name : i \in fs} /\ fs \subseteq DOMAIN es
  BY NamesOfFiles
<1> DEFINE Named == \A i \in DOMAIN es : CleanName(es[i].name) /\ es[i].mode # "special" /\ (i \in fs \/ DirFine(es[i]))
           Distinct == \A i \in DOMAIN es : \A j \in 1 .. i - 1 : es[j].name # es[i].name
           Apart == \A i, j \in fs : ~IsStrictPrefix(es[i].name, es[j].name)
           Delivered == \A i \in fs : IsThrift(es[i].name) /\ es[i].readable /\ es[i].claimed = es[i].actual
           Small == \A i \in fs : Fits(es[i], TotalBefore(es)[i])
<1>3. (\A i \in DOMAIN es : EntryFine(es, i)) <=> Named /\ Distinct /\ Delivered /\ Small
  BY DEF EntryFine, FileFine
<1>4. Named => ((\A n \in F : \A k \in 1 .. Len(n) - 1 : SubSeq(n, 1, k) \notin F) <=> Apart)
  <2> SUFFICES ASSUME Named PROVE (\A n \in F : \A k \in 1 .. Len(n) - 1 : SubSeq(n, 1, k) \notin F) <=> Apart
    OBVIOUS
  <2>1. \A i, j \in fs : IsStrictPrefix(es[i].name, es[j].name)
                           <=> \E k \in 1 .. Len(es[j].name) - 1 : es[i].name = SubSeq(es[j].name, 1, k)
    <3> SUFFICES ASSUME NEW i \in fs, NEW j \in fs
                 PROVE  IsStrictPrefix(es[i].name, es[j].name)
                          <=> \E k \in 1 .. Len(es[j].name) - 1 : es[i].name = SubSeq(es[j].name, 1, k)
      OBVIOUS
    <3>1. es[i].name \in Seq(STRING) /\ es[j].name \in Seq(STRING) /\ es[i].name # <<>>
      BY <1>1, <1>2 DEF CleanName
    <3> QED BY <3>1, PrefixIsSubSeq
  <2> HIDE DEF fs, F, es
  <2> QED BY <1>2, <2>1
<1>5. Distinct <=> Cardinality({es[i].name : i \in DOMAIN es}) = Len(es)
  BY <1>1, NamesDistinct
<1>6. Delivered => (Small <=> (\A i \in fs : es[i].actual <= MaxFile) /\ SizeOf(es, fs) <= MaxExpanded)
  BY TotalsFit
<1>7. F # {} <=> fs # {}
  BY <1>2
<1>8. Unpacks(d) <=> /\ d.zip /\ Len(es) <= MaxFiles /\ Named /\ Distinct /\ Delivered /\ Small
                     /\ \A n \in F : \A k \in 1 .. Len(n) - 1 : SubSeq(n, 1, k) \notin F
                     /\ F # {}
  <2> HIDE DEF Named, Distinct, Delivered, Small
  <2> QED BY <1>3 DEF Unpacks
<1>9. SoundEntries(es) <=> /\ fs # {} /\ Len(es) <= MaxFiles /\ Named
                           /\ Cardinality({es[i].name : i \in DOMAIN es}) = Len(es)
                           /\ Apart /\ Delivered /\ \A i \in fs : es[i].actual <= MaxFile
                           /\ SizeOf(es, fs) <= MaxExpanded
  BY DEF SoundEntries
<1> HIDE DEF Named, Distinct, Delivered, Small, Apart, F, fs
<1> QED BY <1>4, <1>5, <1>6, <1>7, <1>8, <1>9
-----------------------------------------------------------------------------
(* LoadArchive: the search through the includes                            *)

\* The recursive calls of the search.
Calls(files) == [at : DOMAIN files, k : Nat, visiting : SUBSET DOMAIN files, done : SUBSET DOMAIN files]
Earlier(s) == [s EXCEPT !.k = @ - 1]
Aim(files, s) == Target(s.at, files[s.at].includes[s.k].segs)
Deeper(files, s, before) ==
    LET t == Aim(files, s)
    IN  [at |-> t, k |-> Len(files[t].includes), visiting |-> s.visiting \cup {t}, done |-> before]

\* A call returns what it does given what those below it return.
Answer(files, g, s) ==
          IF s.k = 0 THEN s.done
          ELSE LET before == g[[s EXCEPT !.k = @ - 1]]
                   inc == files[s.at].includes[s.k]
                   t == Target(s.at, inc.segs)
               IN  IF before = None \/ ~Inside(inc, t) \/ t \in s.visiting THEN None
                   ELSE IF t \in before THEN before
                   ELSE IF t \notin DOMAIN files THEN None
                   ELSE LET inner == g[[at |-> t, k |-> Len(files[t].includes),
                                             visiting |-> s.visiting \cup {t}, done |-> before]]
                        IN  IF inner = None THEN None ELSE inner \cup {t}

\* The files a search may be about: finitely many, each with a list of includes.
Searchable(files) ==
    /\ IsFiniteSet(DOMAIN files) /\ None \notin SUBSET DOMAIN files
    /\ \A n \in DOMAIN files : /\ Len(files[n].includes) \in Nat
                               /\ DOMAIN files[n].includes = 1 .. Len(files[n].includes)

\* What is below a call: it visits more, or as much and has less left.
Unvisited(files) == [s \in Calls(files) |-> Cardinality(DOMAIN files \ s.visiting)]
Ahead(files) == [s \in Calls(files) |-> s.k]
Below(files) == Lex(Unvisited(files), Ahead(files), Calls(files))

\* Answer, case by case.
LEMMA AnswerCases ==
  ASSUME NEW files, NEW g, NEW s
  PROVE  /\ s.k = 0 => Answer(files, g, s) = s.done
         /\ s.k # 0 =>
              LET before == g[Earlier(s)]
                  inner == g[Deeper(files, s, before)]
              IN  /\ \/ before = None
                     \/ ~Inside(files[s.at].includes[s.k], Aim(files, s))
                     \/ Aim(files, s) \in s.visiting
                     => Answer(files, g, s) = None
                  /\ /\ before # None
                     /\ Inside(files[s.at].includes[s.k], Aim(files, s))
                     /\ Aim(files, s) \notin s.visiting
                     => /\ Aim(files, s) \in before => Answer(files, g, s) = before
                        /\ Aim(files, s) \notin before /\ Aim(files, s) \notin DOMAIN files => Answer(files, g, s) = None
                        /\ Aim(files, s) \notin before /\ Aim(files, s) \in DOMAIN files =>
                             Answer(files, g, s) = IF inner = None THEN None ELSE inner \cup {Aim(files, s)}
BY DEF Answer, Earlier, Aim, Deeper

\* The calls of a call are below it, so that the search comes to an end.
LEMMA CallsBelow ==
  ASSUME NEW files, Searchable(files)
  PROVE  /\ Founded(Below(files), Calls(files))
         /\ \A s \in Calls(files) : s.k # 0 => Earlier(s) \in Calls(files) /\ <<Earlier(s), s>> \in Below(files)
         /\ \A s \in Calls(files), d \in SUBSET DOMAIN files :
              Aim(files, s) \in DOMAIN files \ s.visiting =>
                Deeper(files, s, d) \in Calls(files) /\ <<Deeper(files, s, d), s>> \in Below(files)
<1> DEFINE F == DOMAIN files
           C == Calls(files)
           mu == Unvisited(files)
           nu == Ahead(files)
<1>1. \A s \in C : s.at \in F /\ s.k \in Nat /\ s.visiting \in SUBSET F /\ s.done \in SUBSET F
  BY DEF Calls
<1>2. \A v \in SUBSET F : IsFiniteSet(F \ v) /\ Cardinality(F \ v) \in Nat
  <2> SUFFICES ASSUME NEW v \in SUBSET F PROVE IsFiniteSet(F \ v) /\ Cardinality(F \ v) \in Nat
    OBVIOUS
  <2>1. IsFiniteSet(F)
    BY DEF Searchable
  <2> QED BY <2>1, FS_Difference, FS_CardinalityType
<1>3. mu \in [C -> Nat] /\ nu \in [C -> Nat] /\ \A s \in C : mu[s] = Cardinality(F \ s.visiting) /\ nu[s] = s.k
  BY <1>1, <1>2 DEF Unvisited, Ahead
<1> HIDE DEF C, mu, nu, F
<1>4. Founded(Below(files), C)
  BY <1>3, LexFounded DEF Below, C, mu, nu
<1>5. \A r, s \in C : <<r, s>> \in Below(files) <=> mu[r] < mu[s] \/ (mu[r] = mu[s] /\ nu[r] < nu[s])
  BY DEF Below, Lex, C, mu, nu
<1>6. ASSUME NEW s \in C, s.k # 0 PROVE Earlier(s) \in C /\ <<Earlier(s), s>> \in Below(files)
  <2>1. Earlier(s) \in C /\ Earlier(s).k = s.k - 1 /\ Earlier(s).visiting = s.visiting
    BY <1>6 DEF C, Calls, Earlier
  <2>2. mu[Earlier(s)] = mu[s] /\ nu[Earlier(s)] < nu[s]
    <3> DEFINE r == Earlier(s)
    <3>1. r \in C /\ r.k = s.k - 1 /\ r.visiting = s.visiting
      BY <2>1
    <3> HIDE DEF r
    <3>2. mu[r] = Cardinality(F \ r.visiting) /\ nu[r] = r.k
      BY <1>3, <3>1
    <3>3. mu[s] = Cardinality(F \ s.visiting) /\ nu[s] = s.k /\ s.k \in Nat
      BY <1>1, <1>3
    <3> QED BY <3>1, <3>2, <3>3 DEF r
  <2> QED BY <1>5, <2>1, <2>2
<1>7. ASSUME NEW s \in C, NEW d \in SUBSET F, Aim(files, s) \in F \ s.visiting
      PROVE  Deeper(files, s, d) \in C /\ <<Deeper(files, s, d), s>> \in Below(files)
  <2> DEFINE t == Aim(files, s)
             r == Deeper(files, s, d)
  <2>1. r \in C /\ r.visiting = s.visiting \cup {t}
    <3>1. t \in F /\ Len(files[t].includes) \in Nat /\ s.visiting \cup {t} \in SUBSET F
      BY <1>1, <1>7 DEF Searchable, F
    <3> QED BY <1>7, <3>1 DEF C, Calls, Deeper, F
  <2>2. F \ r.visiting = (F \ s.visiting) \ {t}
    BY <2>1
  <2>3. Cardinality((F \ s.visiting) \ {t}) = Cardinality(F \ s.visiting) - 1
    <3>1. IsFiniteSet(F \ s.visiting)
      BY <1>1, <1>2
    <3> QED BY <1>7, <3>1, FS_RemoveElement
  <2> HIDE DEF r
  <2>4. mu[r] < mu[s]
    BY <1>1, <1>2, <1>3, <2>1, <2>2, <2>3
  <2>5. <<r, s>> \in Below(files)
    BY <1>5, <2>1, <2>4
  <2> QED BY <2>1, <2>5 DEF r
<1> QED BY <1>4, <1>6, <1>7 DEF C, F

\* The search is what it says it is, and returns the files done or None.
LEMMA SearchIsRecursive ==
  ASSUME NEW files, Searchable(files)
  PROVE  \A s \in Calls(files) : /\ Search(files)[s] = Answer(files, Search(files), s)
                                 /\ Search(files)[s] \in (SUBSET DOMAIN files) \cup {None}
<1> DEFINE F == DOMAIN files
           C == Calls(files)
           A == (SUBSET F) \cup {None}
           R == Below(files)
           phi == [g \in [C -> A] |-> [s \in C |-> Answer(files, g, s)]]
<1>1. /\ Founded(R, C)
      /\ \A s \in C : s.k # 0 => Earlier(s) \in C /\ <<Earlier(s), s>> \in R
      /\ \A s \in C, d \in SUBSET F :
           Aim(files, s) \in F \ s.visiting => Deeper(files, s, d) \in C /\ <<Deeper(files, s, d), s>> \in R
  BY CallsBelow
<1>2. None \notin SUBSET F
  BY DEF Searchable
<1>3. \A s \in C : s.done \in SUBSET F
  BY DEF Calls
<1> HIDE DEF C, R, F
<1>4. ASSUME NEW g, NEW s \in C, \A r \in C : <<r, s>> \in R => g[r] \in A PROVE Answer(files, g, s) \in A
  <2>1. CASE s.k = 0
    BY <1>3, <2>1, AnswerCases
  <2>2. CASE s.k # 0
    <3> DEFINE before == g[Earlier(s)]
               inner == g[Deeper(files, s, before)]
               t == Aim(files, s)
    <3>1. before \in A
      BY <1>1, <1>4, <2>2
    <3>2. CASE before = None \/ ~Inside(files[s.at].includes[s.k], t) \/ t \in s.visiting
      BY <2>2, <3>2, AnswerCases
    <3>3. CASE ~(before = None \/ ~Inside(files[s.at].includes[s.k], t) \/ t \in s.visiting)
      <4>1. CASE t \in before
        BY <2>2, <3>1, <3>3, <4>1, AnswerCases
      <4>2. CASE t \notin before /\ t \notin F
        BY <2>2, <3>3, <4>2, AnswerCases DEF F
      <4>3. CASE t \notin before /\ t \in F
        <5>1. inner \in A
          BY <1>1, <1>4, <3>1, <3>3, <4>3
        <5>2. Answer(files, g, s) = IF inner = None THEN None ELSE inner \cup {t}
          BY <2>2, <3>3, <4>3, AnswerCases DEF F
        <5> HIDE DEF inner, t
        <5> QED BY <4>3, <5>1, <5>2
      <4> QED BY <4>1, <4>2, <4>3
    <3> QED BY <3>2, <3>3
  <2> QED BY <2>1, <2>2
<1>5. ASSUME NEW g \in [C -> A], NEW h \in [C -> A], NEW s \in C, \A r \in C : <<r, s>> \in R => g[r] = h[r]
      PROVE  Answer(files, g, s) = Answer(files, h, s)
  <2>1. CASE s.k = 0
    BY <2>1, AnswerCases
  <2>2. CASE s.k # 0
    <3> DEFINE before == g[Earlier(s)]
               inner == g[Deeper(files, s, before)]
               t == Aim(files, s)
    <3>1. before \in A /\ before = h[Earlier(s)]
      BY <1>1, <1>5, <2>2
    <3>2. CASE before = None \/ ~Inside(files[s.at].includes[s.k], t) \/ t \in s.visiting
      BY <2>2, <3>1, <3>2, AnswerCases
    <3>3. CASE ~(before = None \/ ~Inside(files[s.at].includes[s.k], t) \/ t \in s.visiting)
      <4>1. CASE t \in before
        BY <2>2, <3>1, <3>3, <4>1, AnswerCases
      <4>2. CASE t \notin before /\ t \notin F
        BY <2>2, <3>1, <3>3, <4>2, AnswerCases DEF F
      <4>3. CASE t \notin before /\ t \in F
        <5>1. inner = h[Deeper(files, s, before)]
          BY <1>1, <1>5, <3>1, <3>3, <4>3
        <5>2. Answer(files, g, s) = IF inner = None THEN None ELSE inner \cup {t}
          BY <2>2, <3>3, <4>3, AnswerCases DEF F
        <5>3. Answer(files, h, s) = IF inner = None THEN None ELSE inner \cup {t}
          <6> HIDE DEF inner, before, t
          <6>1. h[Deeper(files, s, h[Earlier(s)])] = inner
            BY <3>1, <5>1
          <6> QED BY <2>2, <3>1, <3>3, <4>3, <6>1, AnswerCases DEF F, t
        <5> QED BY <5>2, <5>3
      <4> QED BY <4>1, <4>2, <4>3
    <3> QED BY <3>2, <3>3
  <2> QED BY <2>1, <2>2
<1>6. LooksBelow(phi, R, C, A)
  <2> HIDE DEF A
  <2>1. \A g \in [C -> A] : phi[g] \in [C -> A] /\ \A s \in C : phi[g][s] = Answer(files, g, s)
    BY <1>4
  <2> HIDE DEF phi
  <2>2. ASSUME NEW g \in [C -> A], NEW h \in [C -> A], NEW s \in C, \A r \in C : <<r, s>> \in R => g[r] = h[r]
        PROVE  phi[g][s] = phi[h][s]
    BY <2>1, <2>2, <1>5
  <2> QED BY <2>1, <2>2 DEF LooksBelow
<1>7. PICK f \in [C -> A] : f = phi[f]
  <2>1. A # {}
    OBVIOUS
  <2> HIDE DEF phi, A
  <2> QED BY <1>1, <1>6, <2>1, SolutionExists
<1>8. f = [s \in C |-> Answer(files, f, s)]
  BY <1>7
<1>9. Search(files) = [s \in C |-> Answer(files, Search(files), s)]
  <2> DEFINE search == CHOOSE g : g = [s \in C |-> Answer(files, g, s)]
  <2>1. search = [s \in C |-> Answer(files, search, s)]
    BY <1>8, Zenon
  <2>2. Search(files) = search
    BY Zenon DEF Search, Answer, C, Calls
  <2> QED BY <2>1, <2>2, Zenon
<1>10. \A s \in C : Search(files)[s] = Answer(files, Search(files), s)
  BY <1>9
<1>11. \A s \in C : Search(files)[s] \in A
  <2> DEFINE T == {s \in C : Search(files)[s] \notin A}
  <2> HIDE DEF A
  <2> SUFFICES ASSUME T # {} PROVE FALSE
    OBVIOUS
  <2>1. PICK s \in T : \A r \in T : <<r, s>> \notin R
    BY <1>1 DEF Founded
  <2> QED BY <1>4, <1>10, <2>1
<1> QED BY <1>10, <1>11 DEF C, F

\* What the k-th include of n leads to, and whether LoadArchive lets it.
Leads(files, n, k) == Target(n, files[n].includes[k].segs)
Allowed(files, n, k) == Inside(files[n].includes[k], Leads(files, n, k)) /\ Leads(files, n, k) \in DOMAIN files
Indices(files, n) == 1 .. Len(files[n].includes)

\* A set of files is through: closed under includes, all of which are allowed, and without
\* a cycle.
Through(files, D) ==
    /\ D \subseteq DOMAIN files
    /\ \A n \in D : \A k \in Indices(files, n) : Allowed(files, n, k) /\ Leads(files, n, k) \in D
    /\ \A X \in SUBSET D : X # {} => \E n \in X : \A k \in Indices(files, n) : Leads(files, n, k) \notin X

\* A file whose includes are through makes no cycle.
LEMMA ThroughAdd ==
  ASSUME NEW files, NEW D, Through(files, D), NEW t \in DOMAIN files, t \notin D,
         \A k \in Indices(files, t) : Allowed(files, t, k) /\ Leads(files, t, k) \in D
  PROVE  Through(files, D \cup {t})
<1>1. D \cup {t} \subseteq DOMAIN files
  BY DEF Through
<1>2. \A n \in D \cup {t} : \A k \in Indices(files, n) : Allowed(files, n, k) /\ Leads(files, n, k) \in D
  BY DEF Through
<1>3. ASSUME NEW X \in SUBSET (D \cup {t}), X # {}
      PROVE  \E n \in X : \A k \in Indices(files, n) : Leads(files, n, k) \notin X
  <2>1. CASE X \cap D = {}
    <3>1. t \in X /\ \A k \in Indices(files, t) : Leads(files, t, k) \notin X
      BY <1>2, <1>3, <2>1
    <3> QED BY <3>1
  <2>2. CASE X \cap D # {}
    <3>1. PICK n \in X \cap D : \A k \in Indices(files, n) : Leads(files, n, k) \notin X \cap D
      BY <2>2 DEF Through
    <3> QED BY <1>2, <3>1
  <2> QED BY <2>1, <2>2
<1> QED BY <1>1, <1>2, <1>3 DEF Through

\* What a call starts from, and what it has found when it returns.
Starts(files, s) ==
    /\ s.at \in s.visiting /\ s.k <= Len(files[s.at].includes)
    /\ Through(files, s.done) /\ s.done \cap s.visiting = {}

Finds(files, s, found) ==
    /\ Through(files, found) /\ s.done \subseteq found /\ found \cap s.visiting = {}
    /\ \A k \in 1 .. s.k : Allowed(files, s.at, k) /\ Leads(files, s.at, k) \in found

\* What the search returns, if anything, is through (loader.go:32).
LEMMA SearchFinds ==
  ASSUME NEW files, Searchable(files), NEW s0 \in Calls(files), Starts(files, s0), Search(files)[s0] # None
  PROVE  Finds(files, s0, Search(files)[s0])
<1> DEFINE F == DOMAIN files
           C == Calls(files)
           R == Below(files)
           found(s) == Search(files)[s]
           T == {s \in C : Starts(files, s) /\ found(s) # None /\ ~Finds(files, s, found(s))}
<1> SUFFICES ASSUME T # {} PROVE FALSE
  OBVIOUS
<1>1. /\ Founded(R, C)
      /\ \A s \in C : s.k # 0 => Earlier(s) \in C /\ <<Earlier(s), s>> \in R
      /\ \A s \in C, d \in SUBSET F :
           Aim(files, s) \in F \ s.visiting => Deeper(files, s, d) \in C /\ <<Deeper(files, s, d), s>> \in R
  BY CallsBelow
<1>2. \A s \in C : found(s) = Answer(files, Search(files), s) /\ found(s) \in (SUBSET F) \cup {None}
  BY SearchIsRecursive
<1>3. \A s \in C : s.at \in F /\ s.k \in Nat /\ s.visiting \in SUBSET F /\ s.done \in SUBSET F
  BY DEF Calls
<1>4. PICK s \in T : \A r \in T : <<r, s>> \notin R
  BY <1>1 DEF Founded
<1>5. s \in C /\ Starts(files, s) /\ found(s) # None /\ ~Finds(files, s, found(s))
  BY <1>4
<1>6. \A r \in C : <<r, s>> \in R /\ Starts(files, r) /\ found(r) # None => Finds(files, r, found(r))
  BY <1>4
<1> HIDE DEF T, C, R, F
<1>7. s.k # 0
  <2> SUFFICES ASSUME s.k = 0 PROVE FALSE
    OBVIOUS
  <2>1. found(s) = s.done
    BY <1>2, <1>5, AnswerCases
  <2>2. 1 .. s.k = {}
    OBVIOUS
  <2> QED BY <1>5, <2>1, <2>2 DEF Starts, Finds
<1> DEFINE e == Earlier(s)
           before == found(e)
           t == Aim(files, s)
           i == Deeper(files, s, before)
           inner == found(i)
<1>8. e \in C /\ <<e, s>> \in R /\ e.at = s.at /\ e.k = s.k - 1 /\ e.visiting = s.visiting /\ e.done = s.done
  BY <1>1, <1>5, <1>7 DEF Earlier, C, Calls
<1>9. t = Leads(files, s.at, s.k) /\ s.k \in Nat
  BY <1>3, <1>5 DEF Aim, Leads
<1>10. before # None /\ Inside(files[s.at].includes[s.k], t) /\ t \notin s.visiting
  BY <1>2, <1>5, <1>7, AnswerCases
<1>11. Finds(files, e, before)
  <2>1. Starts(files, e)
    <3>1. s.k - 1 <= Len(files[s.at].includes)
      BY <1>3, <1>5 DEF Starts, Searchable, F
    <3> HIDE DEF e
    <3> QED BY <1>5, <1>8, <3>1 DEF Starts
  <2> QED BY <1>6, <1>8, <1>10, <2>1
<1>12. Through(files, before) /\ s.done \subseteq before /\ before \cap s.visiting = {}
       /\ \A k \in 1 .. s.k - 1 : Allowed(files, s.at, k) /\ Leads(files, s.at, k) \in before
  <2> HIDE DEF e, before
  <2> QED BY <1>8, <1>11 DEF Finds
<1>13. before \in SUBSET F
  BY <1>2, <1>8, <1>10
<1>14. ASSUME NEW D, Through(files, D), before \subseteq D, t \in D, D \cap s.visiting = {} PROVE Finds(files, s, D)
  <2>1. Allowed(files, s.at, s.k)
    BY <1>9, <1>10, <1>14 DEF Allowed, Through
  <2>2. \A k \in 1 .. s.k : k = s.k \/ k \in 1 .. s.k - 1
    BY <1>9
  <2>3. \A k \in 1 .. s.k : Allowed(files, s.at, k) /\ Leads(files, s.at, k) \in D
    BY <1>9, <1>12, <1>14, <2>1, <2>2
  <2> QED BY <1>12, <1>14, <2>3 DEF Finds
<1>15. t \notin before
  <2> SUFFICES ASSUME t \in before PROVE FALSE
    OBVIOUS
  <2>1. found(s) = before
    BY <1>2, <1>5, <1>7, <1>10, AnswerCases
  <2> QED BY <1>5, <1>12, <1>14, <2>1
<1>16. t \in F
  BY <1>2, <1>5, <1>7, <1>10, <1>15, AnswerCases DEF F
<1>17. i \in C /\ <<i, s>> \in R
  BY <1>1, <1>5, <1>10, <1>13, <1>16
<1>18. i.at = t /\ i.k = Len(files[t].includes) /\ i.visiting = s.visiting \cup {t} /\ i.done = before
  BY DEF Deeper
<1>19. inner # None /\ found(s) = inner \cup {t}
  BY <1>2, <1>5, <1>7, <1>10, <1>15, <1>16, AnswerCases DEF F
<1>20. Finds(files, i, inner)
  <2>1. i.k <= Len(files[i.at].includes)
    BY <1>16, <1>18 DEF Searchable, F
  <2>2. Starts(files, i)
    <3> HIDE DEF i, before
    <3> QED BY <1>12, <1>15, <1>18, <2>1 DEF Starts
  <2> QED BY <1>6, <1>17, <1>19, <2>2
<1>21. Through(files, inner) /\ before \subseteq inner /\ inner \cap (s.visiting \cup {t}) = {}
       /\ \A k \in Indices(files, t) : Allowed(files, t, k) /\ Leads(files, t, k) \in inner
  <2> HIDE DEF i, inner, before
  <2> QED BY <1>18, <1>20 DEF Finds, Indices
<1>22. Through(files, inner \cup {t})
  <2> HIDE DEF inner, t
  <2> QED BY <1>16, <1>21, ThroughAdd DEF F
<1>23. Finds(files, s, inner \cup {t})
  <2> HIDE DEF inner, before, t
  <2> QED BY <1>10, <1>14, <1>21, <1>22
<1> QED BY <1>5, <1>19, <1>23

\* The files a call is in the middle of include one another, up to the one it is at.
InTheMiddle(files, s) ==
    /\ s.at \in s.visiting /\ s.k <= Len(files[s.at].includes)
    /\ \A v \in s.visiting \ {s.at} : \E k \in Indices(files, v) : Leads(files, v, k) \in s.visiting

\* Where nothing is wrong with the includes the search fails nowhere.
LEMMA SearchReturns ==
  ASSUME NEW files, Searchable(files), Through(files, DOMAIN files), NEW s0 \in Calls(files), InTheMiddle(files, s0)
  PROVE  Search(files)[s0] # None
<1> DEFINE F == DOMAIN files
           C == Calls(files)
           R == Below(files)
           found(s) == Search(files)[s]
           T == {s \in C : InTheMiddle(files, s) /\ found(s) = None}
<1> SUFFICES ASSUME T # {} PROVE FALSE
  OBVIOUS
<1>1. /\ Founded(R, C)
      /\ \A s \in C : s.k # 0 => Earlier(s) \in C /\ <<Earlier(s), s>> \in R
      /\ \A s \in C, d \in SUBSET F :
           Aim(files, s) \in F \ s.visiting => Deeper(files, s, d) \in C /\ <<Deeper(files, s, d), s>> \in R
  BY CallsBelow
<1>2. \A s \in C : found(s) = Answer(files, Search(files), s) /\ found(s) \in (SUBSET F) \cup {None}
  BY SearchIsRecursive
<1>3. \A s \in C : s.at \in F /\ s.k \in Nat /\ s.visiting \in SUBSET F /\ s.done \in SUBSET F
  BY DEF Calls
<1>4. PICK s \in T : \A r \in T : <<r, s>> \notin R
  BY <1>1 DEF Founded
<1>5. s \in C /\ InTheMiddle(files, s) /\ found(s) = None
  BY <1>4
<1>6. \A r \in C : <<r, s>> \in R /\ InTheMiddle(files, r) => found(r) # None
  BY <1>4
<1>7. None \notin SUBSET F
  BY DEF Searchable
<1> HIDE DEF T, C, R, F
<1>8. s.k # 0
  BY <1>2, <1>3, <1>5, <1>7, AnswerCases
<1> DEFINE e == Earlier(s)
           before == found(e)
           t == Aim(files, s)
           i == Deeper(files, s, before)
           inner == found(i)
<1>9. e \in C /\ <<e, s>> \in R /\ e.at = s.at /\ e.k = s.k - 1 /\ e.visiting = s.visiting
  BY <1>1, <1>5, <1>8 DEF Earlier, C, Calls
<1>10. Len(files[s.at].includes) \in Nat
  BY <1>3, <1>5 DEF Searchable, F
<1>11. t = Leads(files, s.at, s.k) /\ s.k \in Indices(files, s.at)
  BY <1>3, <1>5, <1>8, <1>10 DEF Aim, Leads, Indices, InTheMiddle
<1>12. Inside(files[s.at].includes[s.k], t) /\ t \in F
  BY <1>3, <1>5, <1>11 DEF Through, Allowed, F
<1>13. before # None
  <2>1. InTheMiddle(files, e)
    <3>1. s.k - 1 <= Len(files[s.at].includes)
      BY <1>3, <1>5, <1>10 DEF InTheMiddle
    <3> HIDE DEF e
    <3> QED BY <1>5, <1>9, <3>1 DEF InTheMiddle
  <2> QED BY <1>6, <1>9, <2>1
<1>14. before \in SUBSET F
  BY <1>2, <1>9, <1>13
<1>15. t \notin s.visiting
  <2> SUFFICES ASSUME t \in s.visiting PROVE FALSE
    OBVIOUS
  <2>1. \A v \in s.visiting : \E k \in Indices(files, v) : Leads(files, v, k) \in s.visiting
    <3> HIDE DEF t
    <3> QED BY <1>5, <1>11 DEF InTheMiddle
  <2>2. s.visiting \in SUBSET F /\ s.visiting # {}
    BY <1>3, <1>5 DEF InTheMiddle
  <2> QED BY <2>1, <2>2 DEF Through, F
<1>16. t \notin before
  BY <1>2, <1>5, <1>8, <1>12, <1>13, <1>15, AnswerCases
<1>17. i \in C /\ <<i, s>> \in R
  BY <1>1, <1>5, <1>12, <1>14, <1>15
<1>18. i.at = t /\ i.k = Len(files[t].includes) /\ i.visiting = s.visiting \cup {t}
  BY DEF Deeper
<1>19. InTheMiddle(files, i)
  <2>1. i.k <= Len(files[i.at].includes)
    BY <1>12, <1>18 DEF Searchable, F
  <2>2. \A v \in s.visiting : \E k \in Indices(files, v) : Leads(files, v, k) \in s.visiting \cup {t}
    <3> HIDE DEF t
    <3> QED BY <1>5, <1>11 DEF InTheMiddle
  <2> HIDE DEF i, t
  <2> QED BY <1>18, <2>1, <2>2 DEF InTheMiddle
<1>20. inner # None /\ inner \in SUBSET F
  BY <1>2, <1>6, <1>17, <1>19
<1>21. found(s) = inner \cup {t}
  BY <1>2, <1>5, <1>8, <1>12, <1>13, <1>15, <1>16, <1>20, AnswerCases DEF F
<1>22. inner \cup {t} \in SUBSET F
  <2> HIDE DEF inner, t
  <2> QED BY <1>12, <1>20
<1> QED BY <1>5, <1>7, <1>21, <1>22

\* Every file can be searched from exactly when all of them are through.
LEMMA SearchDecides ==
  ASSUME NEW files, Searchable(files)
  PROVE  IncludesFine(files) <=> Through(files, DOMAIN files)
<1> DEFINE F == DOMAIN files
           call(n) == [at |-> n, k |-> Len(files[n].includes), visiting |-> {n}, done |-> {}]
<1>1. \A n \in F : Check(files, n) = Search(files)[call(n)]
  BY DEF Check
<1>2. ASSUME NEW n \in F
      PROVE  /\ call(n) \in Calls(files) /\ call(n).at = n /\ call(n).k = Len(files[n].includes)
             /\ call(n).visiting = {n} /\ call(n).done = {}
             /\ Len(files[n].includes) <= Len(files[n].includes)
  BY DEF Calls, Searchable
<1>3. ASSUME Through(files, F) PROVE IncludesFine(files)
  <2> SUFFICES ASSUME NEW n \in F PROVE Check(files, n) # None
    BY DEF IncludesFine
  <2>1. PICK c \in Calls(files) : c = call(n)
    BY <1>2
  <2>2. c.at = n /\ c.k = Len(files[n].includes) /\ c.visiting = {n}
    BY <2>1
  <2>3. InTheMiddle(files, c)
    BY ONLY <1>2, <2>2 DEF InTheMiddle
  <2>4. Search(files)[c] # None
    BY <1>3, <2>3, SearchReturns
  <2> HIDE DEF call
  <2> QED BY <1>1, <2>1, <2>4
<1>4. ASSUME IncludesFine(files) PROVE Through(files, F)
  <2>1. ASSUME NEW n \in F PROVE \E D : n \in D /\ Through(files, D)
    <3>1. PICK c \in Calls(files) : c = call(n)
      BY <1>2
    <3>2. c.at = n /\ c.k = Len(files[n].includes) /\ c.visiting = {n} /\ c.done = {} /\ Search(files)[c] # None
      <4>1. Search(files)[c] # None
        <5> HIDE DEF call
        <5> QED BY <1>1, <1>4, <3>1 DEF IncludesFine
      <4> QED BY <3>1, <4>1
    <3>3. Through(files, {})
      BY DEF Through
    <3>4. Starts(files, c)
      BY <1>2, <3>2, <3>3 DEF Starts
    <3>5. PICK D : Finds(files, c, D)
      BY <3>2, <3>4, SearchFinds
    <3>6. Through(files, D) /\ n \notin D /\ \A k \in Indices(files, n) : Allowed(files, n, k) /\ Leads(files, n, k) \in D
      BY <3>2, <3>5 DEF Finds, Indices
    <3>7. Through(files, D \cup {n})
      BY <3>6, ThroughAdd
    <3> QED BY <3>7
  <2>2. \A n \in F : \A k \in Indices(files, n) : Allowed(files, n, k) /\ Leads(files, n, k) \in F
    BY <2>1 DEF Through
  <2>3. ASSUME NEW X \in SUBSET F, X # {}
        PROVE  \E n \in X : \A k \in Indices(files, n) : Leads(files, n, k) \notin X
    <3>1. PICK m \in X : TRUE
      BY <2>3
    <3>2. PICK D : m \in D /\ Through(files, D)
      BY <2>1
    <3>3. X \cap D # {} /\ X \cap D \in SUBSET D
      BY <3>2
    <3>4. PICK n \in X \cap D : \A k \in Indices(files, n) : Leads(files, n, k) \notin X \cap D
      BY <3>2, <3>3 DEF Through
    <3>5. \A k \in Indices(files, n) : Leads(files, n, k) \in D
      BY <3>2 DEF Through
    <3> QED BY <3>4, <3>5
  <2> QED BY <2>2, <2>3 DEF Through
<1> QED BY <1>3, <1>4

\* The depth-first search accepts the includes of an archive exactly when they are closed,
\* allowed and without a cycle.
LEMMA IncludesSound ==
  ASSUME NEW files, Searchable(files), \A n \in DOMAIN files : Len(n) > 1 /\ n[1] = "idl"
  PROVE  IncludesFine(files) <=> SoundIncludes(files)
<1> DEFINE F == DOMAIN files
<1>1. \A n \in F : Range(files[n].includes) = {files[n].includes[k] : k \in Indices(files, n)}
  BY DEF Searchable, Range, Indices
<1>2. \A n \in F : Includes(files, n) = {Leads(files, n, k) : k \in Indices(files, n)}
  BY <1>1 DEF Includes, Leads
<1>3. (\A n \in F : \A k \in Indices(files, n) : Allowed(files, n, k))
        <=> \A n \in F : /\ Includes(files, n) \subseteq F
                         /\ \A inc \in Range(files[n].includes) : ~inc.abs /\ ~inc.backslash
  <2>1. \A n \in F : \A k \in Indices(files, n) :
          Allowed(files, n, k) <=> /\ Leads(files, n, k) \in F
                                   /\ ~files[n].includes[k].abs /\ ~files[n].includes[k].backslash
    BY DEF Allowed, Inside
  <2>2. ASSUME NEW n \in F
        PROVE  (\A k \in Indices(files, n) : Allowed(files, n, k))
                 <=> /\ Includes(files, n) \subseteq F
                     /\ \A inc \in Range(files[n].includes) : ~inc.abs /\ ~inc.backslash
    <3> HIDE DEF F
    <3>1. Includes(files, n) = {Leads(files, n, k) : k \in Indices(files, n)}
      BY <1>2
    <3>2. Range(files[n].includes) = {files[n].includes[k] : k \in Indices(files, n)}
      BY <1>1
    <3>3. Includes(files, n) \subseteq F <=> \A k \in Indices(files, n) : Leads(files, n, k) \in F
      BY <3>1
    <3>4. (\A inc \in Range(files[n].includes) : ~inc.abs /\ ~inc.backslash)
            <=> \A k \in Indices(files, n) : ~files[n].includes[k].abs /\ ~files[n].includes[k].backslash
      BY <3>2
    <3> QED BY <2>1, <3>3, <3>4
  <2> QED BY <2>2
<1>4. ASSUME NEW X \in SUBSET F, NEW n \in X
      PROVE  (\A k \in Indices(files, n) : Leads(files, n, k) \notin X) <=> Includes(files, n) \cap X = {}
  BY <1>2
<1>5. Through(files, F) <=> SoundIncludes(files)
  <2>1. \A n \in F : \A k \in Indices(files, n) : Allowed(files, n, k) => Leads(files, n, k) \in F
    BY DEF Allowed
  <2>2. SoundIncludes(files)
          <=> /\ \A n \in F : /\ Includes(files, n) \subseteq F
                              /\ \A inc \in Range(files[n].includes) : ~inc.abs /\ ~inc.backslash
              /\ \A X \in SUBSET F : X # {} => \E n \in X : Includes(files, n) \cap X = {}
    BY DEF SoundIncludes
  <2>3. Through(files, F)
          <=> /\ \A n \in F : \A k \in Indices(files, n) : Allowed(files, n, k)
              /\ \A X \in SUBSET F : X # {} => \E n \in X : \A k \in Indices(files, n) : Leads(files, n, k) \notin X
    BY <2>1 DEF Through
  <2> QED BY <1>3, <1>4, <2>2, <2>3
<1> QED BY <1>5, SearchDecides
-----------------------------------------------------------------------------
(* ExtractRoutes                                                           *)

\* What a route takes from its method.
LEMMA RouteFacts ==
  ASSUME NEW file, NEW fn
  PROVE  /\ RouteOf(file, fn).file = file
         /\ RouteOf(file, fn).method = fn.http[1].method
         /\ RouteOf(file, fn).path = fn.http[1].paths[1]
BY DEF RouteOf

\* A pattern ends where it ends.
LEMMA SameNodeReflexive == ASSUME NEW p PROVE SameNode(p, p)
BY DEF SameNode

\* Methods that ask for routes have routes of their own exactly when every file passes
\* on its own and the routes of all of them make one table.
LEMMA RoutesSound ==
  ASSUME NEW files
  PROVE  SoundRoutes(files) <=> /\ \A n \in WithService(files) : ServiceFine(files, n)
                                /\ Bundles(files) # {}
                                /\ Buildable(AllRoutes(files))
<1> DEFINE S == WithService(files)
           fns(n) == Range(files[n].services[1].functions)
           calls == UNION {{<<n, fn>> : fn \in fns(n)} : n \in S}
           asking == {c \in calls : c[2].http # <<>>}
           R(c) == RouteOf(c[1], c[2])
           One == \A n \in S : Len(files[n].services) = 1 /\ ~files[n].services[1].extends
           Auth == \A n \in S : \A fn \in fns(n) : AuthFine(fn) /\ Len(fn.http) <= 1
           Annotated == \A n \in S : \A fn \in fns(n) : fn.http # <<>> => AnnotationFine(files, n, fn, fn.http[1])
           Keyed == \A n \in S : \A fn, gn \in fns(n) :
                      fn.http # <<>> /\ gn.http # <<>> /\ fn # gn => ~SameKey(RouteOf(n, fn), RouteOf(n, gn))
           Valid == \A c \in asking : ValidPattern(R(c).path)
           Apart == \A c, e \in asking : c # e /\ R(c).method = R(e).method => ~SameNode(R(c).path, R(e).path)
<1>1. \A n, fn : <<n, fn>> \in calls <=> n \in S /\ fn \in fns(n)
  OBVIOUS
<1>2. \A c \in calls : c = <<c[1], c[2]>> /\ c[1] \in S /\ c[2] \in fns(c[1])
  OBVIOUS
<1>3. \A n \in S : \A fn \in fns(n) : \E c \in calls : c[1] = n /\ c[2] = fn
  <2> SUFFICES ASSUME NEW n \in S, NEW fn \in fns(n) PROVE \E c \in calls : c[1] = n /\ c[2] = fn
    OBVIOUS
  <2>1. <<n, fn>> \in calls
    BY <1>1
  <2> HIDE DEF calls
  <2> QED BY <2>1
<1>4. SoundRoutes(files) <=> asking # {} /\ One /\ Auth /\ Annotated /\ Valid /\ Apart
  <2>1. (\A c \in calls : AuthFine(c[2]) /\ Len(c[2].http) <= 1) <=> Auth
    <3> HIDE DEF S, fns, calls
    <3> QED BY <1>3, <1>2
  <2>2. (\A c \in asking : AnnotationFine(files, c[1], c[2], c[2].http[1])) <=> Annotated
    <3> HIDE DEF S, fns, calls
    <3> QED BY <1>3, <1>2
  <2>3. (\A c \in asking : ValidPattern(c[2].http[1].paths[1])) <=> Valid
    BY RouteFacts
  <2>4. (\A c, e \in asking : c # e /\ c[2].http[1].method = e[2].http[1].method =>
           ~SameNode(c[2].http[1].paths[1], e[2].http[1].paths[1])) <=> Apart
    BY RouteFacts
  <2>5. SoundRoutes(files) <=> /\ asking # {} /\ One
                               /\ \A c \in calls : AuthFine(c[2]) /\ Len(c[2].http) <= 1
                               /\ \A c \in asking : AnnotationFine(files, c[1], c[2], c[2].http[1])
                               /\ \A c \in asking : ValidPattern(c[2].http[1].paths[1])
                               /\ \A c, e \in asking : c # e /\ c[2].http[1].method = e[2].http[1].method =>
                                    ~SameNode(c[2].http[1].paths[1], e[2].http[1].paths[1])
    BY DEF SoundRoutes
  <2> HIDE DEF asking, calls, One, Auth, Annotated, Valid, Apart, R
  <2> QED BY <2>1, <2>2, <2>3, <2>4, <2>5
<1>5. (\A n \in S : ServiceFine(files, n)) <=> One /\ Auth /\ Annotated /\ Keyed
  BY DEF ServiceFine
<1>6. \A n, r : r \in ExtractRoutes(files, n) <=> \E fn \in fns(n) : fn.http # <<>> /\ r = RouteOf(n, fn)
  BY DEF ExtractRoutes
<1>7. \A r : r \in AllRoutes(files) <=> \E c \in asking : r = R(c)
  <2>1. \A r : r \in AllRoutes(files) <=> \E n \in S : r \in ExtractRoutes(files, n)
    BY DEF AllRoutes, Bundles
  <2> HIDE DEF S, fns, calls
  <2> QED BY <1>3, <1>2, <1>6, <2>1
<1>8. Bundles(files) # {} <=> asking # {}
  <2>1. Bundles(files) # {} <=> \E n \in S : \E r : r \in ExtractRoutes(files, n)
    BY DEF Bundles
  <2> HIDE DEF S, fns, calls
  <2> QED BY <1>3, <1>2, <1>6, <2>1
<1>9. Buildable(AllRoutes(files)) <=>
        Valid /\ \A c, e \in asking : R(c) # R(e) /\ R(c).method = R(e).method => ~SameNode(R(c).path, R(e).path)
  <2> HIDE DEF asking, R
  <2> QED BY <1>7 DEF Buildable
<1>10. ASSUME Apart PROVE Keyed
  <2> SUFFICES ASSUME NEW n \in S, NEW fn \in fns(n), NEW gn \in fns(n), fn.http # <<>>, gn.http # <<>>, fn # gn,
                      SameKey(RouteOf(n, fn), RouteOf(n, gn))
               PROVE  FALSE
    OBVIOUS
  <2> DEFINE c == <<n, fn>>
             e == <<n, gn>>
  <2>1. c \in asking /\ e \in asking /\ c # e
    OBVIOUS
  <2>2. R(c) = RouteOf(n, fn) /\ R(e) = RouteOf(n, gn)
    OBVIOUS
  <2> HIDE DEF c, e, asking, R
  <2>3. R(c).method = R(e).method /\ R(c).path = R(e).path
    BY <2>2 DEF SameKey
  <2> QED BY <1>10, <2>1, <2>3, SameNodeReflexive
<1>11. ASSUME Keyed, NEW c \in asking, NEW e \in asking, c # e, R(c) = R(e) PROVE FALSE
  <2>1. c = <<c[1], c[2]>> /\ c[1] \in S /\ c[2] \in fns(c[1]) /\ c[2].http # <<>>
    BY <1>2
  <2>2. e = <<e[1], e[2]>> /\ e[1] \in S /\ e[2] \in fns(e[1]) /\ e[2].http # <<>>
    BY <1>2
  <2>3. c[1] = e[1]
    BY <1>11, RouteFacts
  <2>4. c[2] # e[2]
    <3> HIDE DEF asking, calls
    <3> QED BY <1>11, <2>1, <2>2, <2>3
  <2>5. SameKey(RouteOf(c[1], c[2]), RouteOf(c[1], e[2]))
    BY <1>11, <2>3 DEF SameKey
  <2> HIDE DEF asking, calls, S, fns
  <2> QED BY <1>11, <2>1, <2>2, <2>3, <2>4, <2>5
<1>12. Apart <=> Keyed /\ \A c, e \in asking : R(c) # R(e) /\ R(c).method = R(e).method => ~SameNode(R(c).path, R(e).path)
  <2>1. ASSUME Keyed, \A c, e \in asking : R(c) # R(e) /\ R(c).method = R(e).method => ~SameNode(R(c).path, R(e).path)
        PROVE  Apart
    <3> HIDE DEF asking, R, Keyed
    <3> QED BY <1>11, <2>1
  <2>2. ASSUME Apart, NEW c \in asking, NEW e \in asking, R(c) # R(e), R(c).method = R(e).method
        PROVE  ~SameNode(R(c).path, R(e).path)
    <3>1. c # e
      BY <2>2
    <3> HIDE DEF asking, R
    <3> QED BY <2>2, <3>1
  <2> HIDE DEF asking, R, Keyed, Apart
  <2> QED BY <1>10, <2>1, <2>2
<1> HIDE DEF asking, calls, S, fns, R, One, Auth, Annotated, Keyed, Valid, Apart
<1> QED BY <1>4, <1>5, <1>8, <1>9, <1>12 DEF S
-----------------------------------------------------------------------------
(* The archive                                                             *)

\* What Unpack sees to of the files that LoadArchive is given.
LEMMA FilesUnpacked ==
  ASSUME NEW d, TypedEntries(d.entries), Unpacks(d)
  PROVE  /\ IsFiniteSet(DOMAIN FilesOf(d))
         /\ \A n \in DOMAIN FilesOf(d) : Len(n) > 1 /\ n[1] = "idl"
         /\ \A n \in DOMAIN FilesOf(d) : \E i \in DOMAIN d.entries : FilesOf(d)[n] = d.entries[i].body
<1> DEFINE es == d.entries
           fs == {i \in DOMAIN es : ~IsDir(es[i])}
           F == DOMAIN FilesOf(d)
<1>1. Len(es) \in Nat /\ DOMAIN es = 1 .. Len(es)
  BY EntryFacts
<1>2. F = {es[i].name : i \in fs}
  BY NamesOfFiles
<1>3. IsFiniteSet(F)
  <2>1. IsFiniteSet(1 .. Len(es))
    BY <1>1, FS_Interval
  <2>2. fs \in SUBSET (1 .. Len(es))
    BY <1>1
  <2>3. IsFiniteSet(fs)
    BY <2>1, <2>2, FS_Subset
  <2> DEFINE name == [i \in fs |-> es[i].name]
  <2>4. name \in Surjection(fs, F)
    BY <1>2 DEF Surjection
  <2> HIDE DEF fs, F, name
  <2> QED BY <2>3, <2>4, FS_Surjection
<1>4. ASSUME NEW i \in fs PROVE Len(es[i].name) > 1 /\ es[i].name[1] = "idl"
  <2>1. EntryFine(es, i)
    BY DEF Unpacks
  <2>2. CleanName(es[i].name) /\ IsThrift(es[i].name)
    BY <2>1 DEF EntryFine, FileFine
  <2> QED BY <2>2 DEF CleanName, IsThrift
<1>5. ASSUME NEW n \in F PROVE \E i \in DOMAIN es : FilesOf(d)[n] = es[i].body
  <2>1. \E i \in fs : es[i].name = n
    BY <1>2
  <2>2. FilesOf(d)[n] = es[CHOOSE i \in fs : es[i].name = n].body
    BY <2>1 DEF FilesOf
  <2>3. (CHOOSE i \in fs : es[i].name = n) \in fs
    BY <2>1
  <2> QED BY <2>2, <2>3
<1> QED BY <1>2, <1>3, <1>4, <1>5

\* A downloaded ZIP passes every check up to the table of routes exactly when it is
\* sound (service.go:74, loader.go:20, builder.go:78).
THEOREM ArchiveSound ==
  ASSUME NEW d \in Downloads
  PROVE  Passes(d) <=> SoundArchive(d)
<1> DEFINE files == FilesOf(d)
<1>1. TypedEntries(d.entries)
  BY DownloadsAreTyped
<1>2. Unpacks(d) <=> d.zip /\ SoundEntries(d.entries)
  BY <1>1, UnpacksSound
<1>3. ASSUME Unpacks(d), \A n \in DOMAIN files : files[n] # None
      PROVE  IncludesFine(files) <=> SoundIncludes(files)
  <2>1. /\ IsFiniteSet(DOMAIN files) /\ \A n \in DOMAIN files : Len(n) > 1 /\ n[1] = "idl"
        /\ \A n \in DOMAIN files : \E i \in DOMAIN d.entries : files[n] = d.entries[i].body
    BY <1>1, <1>3, FilesUnpacked
  <2>2. None \notin SUBSET DOMAIN files
    <3>1. DOMAIN files \subseteq Files
      BY <1>3, NamesAreFiles
    <3>2. \A fs \in SUBSET Files : fs # None
      BY NamesAreFiles
    <3> HIDE DEF files
    <3> QED BY <3>1, <3>2
  <2> HIDE DEF files
  <2>3. ASSUME NEW n \in DOMAIN files
        PROVE  Len(files[n].includes) \in Nat /\ DOMAIN files[n].includes = 1 .. Len(files[n].includes)
    <3>1. PICK i \in DOMAIN d.entries : files[n] = d.entries[i].body
      BY <2>1
    <3>2. files[n].includes \in Seq(Range(files[n].includes))
      BY <1>1, <1>3, <3>1 DEF TypedEntries
    <3> QED BY <3>2
  <2>4. Searchable(files)
    BY <2>1, <2>2, <2>3 DEF Searchable
  <2> QED BY <2>1, <2>4, IncludesSound
<1>4. SoundRoutes(files) <=> /\ \A n \in WithService(files) : ServiceFine(files, n)
                             /\ Bundles(files) # {}
                             /\ Buildable(AllRoutes(files))
  BY RoutesSound
<1> QED BY <1>2, <1>3, <1>4 DEF Passes, Loads, SoundArchive
-----------------------------------------------------------------------------
(* Building                                                                *)

\* Every bundle has routes, and its routes name it: ExtractRoutes, LoadArchive.
LEMMA RoutesNameBundles == ASSUME NEW files PROVE {r.file : r \in AllRoutes(files)} = Bundles(files)
<1>1. \A n : \A r \in ExtractRoutes(files, n) : r.file = n
  BY DEF ExtractRoutes, RouteOf
<1>2. \A n \in Bundles(files) : ExtractRoutes(files, n) # {}
  BY DEF Bundles
<1>3. ASSUME NEW r \in AllRoutes(files) PROVE r.file \in Bundles(files)
  <2>1. PICK n \in Bundles(files) : r \in ExtractRoutes(files, n)
    BY <1>3 DEF AllRoutes
  <2> QED BY <2>1, <1>1
<1>4. ASSUME NEW n \in Bundles(files) PROVE \E r \in AllRoutes(files) : r.file = n
  <2>1. PICK r : r \in ExtractRoutes(files, n)
    BY <1>2
  <2>2. r \in AllRoutes(files)
    BY <2>1 DEF AllRoutes
  <2> QED BY <2>1, <2>2, <1>1
<1> QED BY <1>3, <1>4

\* The bundles of an archive that unpacks are among its files.
LEMMA BundlesAreFiles ==
  ASSUME NEW d \in Downloads, Unpacks(d) PROVE Bundles(FilesOf(d)) \subseteq Files
BY NamesAreFiles DEF Bundles, WithService

LEMMA InitIInv == Init => IInv
<1> SUFFICES ASSUME Init PROVE IInv
  OBVIOUS
<1>1. TypeOK
  BY DEF Init, TypeOK, Stages
<1>2. \A f \in Files : stage[f] = "none" /\ closes[f] = 0
  BY DEF Init
<1> QED BY <1>1, <1>2 DEF Init, IInv, StageInv, GroupInv, ClosedInv, InBuildOne, Built, Constructors, Open

\* Closing what is open and was not closed yet keeps the count of ClosedInv.
LEMMA CloseOnce ==
  ASSUME TypeOK, ClosedInv, NEW fs \in SUBSET Files, \A f \in fs : Open(f), CloseAll(fs)
  PROVE  /\ stage' \in [Files -> Stages] /\ closes' \in [Files -> Nat]
         /\ \A f \in Files : closes'[f] = IF stage'[f] = "closed" THEN 1 ELSE 0
         /\ \A f \in Files : IF f \in fs THEN stage'[f] = "closed" ELSE stage'[f] = stage[f]
<1>1. \A f \in fs : stage[f] # "closed" /\ closes[f] = 0
  BY DEF Open, ClosedInv
<1> QED BY <1>1 DEF TypeOK, ClosedInv, CloseAll, Stages

LEMMA BeginIInv == ASSUME IInv, NEW o, NEW d \in Downloads, Begin(o, d) PROVE IInv'
BY DEF Begin, Goto, IInv, TypeOK, StageInv, GroupInv, ClosedInv, InBuildOne, Built, Constructors, Open, Stages

LEMMA CancelIInv == ASSUME IInv, CancelOperation PROVE IInv'
BY DEF CancelOperation, IInv, TypeOK, StageInv, GroupInv, ClosedInv, InBuildOne, Built, Constructors, Open, Stages, Contract

LEMMA FetchIInv == ASSUME IInv, Fetch PROVE IInv'
BY DEF Fetch, Goto, Trouble, IInv, TypeOK, StageInv, GroupInv, ClosedInv, InBuildOne, Built, Constructors, Open, Stages, Contract

LEMMA LoadIInv == ASSUME IInv, Load PROVE IInv'
<1>1. Contract' = Contract
  BY DEF Load, Contract
<1>2. pc' = "building" => left' \in SUBSET Files /\ left' = Bundles(Contract)
  BY BundlesAreFiles DEF Load, Goto, IInv, TypeOK, Contract
<1> QED BY <1>1, <1>2 DEF Load, Goto, IInv, TypeOK, StageInv, GroupInv, ClosedInv, InBuildOne, Built, Constructors, Open, Stages

LEMMA TakeIInv == ASSUME IInv, NEW f \in Files, TakeBundle(f) PROVE IInv'
<1>1. Contract' = Contract
  BY DEF TakeBundle, Contract
<1> QED BY <1>1 DEF TakeBundle, Goto, Trouble, IInv, TypeOK, StageInv, GroupInv, ClosedInv, InBuildOne, Built, Constructors, Open, Stages, Made

LEMMA ConstructIInv == ASSUME IInv, Construct PROVE IInv'
<1>1. Contract' = Contract
  BY DEF Construct, Contract
<1> QED BY <1>1 DEF Construct, Goto, Makes, Then, IInv, TypeOK, StageInv, GroupInv, ClosedInv, InBuildOne, Built, Constructors, Open, Stages, Made

LEMMA ConstructFailsIInv == ASSUME IInv, NEW panic \in BOOLEAN, ConstructFails(panic) PROVE IInv'
<1>1. Contract' = Contract
  BY DEF ConstructFails, Contract
<1> QED BY <1>1, CloseOnce DEF ConstructFails, CleanedUp, Goto, Trouble, IInv, TypeOK, StageInv, GroupInv, ClosedInv, InBuildOne, Built, Constructors, Open, Stages, Made

LEMMA FinishOneIInv == ASSUME IInv, FinishOne PROVE IInv'
<1>1. Contract' = Contract
  BY DEF FinishOne, Contract
<1> QED BY <1>1, CloseOnce DEF FinishOne, Goto, Trouble, IInv, TypeOK, StageInv, GroupInv, ClosedInv, InBuildOne, Built, Constructors, Open, Stages, Made

LEMMA BuildFailsIInv == ASSUME IInv, BuildFails PROVE IInv'
<1>1. Contract' = Contract
  BY DEF BuildFails, Contract
<1> QED BY <1>1, CloseOnce DEF BuildFails, Goto, IInv, TypeOK, StageInv, GroupInv, ClosedInv, InBuildOne, Built, Constructors, Open, Stages

LEMMA BuildEndsIInv == ASSUME IInv, BuildEnds PROVE IInv'
<1>1. Contract' = Contract
  BY DEF BuildEnds, Contract
<1> QED BY <1>1 DEF BuildEnds, Goto, IInv, TypeOK, StageInv, GroupInv, ClosedInv, InBuildOne, Built, Constructors, Open, Stages

LEMMA PutIInv == ASSUME IInv, Put PROVE IInv'
<1>1. Contract' = Contract
  BY DEF Put, Contract
<1> QED BY <1>1 DEF Put, Goto, Trouble, IInv, TypeOK, StageInv, GroupInv, ClosedInv, InBuildOne, Built, Constructors, Open, Stages

LEMMA PublishIInv == ASSUME IInv, NEW published \in BOOLEAN, PublishCandidate(published) PROVE IInv'
<1>1. Contract' = Contract
  BY DEF PublishCandidate, Contract
<1> QED BY <1>1 DEF PublishCandidate, NotHandedOver, Goto, Trouble, IInv, TypeOK, StageInv, GroupInv, ClosedInv, InBuildOne, Built, Constructors, Open, Stages

LEMMA CloseRuntimeIInv == ASSUME IInv, CloseRuntime PROVE IInv'
<1>1. Contract' = Contract
  BY DEF CloseRuntime, Contract
<1> QED BY <1>1, CloseOnce DEF CloseRuntime, Goto, IInv, TypeOK, StageInv, GroupInv, ClosedInv, InBuildOne, Built, Constructors, Open, Stages

LEMMA ReturnIInv == ASSUME IInv, Return PROVE IInv'
BY DEF Return, Goto, IInv, TypeOK, StageInv, GroupInv, ClosedInv, InBuildOne, Built, Constructors, Open, Stages

\* Every step of an operation keeps the invariant.
THEOREM Invariance == Spec => []IInv
<1>1. IInv /\ [Next]_vars => IInv'
  <2> SUFFICES ASSUME IInv, [Next]_vars PROVE IInv'
    OBVIOUS
  <2>1. CASE Next
    BY <2>1, BeginIInv, CancelIInv, FetchIInv, LoadIInv, TakeIInv, ConstructIInv, ConstructFailsIInv, FinishOneIInv,
       BuildFailsIInv, BuildEndsIInv, PutIInv, PublishIInv, CloseRuntimeIInv, ReturnIInv DEF Next
  <2>2. CASE UNCHANGED vars
    BY <2>2 DEF vars, IInv, TypeOK, StageInv, GroupInv, ClosedInv, InBuildOne, Built, Open, Contract
  <2> QED BY <2>1, <2>2
<1> QED BY <1>1, InitIInv, PTL DEF Spec

\* The variables keep their types.
COROLLARY TypeCorrect == Spec => []TypeOK
<1>1. IInv => TypeOK
  BY DEF IInv
<1> QED BY <1>1, Invariance, PTL

\* Whatever goes wrong while a runtime is built, published or thrown away, nothing it
\* made stays open and nothing is closed twice (builder.go:27, builder.go:84).
THEOREM NoLeak == Spec => []NothingLeaks
<1>1. IInv => NothingLeaks
  <2> SUFFICES ASSUME IInv PROVE NothingLeaks
    OBVIOUS
  <2>1. \A f \in Files : closes[f] <= 1
    BY DEF IInv, ClosedInv
  <2>2. pc = "done" => \A f \in Files : Open(f) => held
    BY DEF IInv, ClosedInv
  <2>3. ASSUME held PROVE {r.file : r \in AllRoutes(Contract)} = {f \in Files : stage[f] = "client"}
    <3>1. group = Bundles(Contract) /\ group \subseteq Files
      BY <2>3 DEF IInv, GroupInv, Built, TypeOK
    <3>2. ~InBuildOne
      BY <2>3 DEF IInv, ClosedInv, InBuildOne, Constructors
    <3>3. \A f \in Files : stage[f] = "client" <=> f \in group
      BY <2>3, <3>2 DEF IInv, StageInv, Built
    <3> QED BY <3>1, <3>3, RoutesNameBundles
  <2> QED BY <2>1, <2>2, <2>3 DEF NothingLeaks
<1> QED BY <1>1, Invariance, PTL

\* Of routes that make a table some make one, too.
LEMMA FewerRoutes ==
  ASSUME NEW files, NEW n \in Bundles(files), Buildable(AllRoutes(files))
  PROVE  Buildable(ExtractRoutes(files, n))
BY DEF Buildable, AllRoutes

\* What an operation knows of its download at each step.
LEMMA AcceptStep == ASSUME IInv, AcceptInv, [Next]_vars PROVE AcceptInv'
<1> USE DEF AcceptInv, Fetched, Goto, Trouble
<1>1. troubled \in BOOLEAN
  BY DEF IInv, TypeOK
<1>2. ASSUME NEW o, NEW d \in Downloads, Begin(o, d) PROVE AcceptInv'
  BY <1>2 DEF Begin, InBuildOne, Built, Constructors, IInv, ClosedInv
<1>3. ASSUME CancelOperation PROVE AcceptInv'
  BY <1>3 DEF CancelOperation, InBuildOne, Built
<1>4. ASSUME Fetch PROVE AcceptInv'
  BY <1>4 DEF Fetch, InBuildOne, Built, Constructors, IInv, ClosedInv
<1>5. ASSUME Load PROVE AcceptInv'
  BY <1>5 DEF Load, InBuildOne, Built, Constructors, IInv, ClosedInv, Contract, Passes
<1>6. ASSUME NEW f \in Files, TakeBundle(f) PROVE AcceptInv'
  <2>1. Buildable(ExtractRoutes(Contract, f))
    <3>1. f \in Bundles(Contract)
      BY <1>6 DEF TakeBundle, IInv, GroupInv
    <3>2. Buildable(AllRoutes(Contract))
      BY <1>6 DEF TakeBundle, Passes, Contract
    <3> QED BY <3>1, <3>2, FewerRoutes
  <2> QED BY <1>1, <1>6, <2>1 DEF TakeBundle, InBuildOne, Built, Constructors, IInv, ClosedInv
<1>7. ASSUME Construct PROVE AcceptInv'
  BY <1>7 DEF Construct, Then, InBuildOne, Built, Constructors, IInv, ClosedInv
<1>8. ASSUME NEW panic \in BOOLEAN, ConstructFails(panic) PROVE AcceptInv'
  BY <1>8 DEF ConstructFails, InBuildOne, Built, Constructors, IInv, ClosedInv
<1>9. ASSUME FinishOne PROVE AcceptInv'
  BY <1>9 DEF FinishOne, InBuildOne, Built, Constructors, IInv, ClosedInv
<1>10. ASSUME BuildFails PROVE AcceptInv'
  BY <1>10 DEF BuildFails, InBuildOne, Built, Constructors, IInv, ClosedInv
<1>11. ASSUME BuildEnds PROVE AcceptInv'
  <2>1. group = Bundles(Contract)
    BY <1>11 DEF BuildEnds, IInv, GroupInv
  <2>2. Buildable(UNION {ExtractRoutes(Contract, f) : f \in group})
    BY <1>11, <2>1 DEF BuildEnds, Passes, Contract, AllRoutes
  <2> QED BY <1>11, <2>2 DEF BuildEnds, InBuildOne, Built, Constructors, IInv, ClosedInv
<1>12. ASSUME Put PROVE AcceptInv'
  BY <1>12 DEF Put, InBuildOne, Built, Constructors, IInv, ClosedInv
<1>13. Built => group # {}
  BY DEF Built, Passes, Loads, Contract, IInv, GroupInv
<1>14. ASSUME NEW published \in BOOLEAN, PublishCandidate(published) PROVE AcceptInv'
  BY <1>13, <1>14 DEF PublishCandidate, InBuildOne, Built, Constructors, IInv, ClosedInv
<1>15. ASSUME CloseRuntime PROVE AcceptInv'
  BY <1>13, <1>15 DEF CloseRuntime, InBuildOne, Built, Constructors, IInv, ClosedInv
<1>16. ASSUME Return PROVE AcceptInv'
  BY <1>16 DEF Return, InBuildOne, Built, Constructors
<1>17. CASE UNCHANGED vars
  BY <1>17 DEF vars, InBuildOne, Built
<1> QED BY <1>2, <1>3, <1>4, <1>5, <1>6, <1>7, <1>8, <1>9, <1>10, <1>11, <1>12, <1>14, <1>15, <1>16, <1>17 DEF Next

\* Clients are built from the archives that are sound and from no others, whatever is
\* downloaded: unless something else goes wrong nothing sound is turned down, and
\* nothing unsound gets through (loader.go:32, fetcher.go:112).
THEOREM Accepted == Spec => []AcceptedIffSound
<1>1. Init => AcceptInv
  BY DEF Init, AcceptInv, InBuildOne, Built, Constructors
<1>2. IInv /\ AcceptInv => AcceptedIffSound
  <2> SUFFICES ASSUME IInv, AcceptInv PROVE AcceptedIffSound
    OBVIOUS
  <2>1. pc # "idle" => download \in Downloads
    BY DEF IInv, TypeOK
  <2>2. held => pc = "done"
    BY DEF IInv, ClosedInv
  <2>3. pc # "idle" => (Passes(download) <=> SoundArchive(download))
    BY <2>1, ArchiveSound
  <2> QED BY <2>2, <2>3 DEF AcceptedIffSound, AcceptInv, Fetched, Built
<1> QED BY <1>1, <1>2, AcceptStep, Invariance, PTL DEF Spec
=============================================================================
