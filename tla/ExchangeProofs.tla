----------------------------- MODULE ExchangeProofs -----------------------------
(***************************************************************************)
(* Theorems about Exchange for any page, request, policy and document.     *)
(***************************************************************************)
EXTENDS Exchange, SequenceTheorems, WellFoundedInduction, TLAPS

-----------------------------------------------------------------------------
\* A set of naturals has a least element: what the library states of well-founded
\* relations, whose theorems on induction take an operator as a parameter.
LEMMA NatMin ==
    ASSUME NEW T \in SUBSET Nat, T # {}
    PROVE  \E x \in T : \A y \in T : x <= y
<1> DEFINE R == {ss \in Nat \X Nat : ss[1] < ss[2]}
<1>1. IsWellFoundedOn(R, Nat)
  BY NatLessThanWellFounded DEF OpToRel
<1>2. \E x \in T : \A y \in T : ~ (<<y, x>> \in R)
  BY <1>1, WFMin
<1>3. \A x, y \in T : ~(<<y, x>> \in R) => x <= y
  OBVIOUS
<1> QED
  BY <1>2, <1>3

\* So an induction is one over the set of the numbers a fact holds of.
LEMMA NatInd ==
    ASSUME NEW T, 0 \in T, \A n \in T \cap Nat : n + 1 \in T
    PROVE  Nat \subseteq T
<1> SUFFICES ASSUME Nat \ T # {} PROVE FALSE
  OBVIOUS
<1>1. PICK x \in Nat \ T : \A y \in Nat \ T : x <= y
  BY NatMin
<1>2. x # 0 /\ x - 1 \in Nat
  BY <1>1
<1>3. x - 1 \in T
  BY <1>1, <1>2
<1> QED
  BY <1>1, <1>2, <1>3, x - 1 + 1 = x

\* A function that is defined by recursion on the arguments after its own exists,
DownSteps(m, n, S) ==
    {step \in [m .. n -> [[m .. n -> S] -> S]] :
       \A j \in m .. n : \A f, g \in [m .. n -> S] :
          (\A k \in j + 1 .. n : f[k] = g[k]) => step[j][f] = step[j][g]}
DownTo(f, m, n, S, step) ==
    f \in [m .. n -> S] /\ \A j \in m .. n : f[j] = step[j][f]

\* A function defined from the end of a range downward exists,
LEMMA DownwardRecursion ==
    ASSUME NEW m \in Nat, NEW n \in Nat, NEW S, S # {}, NEW step \in DownSteps(m, n, S)
    PROVE  \E f : DownTo(f, m, n, S, step)
<1>0. /\ step \in [m .. n -> [[m .. n -> S] -> S]]
      /\ \A j \in m .. n : \A f, g \in [m .. n -> S] :
           (\A k \in j + 1 .. n : f[k] = g[k]) => step[j][f] = step[j][g]
  BY DEF DownSteps
<1> DEFINE D == m .. n
           T == {i \in Nat : \E f \in [D -> S] : \A j \in D : j > n - i => f[j] = step[j][f]}
<1>1. 0 \in T
  <2>1. PICK v \in S : TRUE
    OBVIOUS
  <2>2. [j \in D |-> v] \in [D -> S]
    OBVIOUS
  <2>3. \A j \in D : ~(j > n - 0)
    OBVIOUS
  <2> HIDE DEF D
  <2> QED
    BY <2>2, <2>3
<1>2. ASSUME NEW i \in T \cap Nat PROVE i + 1 \in T
  <2>1. PICK f \in [D -> S] : \A j \in D : j > n - i => f[j] = step[j][f]
    BY <1>2
  <2>2. CASE n - i \notin D
    <3>1. \A j \in D : j > n - (i + 1) => j > n - i
      BY <2>2
    <3>2. \A j \in D : j > n - (i + 1) => f[j] = step[j][f]
      BY <2>1, <3>1
    <3> HIDE DEF D
    <3> QED
      BY <3>2
  <2>3. CASE n - i \in D
    <3> DEFINE h == n - i
               g == [f EXCEPT ![h] = step[h][f]]
    <3>1. step[h][f] \in S /\ h \in D
      BY <1>0, <2>3
    <3>2. g \in [D -> S] /\ g[h] = step[h][f] /\ \A k \in D : k # h => g[k] = f[k]
      BY <3>1
    <3> HIDE DEF g
    <3>3. ASSUME NEW j \in D, j > n - (i + 1) PROVE g[j] = step[j][g]
      <4>1. j >= h /\ j \in m .. n /\ j \in Nat
        BY <3>3
      <4>2. \A k \in j + 1 .. n : f[k] = g[k]
        BY <3>2, <4>1
      <4>3. step[j][f] = step[j][g]
        BY <1>0, <3>2, <4>1, <4>2
      <4>4. CASE j = h
        BY <3>2, <4>3, <4>4
      <4>5. CASE j # h
        <5>1. f[j] = step[j][f]
          BY <2>1, <4>1, <4>5
        <5> QED
          BY <3>2, <4>3, <4>5, <5>1
      <4> QED
        BY <4>4, <4>5
    <3>4. \A j \in D : j > n - (i + 1) => g[j] = step[j][g]
      BY <3>3
    <3> HIDE DEF D
    <3> QED
      BY <3>2, <3>4
  <2> QED
    BY <2>2, <2>3
<1>3. n + 1 \in T
  <2> HIDE DEF T
  <2> QED
    BY <1>1, <1>2, NatInd
<1>4. \A j \in D : j > n - (n + 1)
  OBVIOUS
<1> QED
  BY <1>3, <1>4 DEF DownTo

\* and one that is defined by recursion on the argument before.
UpSteps(n, S) == [1 .. n -> [S -> S]]
UpTo(f, n, S, first, step) ==
    f \in [0 .. n -> S] /\ f[0] = first /\ \A i \in 1 .. n : f[i] = step[i][f[i - 1]]

\* and one defined from its beginning upward.
LEMMA UpwardRecursion ==
    ASSUME NEW n \in Nat, NEW S, NEW first \in S, NEW step \in UpSteps(n, S)
    PROVE  \E f : UpTo(f, n, S, first, step)
<1>0. step \in [1 .. n -> [S -> S]]
  BY DEF UpSteps
<1> DEFINE D == 0 .. n
           T == {m \in Nat : \E f \in [D -> S] :
                   f[0] = first /\ \A i \in 1 .. n : i <= m => f[i] = step[i][f[i - 1]]}
<1>1. 0 \in T
  <2>1. [i \in D |-> first] \in [D -> S]
    OBVIOUS
  <2>2. [i \in D |-> first][0] = first
    OBVIOUS
  <2>3. \A i \in 1 .. n : ~(i <= 0)
    OBVIOUS
  <2> HIDE DEF D
  <2> QED
    BY <2>1, <2>2, <2>3
<1>2. ASSUME NEW m \in T \cap Nat PROVE m + 1 \in T
  <2>1. PICK f \in [D -> S] :
          f[0] = first /\ \A i \in 1 .. n : i <= m => f[i] = step[i][f[i - 1]]
    BY <1>2
  <2>2. CASE m + 1 > n
    <3>1. \A i \in 1 .. n : i <= m + 1 => i <= m
      BY <2>2
    <3>2. \A i \in 1 .. n : i <= m + 1 => f[i] = step[i][f[i - 1]]
      BY <2>1, <3>1
    <3> HIDE DEF D
    <3> QED
      BY <2>1, <3>2
  <2>3. CASE m + 1 <= n
    <3> DEFINE h == m + 1
               g == [f EXCEPT ![h] = step[h][f[m]]]
    <3>1. step[h][f[m]] \in S /\ h \in D /\ h # 0 /\ h \in 1 .. n
      BY <1>0, <2>3
    <3>2. g \in [D -> S] /\ g[h] = step[h][f[m]] /\ \A k \in D : k # h => g[k] = f[k]
      BY <3>1
    <3>3. g[0] = first
      BY <2>1, <3>1, <3>2
    <3> HIDE DEF g
    <3>4. ASSUME NEW i \in 1 .. n, i <= m + 1 PROVE g[i] = step[i][g[i - 1]]
      <4>1. CASE i = h
        <5>1. g[i - 1] = f[m]
          BY <3>2, <3>1, <4>1
        <5> QED
          BY <3>2, <4>1, <5>1
      <4>2. CASE i # h
        <5>1. i <= m /\ i \in D /\ i - 1 \in D /\ i - 1 # h
          BY <3>4, <4>2
        <5>2. g[i] = f[i] /\ g[i - 1] = f[i - 1]
          BY <3>2, <4>2, <5>1
        <5>3. f[i] = step[i][f[i - 1]]
          BY <2>1, <5>1
        <5> QED
          BY <5>2, <5>3
      <4> QED
        BY <4>1, <4>2
    <3>5. \A i \in 1 .. n : i <= m + 1 => g[i] = step[i][g[i - 1]]
      BY <3>4
    <3> HIDE DEF D
    <3> QED
      BY <3>2, <3>3, <3>5
  <2>4. m + 1 > n \/ m + 1 <= n
    OBVIOUS
  <2> HIDE DEF T
  <2> QED
    BY <2>2, <2>3, <2>4
<1>3. n \in T
  <2> HIDE DEF T
  <2> QED
    BY <1>1, <1>2, NatInd
<1> QED
  BY <1>3 DEF UpTo

-----------------------------------------------------------------------------
\* What was asked and answered is what a browser and a site may, the site was
\* sent what Upstream makes of it, the browser what SentPolicies does.
GivenInv == Labelled(asked) /\ headers \in Seq(Policy) /\ doc \in Seq(STRING)
SentInv == pc # "request" => sent = Upstream(asked, Target)
PoliciesInv == policies = IF pc = "done" THEN SentPolicies(headers) ELSE <<>>
AnswerInv == GivenInv /\ SentInv /\ PoliciesInv

LEMMA InitAnswer == Init => AnswerInv
<1> SUFFICES ASSUME Init PROVE AnswerInv
  OBVIOUS
<1>1. PICK x \in Exchanges : asked \in x.asked /\ headers \in x.headers /\ doc \in x.doc
  BY DEF Init
<1>2. GivenInv
  BY <1>1, ExchangesAssumption DEF GivenInv
<1>. QED
  BY <1>2 DEF Init, AnswerInv, SentInv, PoliciesInv

LEMMA NextAnswer == AnswerInv /\ [Next]_vars => AnswerInv'
<1> SUFFICES ASSUME AnswerInv, [Next]_vars PROVE AnswerInv'
  OBVIOUS
<1> USE DEF AnswerInv, GivenInv, SentInv, PoliciesInv, given
<1>1. CASE Ask
  BY <1>1 DEF Ask
<1>2. CASE Answered
  BY <1>2 DEF Answered
<1>3. CASE ScanText
  BY <1>3 DEF ScanText, Writes
<1>4. CASE ScanMarkup
  BY <1>4 DEF ScanMarkup, Writes
<1>5. CASE ScanEnds
  BY <1>5 DEF ScanEnds
<1>6. CASE Inject
  BY <1>6 DEF Inject
<1>7. CASE Respond
  BY <1>7 DEF Respond
<1>8. CASE UNCHANGED vars
  BY <1>8 DEF vars
<1>. QED
  BY <1>1, <1>2, <1>3, <1>4, <1>5, <1>6, <1>7, <1>8 DEF Next

\* Whatever was asked and answered, sent is what Upstream makes of it.
LEMMA AnswerInductive == Spec => []AnswerInv
BY InitAnswer, NextAnswer, PTL DEF Spec

-----------------------------------------------------------------------------
\* RequestIdentity: what is sent of what a browser labels as it does.
LEMMA UpstreamIsCoherent ==
    ASSUME NEW in, NEW target, Labelled(in), SpeaksFetchMetadata(in)
    PROVE  LET told == Upstream(in, target)
           IN  Navigates(told) /\ Initiated(told) /\ PageIsOf(told, target)
<1> DEFINE told == Upstream(in, target)
<1>1. /\ told.mode = in.mode /\ told.dest = UpstreamDest(in)
      /\ told.site = UpstreamSite(in, target) /\ told.referer = in.page
      /\ told.origin = IF in.origin THEN target ELSE Absent
  BY DEF Upstream
<1> HIDE DEF told
<1>2. Navigates(told)
  BY <1>1 DEF Navigates, UpstreamDest, Labelled
<1>3. Initiated(told)
  BY <1>1 DEF Initiated, UpstreamSite, secFetchSite
<1>4. PageIsOf(told, target)
  BY <1>1 DEF PageIsOf, UpstreamSite, secFetchSite
<1>. QED
  BY <1>2, <1>3, <1>4 DEF told

\* Whatever page of whatever target a request comes from, what the site is told
\* of it keeps the three rules on mode, destination, initiator and page.
THEOREM IdentityCoheres == Spec => []IdentityIsCoherent
<1>1. AnswerInv => IdentityIsCoherent
  BY UpstreamIsCoherent DEF AnswerInv, GivenInv, SentInv, IdentityIsCoherent
<1>. QED
  BY <1>1, AnswerInductive, PTL

-----------------------------------------------------------------------------
\* ContentPolicy.
Rewritten ==
    [name : STRING, sources : SUBSET (SourceExpressions \cup SandboxFlags \cup {"ours"})]

LEMMA RewrittenType ==
    ASSUME NEW d \in Directives PROVE RewrittenDirective(d) \in Rewritten
<1>0. /\ d \in [name : STRING, sources : SUBSET (SourceExpressions \cup SandboxFlags)]
      /\ d.name \notin cspVerbatimDirectives => d.sources \subseteq SourceExpressions
  BY DEF Directives
<1>1. CASE d.name \in cspVerbatimDirectives
  BY <1>0, <1>1 DEF RewrittenDirective, Rewritten
<1>2. CASE d.name \notin cspVerbatimDirectives
  <2>1. Translated(d.sources) \subseteq SourceExpressions
    BY <1>0, <1>2 DEF Translated, SourceExpressions, Portable
  <2>2. Granted(d) \subseteq SourceExpressions \cup {"ours"}
    BY <2>1, NonceAssumption DEF Granted
  <2>. QED
    BY <1>0, <1>2, <2>2 DEF RewrittenDirective, Directive, Rewritten, SourceExpressions,
                            Portable
<1>. QED
  BY <1>1, <1>2

\* rewriteCSP goes through the directives.
LEMMA RewriteSteps ==
    ASSUME NEW policy \in Policy
    PROVE  \E w \in [0 .. Len(policy) -> Seq(Rewritten)] :
             /\ rewriteCSP(policy) = w[Len(policy)]
             /\ w[0] = <<>>
             /\ \A i \in 1 .. Len(policy) :
                  w[i] = IF policy[i].name \in cspDroppedDirectives THEN w[i - 1]
                         ELSE Append(w[i - 1], RewrittenDirective(policy[i]))
<1> DEFINE n == Len(policy)
           S == Seq(Rewritten)
           dropped(i) == policy[i].name \in cspDroppedDirectives
           body(w, i) == IF i = 0 THEN <<>>
                         ELSE IF dropped(i) THEN w[i - 1]
                         ELSE Append(w[i - 1], RewrittenDirective(policy[i]))
           step == [i \in 1 .. n |-> [v \in S |->
                      IF dropped(i) THEN v ELSE Append(v, RewrittenDirective(policy[i]))]]
<1>0. policy \in Seq(Directives)
  BY DEF Policy
<1>1. n \in Nat /\ \A i \in 1 .. n : policy[i] \in Directives
  BY <1>0
<1>2. \A i \in 1 .. n : RewrittenDirective(policy[i]) \in Rewritten
  BY <1>1, RewrittenType
<1>3. <<>> \in S /\ step \in [1 .. n -> [S -> S]]
  BY <1>2
<1>3a. \A i \in 1 .. n : \A v \in S :
         step[i][v] = IF dropped(i) THEN v ELSE Append(v, RewrittenDirective(policy[i]))
  OBVIOUS
<1> HIDE DEF n, S, dropped, step
<1>4. PICK f : UpTo(f, n, S, <<>>, step)
  BY <1>1, <1>3, UpwardRecursion DEF UpSteps
<1>4a. f \in [0 .. n -> S] /\ f[0] = <<>> /\ \A i \in 1 .. n : f[i] = step[i][f[i - 1]]
  BY <1>4 DEF UpTo
<1>5. \A i \in 1 .. n :
        f[i] = IF dropped(i) THEN f[i - 1]
               ELSE Append(f[i - 1], RewrittenDirective(policy[i]))
  <2>1. \A i \in 1 .. n : i - 1 \in 0 .. n
    BY <1>1
  <2>2. \A i \in 1 .. n : f[i - 1] \in S
    BY <1>4a, <2>1
  <2>. QED
    BY <1>3a, <1>4a, <2>2
<1>6. f = [i \in 0 .. n |-> body(f, i)]
  <2>1. ASSUME NEW i \in 0 .. n PROVE f[i] = body(f, i)
    <3>1. CASE i = 0
      BY <1>4a, <3>1
    <3>2. CASE i # 0
      <4>1. i \in 1 .. n
        BY <1>1, <3>2
      <4>. QED
        BY <1>5, <3>2, <4>1
    <3>. QED
      BY <3>1, <3>2
  <2>. QED
    BY <1>4a, <2>1
<1> DEFINE w == CHOOSE w : w = [i \in 0 .. n |-> body(w, i)]
<1>7. w = [i \in 0 .. n |-> body(w, i)]
  BY <1>6
<1>8. rewriteCSP(policy) = w[n]
  BY DEF rewriteCSP, n, dropped
<1> HIDE DEF w
<1>9. \A i \in 0 .. n : w[i] = body(w, i)
  BY <1>7
<1>10. 0 \in 0 .. n /\ \A i \in 1 .. n : i \in 0 .. n /\ i # 0 /\ i - 1 \in 0 .. n
  BY <1>1
<1>11. w[0] = <<>>
  BY <1>9, <1>10
<1>12. \A i \in 1 .. n : w[i] = IF dropped(i) THEN w[i - 1]
                ELSE Append(w[i - 1], RewrittenDirective(policy[i]))
  BY <1>9, <1>10
<1>13. \A i \in 0 .. n : w[i] \in S
  <2> DEFINE T == {m \in Nat : m <= n => w[m] \in S}
  <2>1. 0 \in T
    BY <1>3, <1>11
  <2>2. ASSUME NEW m \in T \cap Nat PROVE m + 1 \in T
    <3>1. SUFFICES ASSUME m + 1 <= n PROVE w[m + 1] \in S
      OBVIOUS
    <3>2. m + 1 \in 1 .. n /\ m + 1 - 1 = m /\ w[m] \in S
      BY <1>1, <2>2, <3>1
    <3>3. w[m + 1] = IF dropped(m + 1) THEN w[m]
                     ELSE Append(w[m], RewrittenDirective(policy[m + 1]))
      BY <1>12, <3>2
    <3>. QED
      BY <1>2, <3>2, <3>3 DEF S
  <2>3. Nat \subseteq T
    <3> HIDE DEF T
    <3>. QED
      BY <2>1, <2>2, NatInd
  <2>. QED
    BY <1>1, <2>3
<1>14. w \in [0 .. n -> S]
  BY <1>7, <1>13
<1>. QED
  BY <1>8, <1>11, <1>12, <1>14 DEF n, S, dropped

\* The first directive of a name, or none.
FirstAt(policy, name, j) ==
    /\ j \in 1 .. Len(policy) /\ policy[j].name = name
    /\ \A k \in 1 .. j - 1 : policy[k].name # name
Lacks(policy, name) == \A k \in 1 .. Len(policy) : policy[k].name # name

\* The sources of a directive are those of the first of its name.
LEMMA SourcesOfFirst ==
    ASSUME NEW policy, Len(policy) \in Nat, NEW name, NEW j, FirstAt(policy, name, j)
    PROVE  Sources(policy, name) = policy[j].sources
<1> DEFINE I == {i \in 1 .. Len(policy) : policy[i].name = name}
<1>1. j \in I /\ \A i \in I : j <= i
  BY DEF FirstAt
<1>2. SelectInSeq(policy, LAMBDA d : d.name = name)
        = IF I # {} THEN CHOOSE x \in I : \A y \in I : x =< y ELSE 0
  BY DEF SelectInSeq, SelectInSubSeq, Min
<1>3. \A x \in I : (\A y \in I : x <= y) => x = j
  BY <1>1
<1> HIDE DEF I
<1>4. (CHOOSE x \in I : \A y \in I : x =< y) = j
  BY <1>1, <1>3
<1>. QED
  BY <1>1, <1>2, <1>4 DEF Sources

\* What rewriteCSP writes of the first directive of a name it does not drop is
\* the first of that name it writes.
LEMMA RewriteKeepsFirst ==
    ASSUME NEW policy \in Policy, NEW name, name \notin cspDroppedDirectives
    PROVE  \/ Lacks(policy, name) /\ Lacks(rewriteCSP(policy), name)
           \/ \E j, k : /\ FirstAt(policy, name, j) /\ FirstAt(rewriteCSP(policy), name, k)
                       /\ rewriteCSP(policy)[k] = RewrittenDirective(policy[j])
<1> DEFINE n == Len(policy)
<1>0. policy \in Seq(Directives)
  BY DEF Policy
<1>1. n \in Nat /\ \A i \in 1 .. n : policy[i] \in Directives
  BY <1>0
<1>2. PICK w \in [0 .. n -> Seq(Rewritten)] :
             /\ rewriteCSP(policy) = w[n]
             /\ w[0] = <<>>
             /\ \A i \in 1 .. n :
                  w[i] = IF policy[i].name \in cspDroppedDirectives THEN w[i - 1]
                         ELSE Append(w[i - 1], RewrittenDirective(policy[i]))
  BY RewriteSteps
<1> DEFINE None(i) == (\A k \in 1 .. i : policy[k].name # name) /\ Lacks(w[i], name)
           Both(i) == \E j, k : /\ j <= i /\ FirstAt(policy, name, j)
                                /\ FirstAt(w[i], name, k)
                                /\ w[i][k] = RewrittenDirective(policy[j])
           T == {i \in Nat : i <= n => None(i) \/ Both(i)}
<1>3. 0 \in T
  BY <1>2 DEF Lacks
<1>4. ASSUME NEW m \in T \cap Nat PROVE m + 1 \in T
  <2>. SUFFICES ASSUME m + 1 <= n PROVE None(m + 1) \/ Both(m + 1)
    OBVIOUS
  <2> DEFINE v == w[m]
             d == policy[m + 1]
  <2>1. m + 1 \in 1 .. n /\ m \in 0 .. n /\ m + 1 - 1 = m /\ m <= n
    BY <1>1
  <2>2. v \in Seq(Rewritten) /\ d \in Directives /\ (None(m) \/ Both(m))
    BY <1>1, <1>2, <1>4, <2>1
  <2>3. w[m + 1] = IF d.name \in cspDroppedDirectives THEN v
                   ELSE Append(v, RewrittenDirective(d))
    BY <1>2, <2>1
  <2>4. RewrittenDirective(d) \in Rewritten /\ RewrittenDirective(d).name = d.name
    BY <2>2, RewrittenType DEF RewrittenDirective, Directive
  <2>5. CASE d.name \in cspDroppedDirectives
    <3>1. w[m + 1] = v /\ d.name # name
      BY <2>3, <2>5
    <3>2. CASE None(m)
      BY <2>1, <3>1, <3>2
    <3>3. CASE Both(m)
      <4>1. PICK j, k : /\ j <= m /\ FirstAt(policy, name, j)
                        /\ FirstAt(v, name, k) /\ v[k] = RewrittenDirective(policy[j])
        BY <3>3
      <4>2. j <= m + 1
        BY <4>1, <1>1 DEF FirstAt
      <4>. QED
        BY <3>1, <4>1, <4>2
    <3>. QED
      BY <2>2, <3>2, <3>3
  <2>6. CASE d.name \notin cspDroppedDirectives
    <3> DEFINE x == w[m + 1]
    <3>1. /\ Len(v) \in Nat /\ Len(x) = Len(v) + 1 /\ x[Len(v) + 1] = RewrittenDirective(d)
          /\ \A k \in 1 .. Len(v) : x[k] = v[k]
      BY <2>2, <2>3, <2>4, <2>6
    <3> HIDE DEF v, x, d
    <3>2. CASE None(m) /\ d.name # name
      <4>1. \A k \in 1 .. m + 1 : policy[k].name # name
        BY <3>2 DEF d
      <4>2. Lacks(x, name)
        BY <2>4, <3>1, <3>2 DEF Lacks, v
      <4>. QED
        BY <4>1, <4>2 DEF x
    <3>3. CASE None(m) /\ d.name = name
      <4>1. FirstAt(policy, name, m + 1)
        BY <2>1, <3>3, <1>1 DEF FirstAt, d
      <4>2. FirstAt(x, name, Len(v) + 1)
        BY <2>4, <3>1, <3>3 DEF FirstAt, Lacks, v
      <4>3. m + 1 <= m + 1
        OBVIOUS
      <4>4. x[Len(v) + 1] = RewrittenDirective(policy[m + 1])
        BY <3>1 DEF d
      <4>. QED
        BY <4>1, <4>2, <4>3, <4>4 DEF x
    <3>4. CASE Both(m)
      <4>1. PICK j, k : /\ j <= m /\ FirstAt(policy, name, j)
                        /\ FirstAt(v, name, k) /\ v[k] = RewrittenDirective(policy[j])
        BY <3>4 DEF v
      <4>2. j <= m + 1
        BY <4>1, <1>1 DEF FirstAt
      <4>3. FirstAt(x, name, k) /\ x[k] = v[k]
        <5>1. k \in 1 .. Len(v) /\ v[k].name = name /\ \A i \in 1 .. k - 1 : v[i].name # name
          BY <4>1 DEF FirstAt
        <5>2. k \in 1 .. Len(x) /\ \A i \in 1 .. k - 1 : i \in 1 .. Len(v)
          BY <3>1, <5>1
        <5>. QED
          BY <3>1, <5>1, <5>2 DEF FirstAt
      <4>. QED
        BY <4>1, <4>2, <4>3 DEF x
    <3>. QED
      BY <2>2, <3>2, <3>3, <3>4
  <2>. QED
    BY <2>5, <2>6
<1>5. n \in T
  <2> HIDE DEF T
  <2>. QED
    BY <1>1, <1>3, <1>4, NatInd
<1>6. CASE None(n)
  BY <1>2, <1>6 DEF Lacks
<1>7. CASE Both(n)
  BY <1>2, <1>7
<1>. QED
  BY <1>1, <1>5, <1>6, <1>7

\* So it has the names the policy has, each with what it makes of its sources.
RewrittenSources(name, sources) == RewrittenDirective(Directive(name, sources)).sources

\* rewriteCSP keeps a directive's name and rewrites the sources that count.
LEMMA RewriteSources ==
    ASSUME NEW policy \in Policy, NEW name, name \notin cspDroppedDirectives
    PROVE  /\ name \in Names(rewriteCSP(policy)) <=> name \in Names(policy)
           /\ name \in Names(policy) =>
                /\ Directive(name, Sources(policy, name)) \in Directives
                /\ Sources(rewriteCSP(policy), name)
                     = RewrittenSources(name, Sources(policy, name))
<1> DEFINE r == rewriteCSP(policy)
<1>1. policy \in Seq(Directives) /\ r \in Seq(Rewritten)
  <2>1. policy \in Seq(Directives)
    BY DEF Policy
  <2>2. Len(policy) \in 0 .. Len(policy)
    BY <2>1
  <2>. QED
    BY <2>1, <2>2, RewriteSteps
<1> HIDE DEF r
<1>2. DOMAIN policy = 1 .. Len(policy) /\ DOMAIN r = 1 .. Len(r)
      /\ Len(policy) \in Nat /\ Len(r) \in Nat
  BY <1>1
<1>3. CASE Lacks(policy, name) /\ Lacks(r, name)
  BY <1>2, <1>3 DEF Lacks, Names, r
<1>4. ASSUME NEW j, NEW k, FirstAt(policy, name, j), FirstAt(r, name, k),
             r[k] = RewrittenDirective(policy[j])
      PROVE  /\ name \in Names(r) /\ name \in Names(policy)
             /\ Directive(name, Sources(policy, name)) \in Directives
             /\ Sources(r, name) = RewrittenSources(name, Sources(policy, name))
  <2>1. name \in Names(r) /\ name \in Names(policy)
    BY <1>2, <1>4 DEF FirstAt, Names
  <2>2. Sources(policy, name) = policy[j].sources /\ Sources(r, name) = r[k].sources
    BY <1>2, <1>4, SourcesOfFirst
  <2>3. policy[j] \in Directives /\ policy[j].name = name
    BY <1>1, <1>4 DEF FirstAt
  <2>4. policy[j] = Directive(name, policy[j].sources)
    BY <2>3 DEF Directive, Directives
  <2>. QED
    BY <1>4, <2>1, <2>2, <2>3, <2>4 DEF RewrittenSources
<1>. QED
  BY <1>3, <1>4, RewriteKeepsFirst DEF r

\* What the expressions of a directive that governs fetches become.
Unmoved == {"unsafe-inline", "unsafe-eval", "strict-dynamic", "nonce", "hash", "data"}
SourcesKept(name, sources, after) ==
    /\ \A s \in Unmoved : s \in after <=> s \in sources
    /\ sources \cap {"self", "host"} # {} => after \cap {"self", "host"} # {}
    /\ after \cap {"self", "host"} # {} =>
         sources \cap {"self", "host"} # {} \/ "ignored" \in sources
    /\ name \in cspScriptDirectives /\ Nonce # "" => Nonce \in after

\* What rewriting does to the sources of a directive a fetch is governed by.
LEMMA RewrittenSourcesAre ==
    ASSUME NEW name \in FetchDirectives, NEW sources \in SUBSET SourceExpressions,
           NEW after, after = RewrittenSources(name, sources)
    PROVE  SourcesKept(name, sources, after)
<1> DEFINE d == Directive(name, sources)
           t == Translated(sources)
           g == Granted(d)
<1>1. d.name = name /\ d.sources = sources
  BY DEF Directive
<1>2. /\ \A s \in {"unsafe-inline", "unsafe-eval", "strict-dynamic", "nonce",
                    "hash", "data", "none"} : s \in t <=> s \in sources
      /\ "self" \in t <=> sources \cap {"self", "host", "ignored"} # {}
      /\ "host" \notin t
  BY DEF Translated, SourceExpressions, Portable
<1>3. g = IF name \in cspScriptDirectives /\ Nonce # ""
          THEN (t \ {"none"}) \cup {Nonce} ELSE t
  BY <1>1 DEF Granted
<1>4. after = IF g = {} THEN {"none"} ELSE g
  <2>1. d.name \notin cspVerbatimDirectives
    BY <1>1 DEF FetchDirectives, cspScriptDirectives, cspVerbatimDirectives
  <2>. QED
    BY <2>1, <1>1 DEF RewrittenSources, RewrittenDirective, Directive
<1> HIDE DEF d, t, g
<1>5. /\ \A s \in {"unsafe-inline", "unsafe-eval", "strict-dynamic", "nonce",
                    "hash", "data"} : s \in after <=> s \in sources
      /\ "self" \in after <=> sources \cap {"self", "host", "ignored"} # {}
      /\ "host" \notin after
      /\ name \in cspScriptDirectives /\ Nonce # "" => Nonce \in after
  BY <1>2, <1>3, <1>4, NonceAssumption
<1>. QED
  BY <1>5 DEF SourcesKept, Unmoved

\* The same directive governs what is written as governs the policy.
LEMMA SameGoverns ==
    ASSUME NEW policy \in Policy, NEW names \in Seq(FetchDirectives),
           NEW i \in DOMAIN names
    PROVE  /\ Governing(rewriteCSP(policy), names, i) <=> Governing(policy, names, i)
           /\ Governing(policy, names, i) =>
                /\ Sources(policy, names[i]) \in SUBSET SourceExpressions
                /\ Sources(rewriteCSP(policy), names[i])
                     = RewrittenSources(names[i], Sources(policy, names[i]))
<1>1. \A j \in DOMAIN names : names[j] \in FetchDirectives
  OBVIOUS
<1>2. \A j \in DOMAIN names : names[j] \notin cspDroppedDirectives
  BY <1>1 DEF FetchDirectives, cspScriptDirectives, cspDroppedDirectives
<1>3. \A j \in 1 .. i - 1 : j \in DOMAIN names
  OBVIOUS
<1>4. ASSUME NEW name \in FetchDirectives, NEW sources, Directive(name, sources) \in Directives
      PROVE  sources \in SUBSET SourceExpressions
  <2>1. name \notin cspVerbatimDirectives
    BY DEF FetchDirectives, cspScriptDirectives, cspVerbatimDirectives
  <2>. QED
    BY <1>4, <2>1 DEF Directive, Directives
<1>. QED
  BY <1>1, <1>2, <1>3, <1>4, RewriteSources DEF Governing

\* What a sandbox allows is what it allowed.
LEMMA SandboxKept ==
    ASSUME NEW policy \in Policy
    PROVE  ScriptsRun(rewriteCSP(policy)) = ScriptsRun(policy)
<1> DEFINE name == "sandbox"
<1>1. name \notin cspDroppedDirectives /\ name \in cspVerbatimDirectives
  BY DEF cspDroppedDirectives, cspVerbatimDirectives
<1>2. \A sources : RewrittenSources(name, sources) = sources
  BY <1>1 DEF RewrittenSources, RewrittenDirective, Directive
<1> HIDE DEF name
<1>3. /\ name \in Names(rewriteCSP(policy)) <=> name \in Names(policy)
      /\ name \in Names(policy) =>
           Sources(rewriteCSP(policy), name) = Sources(policy, name)
  BY <1>1, <1>2, RewriteSources
<1>. QED
  BY <1>3 DEF ScriptsRun, name

LEMMA NamesAreFetch ==
    /\ ScriptNames \in Seq(FetchDirectives) /\ EvalNames \in Seq(FetchDirectives)
    /\ StyleNames \in Seq(FetchDirectives) /\ ImageNames \in Seq(FetchDirectives)
    /\ \A i \in DOMAIN ScriptNames : ScriptNames[i] \in cspScriptDirectives
BY DEF ScriptNames, EvalNames, StyleNames, ImageNames, FetchDirectives, cspScriptDirectives

\* What is decided of a policy after the translation.
LEMMA RewriteDecides ==
    ASSUME NEW policy \in Policy
    PROVE  LET r == rewriteCSP(policy)
           IN  /\ Vouched(r) = Vouched(policy) /\ Eval(r) = Eval(policy)
               /\ DataImage(r) = DataImage(policy)
               /\ FetchedAsBefore(FetchScript(policy), FetchScript(r),
                                  Misread(policy, ScriptNames))
               /\ FetchedAsBefore(FetchImage(policy), FetchImage(r),
                                  Misread(policy, ImageNames))
               /\ InlineScript(r) => InlineScript(policy)
               /\ InlineStyle(r) => InlineStyle(policy)
               /\ Nonce # "" /\ ScriptsRun(policy) => Runtime(r)
<1> DEFINE r == rewriteCSP(policy)
           before(names, i) == Sources(policy, names[i])
           after(names, i) == Sources(r, names[i])
           Same(names) ==
             \A i \in DOMAIN names :
               /\ Governing(r, names, i) <=> Governing(policy, names, i)
               /\ Governing(policy, names, i) =>
                    /\ before(names, i) \in SUBSET SourceExpressions
                    /\ SourcesKept(names[i], before(names, i), after(names, i))
<1>1. ASSUME NEW names \in Seq(FetchDirectives) PROVE Same(names)
  <2>. SUFFICES ASSUME NEW i \in DOMAIN names
       PROVE  /\ Governing(r, names, i) <=> Governing(policy, names, i)
              /\ Governing(policy, names, i) =>
                   /\ before(names, i) \in SUBSET SourceExpressions
                   /\ SourcesKept(names[i], before(names, i), after(names, i))
    OBVIOUS
  <2>1. names[i] \in FetchDirectives
    OBVIOUS
  <2>2. /\ Governing(r, names, i) <=> Governing(policy, names, i)
        /\ Governing(policy, names, i) =>
             /\ before(names, i) \in SUBSET SourceExpressions
             /\ after(names, i) = RewrittenSources(names[i], before(names, i))
    BY SameGoverns
  <2>. HIDE DEF r, before, after
  <2>. QED
    BY <2>1, <2>2, RewrittenSourcesAre
<1>2. Same(ScriptNames) /\ Same(EvalNames) /\ Same(StyleNames) /\ Same(ImageNames)
  BY <1>1, NamesAreFetch
<1>0. ScriptsRun(r) = ScriptsRun(policy)
  BY SandboxKept
<1> HIDE DEF r
<1>3. Vouched(r) = Vouched(policy)
  <2>1. \A i \in DOMAIN ScriptNames : Governing(policy, ScriptNames, i) =>
          (after(ScriptNames, i) \cap {"nonce", "hash"} # {}
             <=> before(ScriptNames, i) \cap {"nonce", "hash"} # {})
    BY <1>2 DEF SourcesKept, Unmoved
  <2>. QED
    BY <1>2, <1>0, <2>1 DEF Vouched, Governs
<1>9. /\ FetchScript(policy) => FetchScript(r)
      /\ FetchScript(r) => FetchScript(policy) \/ Misread(policy, ScriptNames)
  <2>1. ASSUME NEW i \in DOMAIN ScriptNames, Governing(policy, ScriptNames, i)
        PROVE  /\ "strict-dynamic" \in after(ScriptNames, i)
                    <=> "strict-dynamic" \in before(ScriptNames, i)
               /\ before(ScriptNames, i) \cap {"self", "host"} # {} =>
                    after(ScriptNames, i) \cap {"self", "host"} # {}
               /\ after(ScriptNames, i) \cap {"self", "host"} # {} =>
                    \/ before(ScriptNames, i) \cap {"self", "host"} # {}
                    \/ "ignored" \in before(ScriptNames, i)
    BY <1>2, <2>1 DEF SourcesKept, Unmoved
  <2>. QED
    BY <1>0, <1>2, <2>1 DEF FetchScript, Misread, Governs
<1>4. Eval(r) = Eval(policy)
  BY <1>0, <1>2 DEF Eval, Governs, SourcesKept, Unmoved
<1>5. DataImage(r) = DataImage(policy)
  BY <1>2 DEF DataImage, Governs, SourcesKept, Unmoved
<1>10. /\ FetchImage(policy) => FetchImage(r)
       /\ FetchImage(r) => FetchImage(policy) \/ Misread(policy, ImageNames)
  BY <1>2 DEF FetchImage, Misread, Governs, SourcesKept
<1>6. InlineScript(r) => InlineScript(policy)
  BY <1>0, <1>2 DEF InlineScript, Governs, SourcesKept, Unmoved, Unguessable,
                    SourceExpressions, Portable
<1>7. InlineStyle(r) => InlineStyle(policy)
  BY <1>2 DEF InlineStyle, Governs, SourcesKept, Unmoved, Unguessable,
              SourceExpressions, Portable
<1>8. Nonce # "" /\ ScriptsRun(policy) => Runtime(r)
  BY <1>0, <1>2, NamesAreFetch DEF Runtime, Governs, SourcesKept, Unmoved
<1>. QED
  BY <1>3, <1>4, <1>5, <1>6, <1>7, <1>8, <1>9, <1>10 DEF r, FetchedAsBefore

\* Whatever policy a site sends, what it decides of vouched scripts, eval and
\* data is decided as before; what may be fetched still may, and what may not
\* may not, unless among the expressions that govern it is one that a browser
\* ignores; inline code it refuses stays refused.
THEOREM PoliciesSurvive == Spec => []PolicySurvives
<1>1. ASSUME AnswerInv, pc = "done", Len(headers) = 1
      PROVE  LET before == Decision(headers[1])
                 after == IF policies = <<>> THEN Decision(<<>>) ELSE Decision(policies[1])
             IN  /\ \A what \in Kept : after[what] = before[what]
                 /\ FetchedAsBefore(before.fetchScript, after.fetchScript,
                                    Misread(headers[1], ScriptNames))
                 /\ FetchedAsBefore(before.fetchImage, after.fetchImage,
                                    Misread(headers[1], ImageNames))
                 /\ after.inlineScript => before.inlineScript
                 /\ after.inlineStyle => before.inlineStyle
  <2> DEFINE before == Decision(headers[1])
             after == IF policies = <<>> THEN Decision(<<>>) ELSE Decision(policies[1])
             r == rewriteCSP(headers[1])
  <2>1. headers[1] \in Policy /\ headers # <<>> /\ Head(headers) = headers[1]
    BY <1>1 DEF AnswerInv, GivenInv
  <2>2. policies = IF r = <<>> THEN <<>> ELSE <<r>>
    BY <1>1, <2>1 DEF AnswerInv, PoliciesInv, SentPolicies
  <2>3. after = Decision(r)
    BY <2>2
  <2>4. /\ Vouched(r) = Vouched(headers[1]) /\ Eval(r) = Eval(headers[1])
        /\ DataImage(r) = DataImage(headers[1])
        /\ FetchedAsBefore(FetchScript(headers[1]), FetchScript(r),
                           Misread(headers[1], ScriptNames))
        /\ FetchedAsBefore(FetchImage(headers[1]), FetchImage(r),
                           Misread(headers[1], ImageNames))
        /\ InlineScript(r) => InlineScript(headers[1])
        /\ InlineStyle(r) => InlineStyle(headers[1])
    BY <2>1, RewriteDecides
  <2>. HIDE DEF after, r
  <2>5. /\ after.vouched = before.vouched /\ after.eval = before.eval
        /\ after.dataImage = before.dataImage
    BY <2>3, <2>4 DEF Decision
  <2>8. /\ FetchedAsBefore(before.fetchScript, after.fetchScript,
                           Misread(headers[1], ScriptNames))
        /\ FetchedAsBefore(before.fetchImage, after.fetchImage,
                           Misread(headers[1], ImageNames))
    BY <2>3, <2>4 DEF Decision
  <2>6. /\ after.inlineScript => before.inlineScript
        /\ after.inlineStyle => before.inlineStyle
    BY <2>3, <2>4 DEF Decision
  <2>. HIDE DEF before
  <2>7. \A what \in Kept : after[what] = before[what]
    BY <2>5 DEF Kept
  <2>. QED
    BY <2>6, <2>7, <2>8 DEF after, before
<1>2. AnswerInv => PolicySurvives
  BY <1>1 DEF PolicySurvives
<1>. QED
  BY <1>2, AnswerInductive, PTL

\* Whatever policies a site sends, the runtime that is injected may run, unless
\* no nonce could be made or the policy's sandbox has no script run at all.
THEOREM RuntimeMayRun == Spec => []RuntimeIsAllowed
<1>1. ASSUME AnswerInv, pc = "done", Nonce # "", ScriptsRun(Head(headers)),
             NEW i \in DOMAIN policies
      PROVE  Runtime(policies[i])
  <2>0. policies = SentPolicies(headers) /\ headers \in Seq(Policy)
    BY <1>1 DEF AnswerInv, PoliciesInv, GivenInv
  <2>1. headers # <<>> /\ policies = <<rewriteCSP(Head(headers))>> /\ i = 1
    <3>1. CASE policies = <<>>
      <4>1. DOMAIN policies = {}
        BY <3>1
      <4>. QED
        BY <1>1, <4>1
    <3>2. CASE headers # <<>> /\ policies = <<rewriteCSP(Head(headers))>>
      <4>1. DOMAIN policies = {1}
        BY <3>2
      <4>. QED
        BY <1>1, <3>2, <4>1
    <3>. QED
      BY <2>0, <3>1, <3>2 DEF SentPolicies
  <2>2. Head(headers) \in Policy /\ policies[i] = rewriteCSP(Head(headers))
    BY <2>0, <2>1
  <2>. QED
    BY <1>1, <2>2, RewriteDecides
<1>2. AnswerInv => RuntimeIsAllowed
  BY <1>1 DEF RuntimeIsAllowed
<1>. QED
  BY <1>2, AnswerInductive, PTL

-----------------------------------------------------------------------------
\* HtmlScan.  Where the searches end.
LEMMA FirstOfRange ==
    ASSUME NEW s, Len(s) \in Nat, NEW from \in 1 .. Len(s) + 1, NEW stops
    PROVE  /\ FirstOf(s, from, stops) \in from .. Len(s) + 1
           /\ \A i \in from .. FirstOf(s, from, stops) - 1 : s[i] \notin stops
           /\ FirstOf(s, from, stops) <= Len(s) => s[FirstOf(s, from, stops)] \in stops
<1> DEFINE I == {i \in from .. Len(s) : s[i] \in stops}
<1>1. FirstOf(s, from, stops) =
        LET i == IF I # {} THEN CHOOSE x \in I : \A y \in I : x =< y ELSE 0
        IN  IF i = 0 THEN Len(s) + 1 ELSE i
  BY DEF FirstOf, SelectInSubSeq, Min
<1>2. CASE I = {}
  <2>1. FirstOf(s, from, stops) = Len(s) + 1
    BY <1>1, <1>2
  <2>. QED
    BY <1>2, <2>1
<1>3. CASE I # {}
  <2>1. I \in SUBSET Nat
    OBVIOUS
  <2>2. \E x \in I : \A y \in I : x =< y
    BY <1>3, <2>1, NatMin
  <2> DEFINE x == CHOOSE x \in I : \A y \in I : x =< y
  <2>3. x \in I /\ \A y \in I : x =< y
    BY <2>2
  <2>4. FirstOf(s, from, stops) = x
    BY <1>1, <1>3, <2>3
  <2> HIDE DEF x
  <2>. QED
    BY <2>3, <2>4
<1>. QED
  BY <1>2, <1>3

\* A run ends at the first character that is not of it.
LEMMA FirstNotOfRange ==
    ASSUME NEW s, Len(s) \in Nat, NEW from \in 1 .. Len(s) + 1, NEW run
    PROVE  /\ FirstNotOf(s, from, run) \in from .. Len(s) + 1
           /\ \A i \in from .. FirstNotOf(s, from, run) - 1 : s[i] \in run
           /\ FirstNotOf(s, from, run) <= Len(s) => s[FirstNotOf(s, from, run)] \notin run
<1> DEFINE I == {i \in from .. Len(s) : s[i] \notin run}
<1>1. FirstNotOf(s, from, run) =
        LET i == IF I # {} THEN CHOOSE x \in I : \A y \in I : x =< y ELSE 0
        IN  IF i = 0 THEN Len(s) + 1 ELSE i
  BY DEF FirstNotOf, SelectInSubSeq, Min
<1>2. CASE I = {}
  <2>1. FirstNotOf(s, from, run) = Len(s) + 1
    BY <1>1, <1>2
  <2>. QED
    BY <1>2, <2>1
<1>3. CASE I # {}
  <2>1. I \in SUBSET Nat
    OBVIOUS
  <2>2. \E x \in I : \A y \in I : x =< y
    BY <1>3, <2>1, NatMin
  <2> DEFINE x == CHOOSE x \in I : \A y \in I : x =< y
  <2>3. x \in I /\ \A y \in I : x =< y
    BY <2>2
  <2>4. FirstNotOf(s, from, run) = x
    BY <1>1, <1>3, <2>3
  <2> HIDE DEF x
  <2>. QED
    BY <2>3, <2>4
<1>. QED
  BY <1>2, <1>3

\* strings.Index finds the first occurrence there is.
LEMMA OccursRange ==
    ASSUME NEW s \in Seq(STRING), NEW from \in 1 .. Len(s) + 1, NEW what
    PROVE  \/ /\ Occurs(s, from, what) = 0
              /\ \A i \in from .. Len(s) : ~At(s, i, what)
           \/ /\ Occurs(s, from, what) \in from .. Len(s)
              /\ At(s, Occurs(s, from, what), what)
              /\ \A i \in from .. Occurs(s, from, what) - 1 : ~At(s, i, what)
<1> DEFINE I == {i \in from .. Len(s) : [j \in DOMAIN s |-> At(s, j, what)][i]}
<1>1. Occurs(s, from, what) = IF I # {} THEN CHOOSE x \in I : \A y \in I : x =< y ELSE 0
  BY DEF Occurs, SelectInSubSeq, Min
<1>2. \A i \in from .. Len(s) : i \in DOMAIN s
  OBVIOUS
<1>3. I = {i \in from .. Len(s) : At(s, i, what)}
  BY <1>2
<1> HIDE DEF I
<1>4. CASE I = {}
  BY <1>1, <1>3, <1>4
<1>5. CASE I # {}
  <2>1. I \in SUBSET Nat
    BY <1>3
  <2>2. \E x \in I : \A y \in I : x =< y
    BY <1>5, <2>1, NatMin
  <2> DEFINE x == CHOOSE x \in I : \A y \in I : x =< y
  <2>3. x \in I /\ \A y \in I : x =< y
    BY <2>2
  <2>4. Occurs(s, from, what) = x
    BY <1>1, <1>5
  <2> HIDE DEF x
  <2>5. x \in from .. Len(s) /\ At(s, x, what)
    BY <1>3, <2>3
  <2>6. \A i \in from .. x - 1 : ~At(s, i, what)
    BY <1>3, <2>3, <2>5
  <2>. QED
    BY <2>4, <2>5, <2>6
<1>. QED
  BY <1>4, <1>5

EndTagAt(s, name, i) == At(s, i, <<"<", "/">>) /\ hasTagNameAt(s, i + 2, name)

\* findEndTag stops at the first end tag of that name, or at the end.
LEMMA EndTagRange ==
    ASSUME NEW s \in Seq(STRING), NEW from \in 1 .. Len(s) + 1, NEW name
    PROVE  /\ findEndTag(s, name, from) \in from .. Len(s) + 1
           /\ \A i \in from .. findEndTag(s, name, from) - 1 : ~EndTagAt(s, name, i)
           /\ findEndTag(s, name, from) <= Len(s)
                => EndTagAt(s, name, findEndTag(s, name, from))
<1> DEFINE I == {i \in from .. Len(s) :
                   [j \in DOMAIN s |-> /\ At(s, j, <<"<", "/">>)
                                       /\ hasTagNameAt(s, j + 2, name)][i]}
<1>1. findEndTag(s, name, from) =
        LET i == IF I # {} THEN CHOOSE x \in I : \A y \in I : x =< y ELSE 0
        IN  IF i = 0 THEN Len(s) + 1 ELSE i
  BY DEF findEndTag, SelectInSubSeq, Min
<1>2. \A i \in from .. Len(s) : i \in DOMAIN s
  OBVIOUS
<1>3. I = {i \in from .. Len(s) : EndTagAt(s, name, i)}
  BY <1>2 DEF EndTagAt
<1> HIDE DEF I
<1>4. CASE I = {}
  <2>1. findEndTag(s, name, from) = Len(s) + 1
    BY <1>1, <1>4
  <2>. QED
    BY <1>3, <1>4, <2>1
<1>5. CASE I # {}
  <2>1. I \in SUBSET Nat
    BY <1>3
  <2>2. \E x \in I : \A y \in I : x =< y
    BY <1>5, <2>1, NatMin
  <2> DEFINE x == CHOOSE x \in I : \A y \in I : x =< y
  <2>3. x \in I /\ \A y \in I : x =< y
    BY <2>2
  <2>4. x \in from .. Len(s) /\ EndTagAt(s, name, x)
    BY <1>3, <2>3
  <2>5. findEndTag(s, name, from) = x
    BY <1>1, <1>5, <2>4
  <2> HIDE DEF x
  <2>6. \A i \in from .. x - 1 : ~EndTagAt(s, name, i)
    BY <1>3, <2>3, <2>4
  <2>. QED
    BY <2>4, <2>5, <2>6
<1>. QED
  BY <1>4, <1>5

\* An attribute, its parts in order.
Attributes == [name : Seq(STRING), start : Nat, nameEnd : Nat, hasValue : BOOLEAN,
               quoted : BOOLEAN, valStart : Nat, valEnd : Nat, end : Nat]
InOrder(a) ==
    /\ a \in Attributes
    /\ a.start <= a.nameEnd /\ a.nameEnd <= a.valStart /\ a.valStart <= a.valEnd
    /\ a.valEnd <= a.end

\* A value keeps an attribute's parts in order.
LEMMA ValueRange ==
    ASSUME NEW s \in Seq(STRING), NEW a, InOrder(a), NEW i \in 1 .. Len(s) + 1, a.nameEnd <= i,
           NEW v, v = Value(s, a, i)
    PROVE  InOrder(v) /\ v.end \in i .. Len(s) + 1 /\ v.start = a.start /\ v.nameEnd = a.nameEnd
<1>1. /\ Len(s) \in Nat /\ i \in Nat
      /\ a.nameEnd \in Nat /\ a.start \in Nat /\ a.start <= a.nameEnd
      /\ a.name \in Seq(STRING)
  BY DEF InOrder, Attributes
<1>2. CASE i <= Len(s) /\ s[i] \in Quotes
  <2> DEFINE last == FirstOf(s, i + 1, {s[i]})
             end == IF last <= Len(s) THEN last + 1 ELSE last
  <2>1. last \in i + 1 .. Len(s) + 1
    BY <1>1, <1>2, FirstOfRange
  <2>2. v = WithValue(a, TRUE, i + 1, last, end)
    BY <1>2 DEF Value, QuotedValue
  <2> HIDE DEF last
  <2>3. /\ end \in i .. Len(s) + 1 /\ last <= end /\ i + 1 <= last /\ a.nameEnd <= i + 1
        /\ end \in Nat /\ last \in Nat /\ i + 1 \in Nat
    BY <1>1, <1>2, <2>1
  <2> HIDE DEF end
  <2>4. InOrder(v) /\ v.start = a.start /\ v.nameEnd = a.nameEnd /\ v.end = end
    BY <1>1, <2>2, <2>3 DEF WithValue, InOrder, Attributes
  <2>. QED
    BY <2>3, <2>4
<1>3. CASE ~(i <= Len(s) /\ s[i] \in Quotes)
  <2> DEFINE last == FirstOf(s, i, UnquotedEnds)
  <2>1. last \in i .. Len(s) + 1
    BY <1>1, FirstOfRange
  <2>2. v = WithValue(a, FALSE, i, last, last)
    BY <1>3 DEF Value, UnquotedValue
  <2> HIDE DEF last
  <2>3. i <= last /\ last <= last /\ last \in Nat
    BY <1>1, <2>1
  <2>4. InOrder(v) /\ v.start = a.start /\ v.nameEnd = a.nameEnd /\ v.end = last
    BY <1>1, <2>2, <2>3 DEF WithValue, InOrder, Attributes
  <2>. QED
    BY <2>1, <2>4
<1>. QED
  BY <1>2, <1>3

\* The characters apart from one another.
LEMMA BlankApart ==
    /\ Blank \notin Letters \cup Quotes
    /\ Blank # "/" /\ Blank # ">" /\ Blank # "=" /\ Blank # "<" /\ Blank # "!" /\ Blank # "-"
BY Zenon DEF Blank, Letters, Quotes, DoubleQuote

\* parseStartTag's loop goes on after an attribute's first character.
LEMMA AttributeRange ==
    ASSUME NEW s \in Seq(STRING), NEW i \in 1 .. Len(s), s[i] \notin TagNameEnds
    PROVE  /\ InOrder(Attribute(s, i)) /\ Attribute(s, i).start = i
           /\ Attribute(s, i).end \in i + 1 .. Len(s) + 1
<1> DEFINE nameEnd == FirstOf(s, i, AttrNameEnds)
           eq == FirstNotOf(s, nameEnd, {Blank})
           value == FirstNotOf(s, eq + 1, {Blank})
           a == Valueless(s, i, nameEnd)
<1>1. Len(s) \in Nat /\ i \in Nat /\ 1 <= i /\ i <= Len(s)
  OBVIOUS
<1>2. /\ nameEnd \in i .. Len(s) + 1
      /\ nameEnd <= Len(s) => s[nameEnd] \in AttrNameEnds
  BY <1>1, FirstOfRange
<1>4. Attribute(s, i) = IF eq <= Len(s) /\ s[eq] = "=" THEN Value(s, a, value) ELSE a
  BY DEF Attribute, PastAttribute, PastName, Valueless
<1>5. InOrder(a) /\ a.start = i /\ a.end = nameEnd /\ a.nameEnd = nameEnd
  <2> HIDE DEF nameEnd
  <2>1. SubSeq(s, i, nameEnd - 1) \in Seq(STRING)
    BY <1>1, <1>2
  <2>. QED
    BY <1>1, <1>2, <2>1 DEF InOrder, Attributes, Valueless
<1> HIDE DEF nameEnd, a
<1>2a. nameEnd \in Nat /\ i <= nameEnd /\ nameEnd \in 1 .. Len(s) + 1
  BY <1>1, <1>2
<1>3. eq \in nameEnd .. Len(s) + 1
  BY <1>1, <1>2a, FirstNotOfRange
<1>3b. \A k \in nameEnd .. eq - 1 : s[k] \in {Blank}
  BY <1>1, <1>2a, FirstNotOfRange
<1> HIDE DEF eq
<1>3a. eq \in Nat /\ i <= eq
  BY <1>1, <1>2a, <1>3
<1>6. CASE eq <= Len(s) /\ s[eq] = "="
  <2>1. eq + 1 \in 1 .. Len(s) + 1
    BY <1>1, <1>3a, <1>6
  <2>2. value \in eq + 1 .. Len(s) + 1
    BY <1>1, <2>1, FirstNotOfRange
  <2> HIDE DEF value
  <2>3. value \in 1 .. Len(s) + 1 /\ a.nameEnd <= value /\ i + 1 <= value
    BY <1>1, <1>2a, <1>3, <1>3a, <1>5, <2>2
  <2> DEFINE v == Value(s, a, value)
  <2>4. v = Value(s, a, value)
    OBVIOUS
  <2> HIDE DEF v
  <2>5. InOrder(v) /\ v.end \in value .. Len(s) + 1 /\ v.start = a.start
    BY <1>5, <2>3, <2>4, ValueRange
  <2>6. Attribute(s, i) = v
    BY <1>4, <1>6, <2>4
  <2>7. v.end \in i + 1 .. Len(s) + 1
    BY <1>1, <2>3, <2>5
  <2>. QED
    BY <1>5, <2>5, <2>6, <2>7
<1>7. CASE ~(eq <= Len(s) /\ s[eq] = "=")
  <2>1. nameEnd # i
    <3>1. SUFFICES ASSUME nameEnd = i PROVE FALSE
      OBVIOUS
    <3>2. s[i] = "="
      BY <1>1, <1>2, <3>1 DEF AttrNameEnds
    <3>3. eq = i
      <4>1. i \in nameEnd .. eq - 1 => s[i] = Blank
        BY <1>3b
      <4>2. eq # i => i \in nameEnd .. eq - 1
        BY <1>1, <1>3, <1>3a, <3>1
      <4>. QED
        BY <3>2, <4>1, <4>2, BlankApart
    <3>. QED
      BY <1>1, <1>7, <3>2, <3>3
  <2>2. nameEnd \in i + 1 .. Len(s) + 1
    BY <1>1, <1>2, <2>1
  <2>3. Attribute(s, i) = a
    BY <1>4, <1>7
  <2>. QED
    BY <1>5, <2>2, <2>3
<1>. QED
  BY <1>6, <1>7

\* The loop, from every position: a function of the positions.
Rests == [attrs : Seq(Attributes), end : Nat, selfClosing : BOOLEAN]

\* What it is to have two characters at a position.
LEMMA AtPair ==
    ASSUME NEW s, Len(s) \in Nat, NEW i \in Nat, NEW b, NEW c
    PROVE  At(s, i, <<b, c>>) <=> i + 1 <= Len(s) /\ s[i] = b /\ s[i + 1] = c
<1>1. Len(<<b, c>>) = 2 /\ DOMAIN <<b, c>> = {1, 2} /\ <<b, c>>[1] = b /\ <<b, c>>[2] = c
  OBVIOUS
<1>2. At(s, i, <<b, c>>) <=> i + 2 - 1 <= Len(s) /\ s[i + 1 - 1] = b /\ s[i + 2 - 1] = c
  BY <1>1 DEF At
<1>3. i + 1 - 1 = i /\ i + 2 - 1 = i + 1
  OBVIOUS
<1>. QED
  BY <1>2, <1>3

\* The turns the loop takes, past any blanks.
NotBlank(s, i) == i <= Len(s) => s[i] # Blank

\* The five ways parseStartTag goes on from a character that is not a blank.
LEMMA TagFromCases ==
    ASSUME NEW s \in Seq(STRING), NEW i \in 1 .. Len(s) + 1,
           NotBlank(s, i), NEW f
    PROVE  \/ i = Len(s) + 1 /\ TagFrom(s, f, i) = TagEnds(Len(s) + 1, FALSE)
           \/ i <= Len(s) /\ s[i] = ">" /\ TagFrom(s, f, i) = TagEnds(i + 1, FALSE)
           \/ /\ i + 1 <= Len(s) /\ s[i] = "/" /\ s[i + 1] = ">"
              /\ TagFrom(s, f, i) = TagEnds(i + 2, TRUE)
           \/ /\ i <= Len(s) /\ s[i] = "/" /\ (i + 1 <= Len(s) => s[i + 1] # ">")
              /\ TagFrom(s, f, i) = f[i + 1]
           \/ /\ i <= Len(s) /\ s[i] \notin TagNameEnds
              /\ TagFrom(s, f, i) = WithAttribute(Attribute(s, i), f[Attribute(s, i).end])
<1>1. Len(s) \in Nat /\ i \in Nat
  OBVIOUS
<1>2. At(s, i, <<"/", ">">>) <=> i + 1 <= Len(s) /\ s[i] = "/" /\ s[i + 1] = ">"
  BY <1>1, AtPair
<1> DEFINE a == WithAttribute(Attribute(s, i), f[Attribute(s, i).end])
           ends == TagEnds(Len(s) + 1, FALSE)
           closes == TagEnds(i + 1, FALSE)
           closed == TagEnds(i + 2, TRUE)
           slash == At(s, i, <<"/", ">">>)
<1>3. TagFrom(s, f, i) =
        CASE i > Len(s) -> ends
          [] i <= Len(s) /\ s[i] = ">" -> closes
          [] slash -> closed
          [] i <= Len(s) /\ s[i] = "/" /\ ~slash -> f[i + 1]
          [] OTHER -> a
  BY DEF TagFrom
<1> DEFINE t == TagFrom(s, f, i)
<1> HIDE DEF a, ends, closes, closed, slash, t
<1>4. CASE i > Len(s)
  <2>1. t = ends /\ i = Len(s) + 1
    BY <1>1, <1>2, <1>3, <1>4 DEF t, slash
  <2>. QED
    BY <2>1 DEF t, ends
<1>5. CASE i <= Len(s) /\ s[i] = ">"
  <2>1. t = closes
    BY <1>1, <1>2, <1>3, <1>5 DEF t, slash
  <2>. QED
    BY <1>5, <2>1 DEF t, closes
<1>6. CASE slash
  <2>1. t = closed
    BY <1>1, <1>2, <1>3, <1>6 DEF t, slash
  <2>. QED
    BY <1>2, <1>6, <2>1 DEF t, closed, slash
<1>7. CASE i <= Len(s) /\ s[i] = "/" /\ ~slash
  <2>1. t = f[i + 1]
    BY <1>1, <1>2, <1>3, <1>7 DEF t, slash
  <2>. QED
    BY <1>2, <1>7, <2>1 DEF t, slash
<1>8. CASE i <= Len(s) /\ s[i] # ">" /\ s[i] # "/"
  <2>1. t = a
    BY <1>1, <1>2, <1>3, <1>8 DEF t, slash
  <2>2. s[i] \notin TagNameEnds
    BY <1>8 DEF TagNameEnds, NotBlank
  <2>. QED
    BY <1>8, <2>1, <2>2 DEF t, a
<1>9. i > Len(s) \/ i <= Len(s)
  BY <1>1
<1>. QED
  BY <1>4, <1>5, <1>6, <1>7, <1>8, <1>9, Zenon

LEMMA TagFromType ==
    ASSUME NEW s \in Seq(STRING), NEW from \in 1 .. Len(s) + 1,
           NEW i \in from .. Len(s) + 1, NotBlank(s, i),
           NEW f \in [from .. Len(s) + 1 -> Rests]
    PROVE  TagFrom(s, f, i) \in Rests
<1>1. Len(s) \in Nat /\ i \in Nat /\ i \in 1 .. Len(s) + 1
  OBVIOUS
<1>2. TagEnds(Len(s) + 1, FALSE) \in Rests /\ TagEnds(i + 1, FALSE) \in Rests
      /\ TagEnds(i + 2, TRUE) \in Rests
  BY <1>1 DEF TagEnds, Rests
<1>3. ASSUME i <= Len(s) PROVE f[i + 1] \in Rests
  <2>1. i + 1 \in from .. Len(s) + 1
    BY <1>1, <1>3
  <2>. QED
    BY <2>1
<1>4. ASSUME i <= Len(s), s[i] \notin TagNameEnds
      PROVE  WithAttribute(Attribute(s, i), f[Attribute(s, i).end]) \in Rests
  <2> DEFINE a == Attribute(s, i)
             g == f[a.end]
  <2>1. i \in 1 .. Len(s)
    BY <1>1, <1>4
  <2>2. InOrder(a) /\ a.end \in i + 1 .. Len(s) + 1
    BY <1>4, <2>1, AttributeRange
  <2>3. a.end \in from .. Len(s) + 1 /\ a \in Attributes
    BY <1>1, <2>2 DEF InOrder
  <2>4. g \in Rests
    BY <2>3
  <2> HIDE DEF a, g
  <2>5. g.attrs \in Seq(Attributes) /\ <<a>> \o g.attrs \in Seq(Attributes)
    BY <2>3, <2>4 DEF Rests
  <2>6. [g EXCEPT !.attrs = <<a>> \o @] \in Rests
    BY <2>4, <2>5 DEF Rests
  <2>7. WithAttribute(a, g) \in Rests
    BY <2>4, <2>6 DEF WithAttribute
  <2>. QED
    BY <2>7 DEF a, g
<1>. QED
  BY <1>1, <1>2, <1>3, <1>4, TagFromCases

\* TagRest is that function's value.
LEMMA TagRestSteps ==
    ASSUME NEW s \in Seq(STRING), NEW from \in 1 .. Len(s) + 1
    PROVE  \E rest \in [from .. Len(s) + 1 -> Rests] :
             /\ TagRest(s, from) = rest[from]
             /\ \A j \in from .. Len(s) + 1 :
                  rest[j] = TagFrom(s, rest, FirstNotOf(s, j, {Blank}))
<1> DEFINE n == Len(s) + 1
           D == from .. n
           past(j) == FirstNotOf(s, j, {Blank})
           step == [j \in D |-> [f \in [D -> Rests] |-> TagFrom(s, f, past(j))]]
<1>1. Len(s) \in Nat /\ n \in Nat /\ from \in Nat /\ from \in D /\ n = Len(s) + 1
  OBVIOUS
<1> HIDE DEF n
<1>2. ASSUME NEW j \in D
      PROVE  /\ past(j) \in j .. n /\ past(j) \in D /\ past(j) \in 1 .. Len(s) + 1
             /\ NotBlank(s, past(j))
  <2>1. j \in 1 .. Len(s) + 1 /\ j \in Nat
    BY <1>1
  <2>2. past(j) \in j .. Len(s) + 1 /\ (past(j) <= Len(s) => s[past(j)] \notin {Blank})
    BY <1>1, <2>1, FirstNotOfRange
  <2>3. NotBlank(s, past(j))
    BY <2>2 DEF NotBlank
  <2>4. past(j) \in j .. Len(s) + 1
    BY <2>2
  <2> HIDE DEF past
  <2>. QED
    BY <1>1, <2>1, <2>3, <2>4
<1>3. \A j \in D : \A f \in [D -> Rests] : TagFrom(s, f, past(j)) \in Rests
  BY <1>1, <1>2, TagFromType DEF n
<1>4. ASSUME NEW j \in D, NEW f, NEW g, \A k \in j + 1 .. n : f[k] = g[k]
      PROVE  TagFrom(s, f, past(j)) = TagFrom(s, g, past(j))
  <2> DEFINE i == past(j)
  <2> HIDE DEF past
  <2>1. i \in j .. n /\ i \in 1 .. Len(s) + 1 /\ NotBlank(s, i) /\ j \in Nat
    BY <1>1, <1>2
  <2> HIDE DEF i
  <2> SUFFICES TagFrom(s, f, i) = TagFrom(s, g, i)
    BY DEF i
  <2>2. i <= Len(s) => f[i + 1] = g[i + 1]
    BY <1>1, <1>4, <2>1
  <2>3. ASSUME i <= Len(s), s[i] \notin TagNameEnds
        PROVE  f[Attribute(s, i).end] = g[Attribute(s, i).end]
    <3>1. Attribute(s, i).end \in i + 1 .. Len(s) + 1
      <4>1. i \in 1 .. Len(s)
        BY <1>1, <2>1, <2>3
      <4>. QED
        BY <2>3, <4>1, AttributeRange
    <3>2. Attribute(s, i).end \in j + 1 .. n
      BY <1>1, <2>1, <3>1
    <3>. QED
      BY <1>4, <3>2
  <2> DEFINE ends == TagEnds(Len(s) + 1, FALSE)
             closes == TagEnds(i + 1, FALSE)
             closed == TagEnds(i + 2, TRUE)
             attr == Attribute(s, i)
             Cases(h) ==
        \/ i = Len(s) + 1 /\ TagFrom(s, h, i) = ends
        \/ i <= Len(s) /\ s[i] = ">" /\ TagFrom(s, h, i) = closes
        \/ /\ i + 1 <= Len(s) /\ s[i] = "/" /\ s[i + 1] = ">"
           /\ TagFrom(s, h, i) = closed
        \/ /\ i <= Len(s) /\ s[i] = "/" /\ (i + 1 <= Len(s) => s[i + 1] # ">")
           /\ TagFrom(s, h, i) = h[i + 1]
        \/ /\ i <= Len(s) /\ s[i] \notin TagNameEnds
           /\ TagFrom(s, h, i) = WithAttribute(attr, h[attr.end])
  <2>4. Cases(f) /\ Cases(g)
    BY <2>1, TagFromCases
  <2> HIDE DEF ends, closes, closed, attr
  <2>5. CASE i = Len(s) + 1
    BY <1>1, <2>4, <2>5
  <2>6. CASE i <= Len(s) /\ s[i] = ">"
    BY <1>1, <2>4, <2>6 DEF TagNameEnds
  <2>7. CASE i <= Len(s) /\ s[i] = "/"
    BY <1>1, <2>2, <2>4, <2>7 DEF TagNameEnds
  <2>8. CASE i <= Len(s) /\ s[i] \notin TagNameEnds
    <3>1. f[attr.end] = g[attr.end]
      BY <2>3, <2>8 DEF attr
    <3>2. s[i] # ">" /\ s[i] # "/"
      BY <2>8 DEF TagNameEnds
    <3>5. i # Len(s) + 1
      BY <1>1, <2>8
    <3>3. TagFrom(s, f, i) = WithAttribute(attr, f[attr.end])
      BY <2>4, <3>2, <3>5
    <3>4. TagFrom(s, g, i) = WithAttribute(attr, g[attr.end])
      BY <2>4, <3>2, <3>5
    <3>. QED
      BY <3>1, <3>3, <3>4
  <2>9. i = Len(s) + 1 \/ i <= Len(s)
    BY <1>1, <2>1
  <2>. QED
    BY <2>4, <2>5, <2>6, <2>7, <2>8, <2>9
<1> DEFINE w == CHOOSE w : w = [j \in D |-> TagFrom(s, w, past(j))]
<1>5. TagRest(s, from) = w[from]
  BY DEF TagRest, n
<1> HIDE DEF past, D
<1>6. step \in DownSteps(from, n, Rests)
  <2>1. step \in [D -> [[D -> Rests] -> Rests]]
    BY <1>3
  <2>2. \A j \in D : \A f \in [D -> Rests] : step[j][f] = TagFrom(s, f, past(j))
    OBVIOUS
  <2> HIDE DEF step
  <2>3. \A j \in D : \A f, g \in [D -> Rests] :
          (\A k \in j + 1 .. n : f[k] = g[k]) => step[j][f] = step[j][g]
    BY <1>4, <2>2
  <2>. QED
    BY <2>1, <2>3 DEF DownSteps, D
<1>7. Rests # {}
  <2>1. TagEnds(1, TRUE) \in Rests
    BY DEF TagEnds, Rests
  <2>. QED
    BY <2>1
<1>8. \A j \in D : \A f \in [D -> Rests] : step[j][f] = TagFrom(s, f, past(j))
  OBVIOUS
<1> HIDE DEF step
<1>9. PICK f : DownTo(f, from, n, Rests, step)
  BY <1>1, <1>6, <1>7, DownwardRecursion
<1>10. f \in [D -> Rests] /\ \A j \in D : f[j] = TagFrom(s, f, past(j))
  BY <1>8, <1>9 DEF DownTo, D
<1>11. f = [j \in D |-> TagFrom(s, f, past(j))]
  BY <1>10
<1>12. w = [j \in D |-> TagFrom(s, w, past(j))]
  BY <1>11
<1> HIDE DEF w
<1> DEFINE T == {m \in Nat : \A j \in D : j > n - m => w[j] = f[j]}
<1>13. 0 \in T
  BY <1>1 DEF D
<1>14. ASSUME NEW m \in T \cap Nat PROVE m + 1 \in T
  <2>. SUFFICES ASSUME NEW j \in D, j > n - (m + 1) PROVE w[j] = f[j]
    OBVIOUS
  <2>1. \A k \in j + 1 .. n : k \in D /\ k > n - m
    BY <1>1 DEF D
  <2>2. \A k \in j + 1 .. n : w[k] = f[k]
    BY <1>14, <2>1
  <2>3. TagFrom(s, w, past(j)) = TagFrom(s, f, past(j))
    BY <1>4, <2>2
  <2>4. w[j] = TagFrom(s, w, past(j))
    BY <1>12
  <2>. QED
    BY <1>10, <2>3, <2>4
<1>15. n + 1 \in T
  <2> HIDE DEF T
  <2>. QED
    BY <1>1, <1>13, <1>14, NatInd
<1>16. \A j \in D : j > n - (n + 1)
  BY <1>1 DEF D
<1>17. \A j \in D : w[j] = f[j]
  BY <1>15, <1>16
<1>18. w = f
  BY <1>10, <1>12, <1>17
<1>. QED
  BY <1>5, <1>10, <1>18 DEF D, n, past

\* The attributes of a tag whose name ends at from follow each other, and end
\* where the tag does or before.
TagOrdered(s, tag, from) ==
    /\ tag.attrs \in Seq(Attributes) /\ tag.end \in from .. Len(s) + 1
    /\ \A k \in 1 .. Len(tag.attrs) :
         /\ InOrder(tag.attrs[k]) /\ tag.attrs[k].end <= tag.end
         /\ from <= tag.attrs[k].start
         /\ k > 1 => tag.attrs[k - 1].end <= tag.attrs[k].start

\* An attribute before those of the rest of a tag leaves them in order,
LEMMA WithAttributeOrdered ==
    ASSUME NEW s \in Seq(STRING), NEW from \in 1 .. Len(s) + 1, NEW a, InOrder(a),
           from <= a.start, NEW tag \in Rests, TagOrdered(s, tag, a.end),
           NEW t, t = WithAttribute(a, tag), from <= a.end
    PROVE  TagOrdered(s, t, from)
<1>1. Len(s) \in Nat /\ from \in Nat /\ a \in Attributes /\ a.end \in Nat /\ a.start \in Nat
      /\ a.start <= a.end
  BY DEF InOrder, Attributes
<1>2. tag.end \in from .. Len(s) + 1 /\ a.end <= tag.end /\ tag.end \in Nat
      /\ tag.attrs \in Seq(Attributes)
  BY <1>1 DEF TagOrdered
<1>3. \A k \in 1 .. Len(tag.attrs) :
         /\ InOrder(tag.attrs[k]) /\ tag.attrs[k].end <= tag.end
         /\ a.end <= tag.attrs[k].start /\ tag.attrs[k].start \in Nat
         /\ k > 1 => tag.attrs[k - 1].end <= tag.attrs[k].start
  <2>1. \A k \in 1 .. Len(tag.attrs) : tag.attrs[k] \in Attributes
    BY <1>2
  <2>2. \A k \in 1 .. Len(tag.attrs) : tag.attrs[k].start \in Nat
    BY <2>1 DEF Attributes
  <2>. QED
    BY <2>2 DEF TagOrdered
<1>4. CASE t = tag
  <2>1. \A k \in 1 .. Len(tag.attrs) : from <= tag.attrs[k].start
    BY <1>1, <1>3
  <2>. QED
    BY <1>2, <1>3, <1>4, <2>1 DEF TagOrdered
<1>5. CASE t = [tag EXCEPT !.attrs = <<a>> \o @]
  <2> DEFINE b == t.attrs
             c == tag.attrs
  <2>1. t.end = tag.end /\ b = <<a>> \o c
    BY <1>5 DEF Rests
  <2> HIDE DEF b, c
  <2>2. /\ b \in Seq(Attributes) /\ Len(b) = Len(c) + 1 /\ Len(c) \in Nat
        /\ b[1] = a /\ \A k \in 1 .. Len(c) : b[k + 1] = c[k]
    <3>1. c \in Seq(Attributes) /\ <<a>> \in Seq(Attributes) /\ Len(<<a>>) = 1
      BY <1>1, <1>2 DEF c
    <3>. QED
      BY <2>1, <3>1
  <2>3. ASSUME NEW k \in 1 .. Len(b)
        PROVE  /\ InOrder(b[k]) /\ b[k].end <= t.end /\ from <= b[k].start
               /\ k > 1 => b[k - 1].end <= b[k].start
    <3>1. CASE k = 1
      BY <1>1, <1>2, <2>1, <2>2, <3>1
    <3>2. CASE k = 2
      <4>1. b[2] = c[1] /\ 1 \in 1 .. Len(c)
        BY <2>2, <2>3, <3>2
      <4>. QED
        BY <1>1, <1>2, <1>3, <2>1, <2>2, <3>2, <4>1 DEF c
    <3>3. CASE k > 2
      <4> DEFINE m == k - 1
      <4>1. m \in 1 .. Len(c) /\ m - 1 \in 1 .. Len(c) /\ m > 1 /\ k = m + 1 /\ m \in Nat
        BY <2>2, <3>3
      <4>2. b[k] = c[m] /\ b[k - 1] = c[m - 1]
        BY <2>2, <4>1
      <4> HIDE DEF m
      <4>3. /\ InOrder(c[m]) /\ c[m].end <= tag.end /\ a.end <= c[m].start
            /\ c[m].start \in Nat /\ c[m - 1].end <= c[m].start
        BY <1>3, <4>1 DEF c
      <4>4. from <= c[m].start
        BY <1>1, <4>3
      <4>. QED
        BY <2>1, <4>2, <4>3, <4>4
    <3>. QED
      BY <2>2, <3>1, <3>2, <3>3
  <2>. QED
    BY <1>2, <2>1, <2>2, <2>3 DEF TagOrdered, b
<1>. QED
  BY <1>4, <1>5 DEF WithAttribute

\* and so do blanks and a slash.
LEMMA OrderedFromBefore ==
    ASSUME NEW s \in Seq(STRING), NEW to \in 1 .. Len(s) + 1, NEW from \in 1 .. to,
           NEW tag, TagOrdered(s, tag, to)
    PROVE  TagOrdered(s, tag, from)
<1>1. Len(s) \in Nat /\ from \in Nat /\ to \in Nat /\ from <= to
  OBVIOUS
<1>2. tag.attrs \in Seq(Attributes) /\ tag.end \in from .. Len(s) + 1
  BY <1>1 DEF TagOrdered
<1>3. \A k \in 1 .. Len(tag.attrs) : tag.attrs[k] \in Attributes
  BY <1>2
<1>4. \A k \in 1 .. Len(tag.attrs) : tag.attrs[k].start \in Nat
  BY <1>3 DEF Attributes
<1>5. \A k \in 1 .. Len(tag.attrs) : from <= tag.attrs[k].start
  BY <1>1, <1>4 DEF TagOrdered
<1>. QED
  BY <1>2, <1>5 DEF TagOrdered

\* parseStartTag: the attributes of a tag follow each other and end within
\* it.
LEMMA TagRestOrdered ==
    ASSUME NEW s \in Seq(STRING), NEW from \in 1 .. Len(s) + 1
    PROVE  TagRest(s, from) \in Rests /\ TagOrdered(s, TagRest(s, from), from)
<1> DEFINE n == Len(s) + 1
           D == from .. n
<1>1. Len(s) \in Nat /\ n \in Nat /\ from \in Nat /\ n = Len(s) + 1 /\ from \in D
  OBVIOUS
<1>2. PICK rest \in [D -> Rests] :
        /\ TagRest(s, from) = rest[from]
        /\ \A j \in D : rest[j] = TagFrom(s, rest, FirstNotOf(s, j, {Blank}))
  BY TagRestSteps
<1> HIDE DEF n
<1> DEFINE T == {m \in Nat : \A j \in D : j > n - m => TagOrdered(s, rest[j], j)}
<1>3. 0 \in T
  BY <1>1
<1>4. ASSUME NEW m \in T \cap Nat PROVE m + 1 \in T
  <2>. SUFFICES ASSUME NEW j \in D, j > n - (m + 1) PROVE TagOrdered(s, rest[j], j)
    OBVIOUS
  <2> DEFINE i == FirstNotOf(s, j, {Blank})
  <2>1. j \in 1 .. Len(s) + 1 /\ j \in Nat
    BY <1>1
  <2>2. i \in j .. Len(s) + 1
    BY <1>1, <2>1, FirstNotOfRange
  <2>3. NotBlank(s, i)
    <3>1. i <= Len(s) => s[i] \notin {Blank}
      BY <1>1, <2>1, FirstNotOfRange
    <3>. QED
      BY <3>1 DEF NotBlank
  <2>4. rest[j] = TagFrom(s, rest, i)
    BY <1>2
  <2> HIDE DEF i
  <2>5. i \in 1 .. Len(s) + 1 /\ i \in Nat /\ j <= i
    BY <1>1, <2>1, <2>2
  <2>6. \A k \in j + 1 .. n : k \in D /\ k > n - m
    BY <1>1, <2>1
  <2>7. \A k \in j + 1 .. n : TagOrdered(s, rest[k], k) /\ rest[k] \in Rests
    BY <1>2, <1>4, <2>6
  <2>8. ASSUME NEW to \in j .. n, NEW self \in BOOLEAN, rest[j] = TagEnds(to, self)
        PROVE  TagOrdered(s, rest[j], j)
    <3>1. rest[j].attrs = <<>> /\ rest[j].end = to
      BY <2>8 DEF TagEnds
    <3>. QED
      BY <1>1, <3>1 DEF TagOrdered
  <2>9. ASSUME i <= Len(s), rest[j] = rest[i + 1]
        PROVE  TagOrdered(s, rest[j], j)
    <3>1. i + 1 \in j + 1 .. n /\ i + 1 \in 1 .. Len(s) + 1 /\ j \in 1 .. i + 1
      BY <1>1, <2>1, <2>5, <2>9
    <3>. QED
      BY <2>7, <2>9, <3>1, OrderedFromBefore
  <2>10. ASSUME i <= Len(s), s[i] \notin TagNameEnds,
                rest[j] = WithAttribute(Attribute(s, i), rest[Attribute(s, i).end])
         PROVE  TagOrdered(s, rest[j], j)
    <3> DEFINE a == Attribute(s, i)
               tag == rest[a.end]
    <3>1. i \in 1 .. Len(s)
      BY <1>1, <2>5, <2>10
    <3>2. InOrder(a) /\ a.start = i /\ a.end \in i + 1 .. Len(s) + 1
      BY <2>10, <3>1, AttributeRange
    <3>3. a.end \in j + 1 .. n /\ j <= a.end /\ j <= a.start
      BY <1>1, <2>1, <2>5, <3>2
    <3>4. TagOrdered(s, tag, a.end) /\ tag \in Rests
      BY <2>7, <3>3
    <3>5. rest[j] = WithAttribute(a, tag)
      BY <2>10
    <3> HIDE DEF a, tag
    <3>. QED
      BY <2>1, <3>2, <3>3, <3>4, <3>5, WithAttributeOrdered
  <2>11. i <= n /\ i + 1 > j /\ (i <= Len(s) => i + 1 \in j .. n)
         /\ (i + 1 <= Len(s) => i + 2 \in j .. n) /\ Len(s) + 1 \in j .. n
    BY <1>1, <2>1, <2>5
  <2>12. CASE rest[j] = TagEnds(Len(s) + 1, FALSE)
    BY <2>8, <2>11, <2>12
  <2>13. CASE i <= Len(s) /\ rest[j] = TagEnds(i + 1, FALSE)
    BY <2>8, <2>11, <2>13
  <2>14. CASE i + 1 <= Len(s) /\ rest[j] = TagEnds(i + 2, TRUE)
    BY <2>8, <2>11, <2>14
  <2>. QED
    BY <2>3, <2>4, <2>5, <2>9, <2>10, <2>12, <2>13, <2>14, TagFromCases
<1>5. n + 1 \in T
  <2> HIDE DEF T
  <2>. QED
    BY <1>1, <1>3, <1>4, NatInd
<1>6. from > n - (n + 1)
  BY <1>1
<1>. QED
  BY <1>1, <1>2, <1>5, <1>6

\* Spans that write what is between two positions, once and in order.
Hows == {"copied", "css", "replaced", "dropped"}
Spans == [from : Nat, to : Nat, how : Hows]
EndOf(spans, from) == IF spans = <<>> THEN from ELSE spans[Len(spans)].to
Runs(spans, from, to) ==
    /\ spans \in Seq(Spans)
    /\ \A k \in 1 .. Len(spans) :
         /\ spans[k].from = IF k = 1 THEN from ELSE spans[k - 1].to
         /\ spans[k].from <= spans[k].to
    /\ EndOf(spans, from) = to

\* Spans that run up to where others run from.
LEMMA RunsJoin ==
    ASSUME NEW a, NEW b, NEW x, NEW y, NEW z, Runs(a, x, y), Runs(b, y, z)
    PROVE  Runs(a \o b, x, z)
<1> DEFINE c == a \o b
<1>1. a \in Seq(Spans) /\ b \in Seq(Spans)
  BY DEF Runs
<1>2. /\ c \in Seq(Spans) /\ Len(a) \in Nat /\ Len(b) \in Nat /\ Len(c) = Len(a) + Len(b)
      /\ \A k \in 1 .. Len(a) : c[k] = a[k]
      /\ \A k \in 1 .. Len(b) : c[Len(a) + k] = b[k]
      /\ a = <<>> <=> Len(a) = 0
      /\ b = <<>> <=> Len(b) = 0
      /\ c = <<>> <=> Len(c) = 0
  BY <1>1
<1>3. /\ \A k \in 1 .. Len(a) :
           /\ a[k].from = IF k = 1 THEN x ELSE a[k - 1].to
           /\ a[k].from <= a[k].to
      /\ \A k \in 1 .. Len(b) :
           /\ b[k].from = IF k = 1 THEN y ELSE b[k - 1].to
           /\ b[k].from <= b[k].to
  BY DEF Runs
<1>4. /\ Len(a) = 0 => x = y
      /\ Len(a) # 0 => a[Len(a)].to = y
      /\ Len(b) = 0 => y = z
      /\ Len(b) # 0 => b[Len(b)].to = z
  BY <1>2 DEF Runs, EndOf
<1> HIDE DEF c
<1>5. ASSUME NEW k \in 1 .. Len(c)
      PROVE  c[k].from = (IF k = 1 THEN x ELSE c[k - 1].to) /\ c[k].from <= c[k].to
  <2>1. CASE k <= Len(a)
    <3>1. k \in 1 .. Len(a) /\ (k # 1 => k - 1 \in 1 .. Len(a))
      BY <1>2, <2>1
    <3>2. c[k] = a[k] /\ (k # 1 => c[k - 1] = a[k - 1])
      BY <1>2, <3>1
    <3>. QED
      BY <1>3, <3>1, <3>2
  <2>2. CASE k > Len(a)
    <3> DEFINE m == k - Len(a)
    <3>1. m \in 1 .. Len(b) /\ k = Len(a) + m /\ m \in Nat
      BY <1>2, <2>2
    <3> HIDE DEF m
    <3>2. c[k] = b[m]
      BY <1>2, <3>1
    <3>3. CASE m = 1
      <4>1. b[m].from = y
        BY <1>3, <3>1, <3>3
      <4>2. CASE Len(a) = 0
        BY <1>3, <1>4, <3>1, <3>2, <3>3, <4>1, <4>2
      <4>3. CASE Len(a) # 0
        <5>1. k # 1 /\ k - 1 = Len(a) /\ Len(a) \in 1 .. Len(a)
          BY <1>2, <3>1, <3>3, <4>3
        <5>2. c[k - 1] = a[Len(a)]
          BY <1>2, <5>1
        <5>. QED
          BY <1>3, <1>4, <3>1, <3>2, <4>1, <4>3, <5>1, <5>2
      <4>. QED
        BY <4>2, <4>3
    <3>4. CASE m # 1
      <4>1. m - 1 \in 1 .. Len(b) /\ k - 1 = Len(a) + (m - 1) /\ k # 1
        BY <1>2, <3>1, <3>4
      <4>2. c[k - 1] = b[m - 1]
        BY <1>2, <4>1
      <4>. QED
        BY <1>3, <3>1, <3>2, <3>4, <4>1, <4>2
    <3>. QED
      BY <3>3, <3>4
  <2>. QED
    BY <1>2, <2>1, <2>2
<1>6. EndOf(c, x) = z
  <2>1. CASE Len(b) = 0
    <3>1. CASE Len(a) = 0
      BY <1>2, <1>4, <2>1, <3>1 DEF EndOf
    <3>2. CASE Len(a) # 0
      <4>1. Len(c) = Len(a) /\ Len(a) \in 1 .. Len(a)
        BY <1>2, <2>1, <3>2
      <4>2. c[Len(c)] = a[Len(a)]
        BY <1>2, <4>1
      <4>. QED
        BY <1>2, <1>4, <2>1, <3>2, <4>1, <4>2 DEF EndOf
    <3>. QED
      BY <3>1, <3>2
  <2>2. CASE Len(b) # 0
    <3>1. Len(b) \in 1 .. Len(b) /\ Len(c) # 0
      BY <1>2, <2>2
    <3>2. c[Len(c)] = b[Len(b)]
      BY <1>2, <3>1
    <3>. QED
      BY <1>2, <1>4, <2>2, <3>1, <3>2 DEF EndOf
  <2>. QED
    BY <2>1, <2>2
<1>. QED
  BY <1>2, <1>5, <1>6 DEF Runs, c

LEMMA HowsAre ==
    "copied" \in Hows /\ "css" \in Hows /\ "replaced" \in Hows /\ "dropped" \in Hows
BY DEF Hows

LEMMA SpanType ==
    ASSUME NEW x \in Nat, NEW y \in Nat, NEW how \in Hows
    PROVE  Span(x, y, how) \in Spans /\ Span(x, y, how).from = x /\ Span(x, y, how).to = y
BY DEF Span, Spans

LEMMA RunsOne ==
    ASSUME NEW x \in Nat, NEW y \in Nat, x <= y, NEW how \in Hows
    PROVE  Runs(<<Span(x, y, how)>>, x, y)
BY DEF Runs, EndOf, Spans, Span

\* writeStartTag.
LEMMA TouchedSpanRange ==
    ASSUME NEW tag, NEW a, InOrder(a)
    PROVE  /\ TouchedSpan(tag, a) \in Spans
           /\ a.start <= TouchedSpan(tag, a).from
           /\ TouchedSpan(tag, a).from <= TouchedSpan(tag, a).to
           /\ TouchedSpan(tag, a).to <= a.end
<1>1. /\ a.start \in Nat /\ a.nameEnd \in Nat /\ a.valStart \in Nat /\ a.valEnd \in Nat
      /\ a.end \in Nat /\ a.start <= a.nameEnd /\ a.nameEnd <= a.valStart
      /\ a.valStart <= a.valEnd /\ a.valEnd <= a.end
  BY DEF InOrder, Attributes
<1> DEFINE t == TouchedSpan(tag, a)
<1>2. \/ t = Span(a.start, a.end, "dropped")
      \/ t = Span(a.valStart, a.valEnd, "replaced")
      \/ t = Span(a.nameEnd, a.end, "replaced")
  BY DEF TouchedSpan
<1> HIDE DEF t
<1>3. /\ t \in Spans
      /\ \/ t.from = a.start /\ t.to = a.end
         \/ t.from = a.valStart /\ t.to = a.valEnd
         \/ t.from = a.nameEnd /\ t.to = a.end
  BY <1>1, <1>2, SpanType, HowsAre
<1>4. a.start <= t.from /\ t.from <= t.to /\ t.to <= a.end
  BY <1>1, <1>3
<1>. QED
  BY <1>3, <1>4 DEF t

LEMMA WithType ==
    ASSUME NEW tag, tag.start \in Nat, NEW spans \in Seq(Spans), NEW span \in Spans
    PROVE  With(tag, spans, span) \in Seq(Spans)
<1> DEFINE x == IF spans = <<>> THEN tag.start ELSE spans[Len(spans)].to
<1>1. x \in Nat
  <2>1. CASE spans = <<>>
    BY <2>1
  <2>2. CASE spans # <<>>
    <3>1. spans[Len(spans)] \in Spans
      BY <2>2
    <3>. QED
      BY <2>2, <3>1 DEF Spans
  <2>. QED
    BY <2>1, <2>2
<1>2. Copied(tag, spans, span.from) = Span(x, span.from, "copied")
  BY DEF Copied, Last
<1> HIDE DEF x
<1>3. Copied(tag, spans, span.from) \in Spans
  <2>1. span.from \in Nat
    BY DEF Spans
  <2>. QED
    BY <1>1, <1>2, <2>1, SpanType, HowsAre
<1>4. <<Copied(tag, spans, span.from), span>> \in Seq(Spans)
  BY <1>3
<1>. QED
  BY <1>4 DEF With

WrittenNext(s, tag, k, spans) ==
    IF IsTouched(s, tag, tag.attrs[k])
    THEN With(tag, spans, TouchedSpan(tag, tag.attrs[k])) ELSE spans

\* The recursion of writeStartTag's loop has a solution.
LEMMA WrittenSteps ==
    ASSUME NEW s, NEW tag, tag.start \in Nat, tag.attrs \in Seq(Attributes),
           \A k \in 1 .. Len(tag.attrs) : InOrder(tag.attrs[k])
    PROVE  LET w == WrittenUpTo(s, tag)
           IN  /\ w \in [0 .. Len(tag.attrs) -> Seq(Spans)] /\ w[0] = <<>>
               /\ \A k \in 1 .. Len(tag.attrs) : w[k] = WrittenNext(s, tag, k, w[k - 1])
<1> DEFINE n == Len(tag.attrs)
           S == Seq(Spans)
           next(k, v) == WrittenNext(s, tag, k, v)
           body(w, k) == IF k = 0 THEN <<>> ELSE next(k, w[k - 1])
           step == [k \in 1 .. n |-> [v \in S |-> next(k, v)]]
<1>1. n \in Nat
  OBVIOUS
<1>2. \A k \in 1 .. n : \A v \in S : next(k, v) \in S
  <2>. SUFFICES ASSUME NEW k \in 1 .. n, NEW v \in S PROVE next(k, v) \in S
    OBVIOUS
  <2>1. TouchedSpan(tag, tag.attrs[k]) \in Spans
    BY TouchedSpanRange
  <2>. QED
    BY <2>1, WithType DEF WrittenNext
<1> HIDE DEF n, S, next
<1>3. <<>> \in S /\ step \in [1 .. n -> [S -> S]]
  BY <1>2 DEF S
<1>4. \A k \in 1 .. n : \A v \in S : step[k][v] = next(k, v)
  OBVIOUS
<1> HIDE DEF step
<1>5. PICK f : UpTo(f, n, S, <<>>, step)
  BY <1>1, <1>3, UpwardRecursion DEF UpSteps
<1>6. f \in [0 .. n -> S] /\ f[0] = <<>> /\ \A k \in 1 .. n : f[k] = step[k][f[k - 1]]
  BY <1>5 DEF UpTo
<1>7. \A k \in 1 .. n : k - 1 \in 0 .. n /\ k \in 0 .. n /\ k # 0
  BY <1>1
<1>8. \A k \in 1 .. n : f[k] = next(k, f[k - 1])
  BY <1>4, <1>6, <1>7
<1>9. f = [k \in 0 .. n |-> body(f, k)]
  <2>1. ASSUME NEW k \in 0 .. n PROVE f[k] = body(f, k)
    <3>1. k = 0 \/ k \in 1 .. n
      BY <1>1
    <3>. QED
      BY <1>6, <1>7, <1>8, <3>1
  <2>. QED
    BY <1>6, <2>1
<1> DEFINE w == CHOOSE w : w = [k \in 0 .. n |-> body(w, k)]
<1>10. w = [k \in 0 .. n |-> body(w, k)]
  BY <1>9
<1>11. WrittenUpTo(s, tag) = w
  BY DEF WrittenUpTo, WrittenNext, n, next
<1> HIDE DEF w
<1>12. \A k \in 0 .. n : w[k] = body(w, k)
  BY <1>10
<1>13. w[0] = <<>> /\ \A k \in 1 .. n : w[k] = next(k, w[k - 1])
  BY <1>1, <1>7, <1>12
<1> DEFINE T == {m \in Nat : m <= n => w[m] \in S}
<1>14. 0 \in T
  BY <1>3, <1>13
<1>15. ASSUME NEW m \in T \cap Nat PROVE m + 1 \in T
  <2>. SUFFICES ASSUME m + 1 <= n PROVE w[m + 1] \in S
    OBVIOUS
  <2>1. m + 1 \in 1 .. n /\ m + 1 - 1 = m /\ w[m] \in S
    BY <1>1, <1>15
  <2>. QED
    BY <1>2, <1>13, <2>1
<1>16. Nat \subseteq T
  <2> HIDE DEF T
  <2>. QED
    BY <1>14, <1>15, NatInd
<1>17. \A k \in 0 .. n : w[k] \in S
  BY <1>1, <1>16
<1>18. w \in [0 .. n -> S]
  BY <1>10, <1>17
<1>. QED
  BY <1>11, <1>13, <1>18 DEF n, S, next

\* What of a tag is written is written in order.
LEMMA WithRuns ==
    ASSUME NEW tag, tag.start \in Nat, NEW spans, NEW x \in Nat, Runs(spans, tag.start, x),
           NEW span \in Spans, x <= span.from, span.from <= span.to
    PROVE  Runs(With(tag, spans, span), tag.start, span.to)
<1>1. Copied(tag, spans, span.from) = Span(x, span.from, "copied")
  BY DEF Copied, Last, Runs, EndOf
<1>2. Runs(<<Span(x, span.from, "copied"), span>>, x, span.to)
  <2>0. span.from \in Nat
    BY DEF Spans
  <2>1. Span(x, span.from, "copied") \in Spans
    BY <2>0, SpanType, HowsAre
  <2> DEFINE c == Span(x, span.from, "copied")
  <2>2. c.from = x /\ c.to = span.from
    BY DEF Span
  <2> HIDE DEF c
  <2>. QED
    BY <2>1, <2>2 DEF Runs, EndOf, c
<1>. QED
  BY <1>1, <1>2, RunsJoin DEF With

\* writeStartTag writes of a tag all there is from its start to its end.
LEMMA WrittenRuns ==
    ASSUME NEW s \in Seq(STRING), NEW from \in 1 .. Len(s) + 1, NEW tag,
           TagOrdered(s, tag, from), tag.start \in Nat, tag.start <= from
    PROVE  Runs(Written(s, tag), tag.start, tag.end)
<1> DEFINE n == Len(tag.attrs)
           w == WrittenUpTo(s, tag)
<1>1. /\ Len(s) \in Nat /\ from \in Nat /\ n \in Nat /\ tag.end \in from .. Len(s) + 1
      /\ tag.attrs \in Seq(Attributes)
  BY DEF TagOrdered
<1>2. \A k \in 1 .. n :
        /\ InOrder(tag.attrs[k]) /\ tag.attrs[k].end <= tag.end
        /\ from <= tag.attrs[k].start
        /\ k > 1 => tag.attrs[k - 1].end <= tag.attrs[k].start
  BY DEF TagOrdered
<1>3. /\ w \in [0 .. n -> Seq(Spans)] /\ w[0] = <<>>
      /\ \A k \in 1 .. n : w[k] = WrittenNext(s, tag, k, w[k - 1])
  BY <1>1, <1>2, WrittenSteps
<1> DEFINE bound(k) == IF k = 0 THEN tag.start ELSE tag.attrs[k].end
<1> HIDE DEF w, n
<1> DEFINE T == {m \in Nat : m <= n =>
                   \E x \in Nat : Runs(w[m], tag.start, x) /\ x <= bound(m)}
<1>4. 0 \in T
  BY <1>3 DEF Runs, EndOf
<1>5. ASSUME NEW m \in T \cap Nat PROVE m + 1 \in T
  <2>. SUFFICES ASSUME m + 1 <= n
       PROVE \E x \in Nat : Runs(w[m + 1], tag.start, x) /\ x <= bound(m + 1)
    OBVIOUS
  <2> DEFINE a == tag.attrs[m + 1]
             t == TouchedSpan(tag, a)
  <2>1. m + 1 \in 1 .. n /\ m + 1 - 1 = m /\ m <= n
    BY <1>1
  <2>2. PICK x \in Nat : Runs(w[m], tag.start, x) /\ x <= bound(m)
    BY <1>5, <2>1
  <2>3. InOrder(a) /\ a.start \in Nat /\ a.end \in Nat /\ from <= a.start /\ a.start <= a.end
    <3>1. InOrder(a) /\ from <= a.start
      BY <1>2, <2>1
    <3>2. a.start \in Nat /\ a.end \in Nat /\ a.start <= a.end
      <4> HIDE DEF a
      <4>. QED
        BY <3>1 DEF InOrder, Attributes
    <3>. QED
      BY <3>1, <3>2
  <2>4. bound(m) \in Nat /\ bound(m) <= a.start
    <3>1. CASE m = 0
      BY <1>1, <2>3, <3>1
    <3>2. CASE m # 0
      <4>1. m \in 1 .. n /\ m + 1 > 1
        BY <2>1, <3>2, <1>1
      <4>2. InOrder(tag.attrs[m]) /\ tag.attrs[m].end <= a.start
        BY <1>2, <2>1, <4>1
      <4>3. tag.attrs[m].end \in Nat
        BY <4>2 DEF InOrder, Attributes
      <4>. QED
        BY <3>2, <4>2, <4>3
    <3>. QED
      BY <3>1, <3>2
  <2>5. x <= a.start
    BY <2>2, <2>3, <2>4
  <2>6. bound(m + 1) = a.end
    BY <1>5
  <2>7. w[m + 1] = IF IsTouched(s, tag, a) THEN With(tag, w[m], t) ELSE w[m]
    BY <1>3, <2>1 DEF WrittenNext
  <2>8. t \in Spans /\ a.start <= t.from /\ t.from <= t.to /\ t.to <= a.end
    BY <2>3, TouchedSpanRange
  <2> HIDE DEF a, t, bound
  <2>9. CASE IsTouched(s, tag, a)
    <3>1. t.from \in Nat /\ t.to \in Nat
      BY <2>8 DEF Spans
    <3>2. x <= t.from
      BY <2>3, <2>5, <2>8, <3>1
    <3>3. Runs(With(tag, w[m], t), tag.start, t.to)
      BY <2>2, <2>8, <3>2, WithRuns
    <3>. QED
      BY <2>6, <2>7, <2>8, <2>9, <3>1, <3>3
  <2>10. CASE ~IsTouched(s, tag, a)
    <3>1. x <= a.end
      BY <2>3, <2>5
    <3>. QED
      BY <2>2, <2>6, <2>7, <2>10, <3>1
  <2>. QED
    BY <2>9, <2>10
<1>6. Nat \subseteq T
  <2> HIDE DEF T
  <2>. QED
    BY <1>4, <1>5, NatInd
<1>7. PICK x \in Nat : Runs(w[n], tag.start, x) /\ x <= bound(n)
  BY <1>1, <1>6
<1>8. x <= tag.end
  <2>1. CASE n = 0
    BY <1>1, <1>7, <2>1
  <2>2. CASE n # 0
    <3>1. n \in 1 .. n
      BY <1>1, <2>2
    <3>2. InOrder(tag.attrs[n]) /\ tag.attrs[n].end <= tag.end
      BY <1>2, <3>1
    <3>3. tag.attrs[n].end \in Nat
      BY <3>2 DEF InOrder, Attributes
    <3>. QED
      BY <1>1, <1>7, <2>2, <3>2, <3>3
  <2>. QED
    BY <2>1, <2>2
<1>8a. tag.end \in Nat
  BY <1>1
<1>9. w[n] \in Seq(Spans)
  BY <1>1, <1>3
<1>10. Copied(tag, w[n], tag.end) = Span(x, tag.end, "copied")
  BY <1>7 DEF Copied, Last, Runs, EndOf
<1>11. Written(s, tag) = w[n] \o <<Span(x, tag.end, "copied")>>
  <2>1. Written(s, tag) = Append(w[n], Span(x, tag.end, "copied"))
    BY <1>10 DEF Written, w, n
  <2>2. Span(x, tag.end, "copied") \in Spans
    BY <1>8a, SpanType, HowsAre
  <2>. QED
    BY <1>9, <2>1, <2>2
<1>12. Runs(<<Span(x, tag.end, "copied")>>, x, tag.end)
  BY <1>8, <1>8a, RunsOne, HowsAre
<1>. QED
  BY <1>7, <1>11, <1>12, RunsJoin

\* htmlScanner.run.
LEMMA StartTagOrdered ==
    ASSUME NEW s \in Seq(STRING), NEW i \in 1 .. Len(s)
    PROVE  /\ FirstOf(s, i + 1, TagNameEnds) \in i + 1 .. Len(s) + 1
           /\ StartTag(s, i).start = i
           /\ TagOrdered(s, StartTag(s, i), FirstOf(s, i + 1, TagNameEnds))
<1> DEFINE nameEnd == FirstOf(s, i + 1, TagNameEnds)
           rest == TagRest(s, nameEnd)
           tag == StartTag(s, i)
<1>1. Len(s) \in Nat /\ i \in Nat /\ i + 1 \in 1 .. Len(s) + 1
  OBVIOUS
<1>2. nameEnd \in i + 1 .. Len(s) + 1
  BY <1>1, FirstOfRange
<1>3. tag.start = i /\ tag.attrs = rest.attrs /\ tag.end = rest.end
  BY DEF StartTag, NamedTag
<1> HIDE DEF nameEnd, rest, tag
<1>4. nameEnd \in 1 .. Len(s) + 1
  BY <1>1, <1>2
<1>5. TagOrdered(s, rest, nameEnd)
  BY <1>4, TagRestOrdered DEF rest
<1>6. TagOrdered(s, tag, nameEnd)
  BY <1>3, <1>5 DEF TagOrdered
<1>. QED
  BY <1>2, <1>3, <1>6 DEF nameEnd, tag

\* htmlScanner.run at a tag writes up to its end, or to that of its raw
\* text,
LEMMA TagTurnRuns ==
    ASSUME NEW s \in Seq(STRING), NEW i \in 1 .. Len(s)
    PROVE  \E to \in i + 1 .. Len(s) + 1 : Runs(TagTurn(s, StartTag(s, i)), i, to)
<1> DEFINE nameEnd == FirstOf(s, i + 1, TagNameEnds)
           tag == StartTag(s, i)
<1> HIDE DEF nameEnd, tag
<1>1. nameEnd \in i + 1 .. Len(s) + 1 /\ tag.start = i /\ TagOrdered(s, tag, nameEnd)
  BY StartTagOrdered DEF nameEnd, tag
<1>2. Len(s) \in Nat /\ i \in Nat /\ nameEnd \in 1 .. Len(s) + 1 /\ i <= nameEnd
  BY <1>1
<1>3. tag.end \in nameEnd .. Len(s) + 1
  BY <1>1 DEF TagOrdered
<1>4. tag.end \in i + 1 .. Len(s) + 1 /\ tag.end \in 1 .. Len(s) + 1 /\ tag.end \in Nat
  BY <1>1, <1>2, <1>3
<1>5. Runs(Written(s, tag), i, tag.end)
  BY <1>1, <1>2, WrittenRuns
<1>6. CASE ~HoldsRawText(tag)
  <2>1. Written(s, tag) \in Seq(Spans)
    BY <1>5 DEF Runs
  <2>2. TagTurn(s, tag) = Written(s, tag) \o <<>>
    BY <1>6 DEF TagTurn
  <2>3. TagTurn(s, tag) = Written(s, tag)
    BY <2>1, <2>2
  <2>. QED
    BY <1>4, <1>5, <2>3 DEF tag
<1>7. CASE HoldsRawText(tag)
  <2> DEFINE to == PastTag(s, tag)
             how == IF tag.name = Style THEN "css" ELSE "copied"
  <2>1. to = findEndTag(s, tag.name, tag.end)
    BY <1>7 DEF PastTag
  <2>2. to \in tag.end .. Len(s) + 1
    BY <1>4, <2>1, EndTagRange
  <2>3. how \in Hows
    BY HowsAre
  <2>4. TagTurn(s, tag) = Written(s, tag) \o <<Span(tag.end, to, how)>>
    BY <1>7 DEF TagTurn
  <2> HIDE DEF to, how
  <2>5. to \in Nat /\ tag.end <= to /\ to \in i + 1 .. Len(s) + 1
    BY <1>2, <1>4, <2>2
  <2>6. Runs(<<Span(tag.end, to, how)>>, tag.end, to)
    BY <1>4, <2>3, <2>5, RunsOne
  <2>. QED
    BY <1>5, <2>4, <2>5, <2>6, RunsJoin DEF tag
<1>. QED
  BY <1>6, <1>7

\* and each turn at least one character, never past the document's end.
LEMMA TurnRuns ==
    ASSUME NEW s \in Seq(STRING), NEW i \in 1 .. Len(s)
    PROVE  \E to \in i + 1 .. Len(s) + 1 : Runs(Turn(s, i), i, to)
<1>1. Len(s) \in Nat /\ i \in Nat /\ i <= Len(s)
  OBVIOUS
<1> DEFINE comment == At(s, i, <<"<", "!", "-", "-">>)
           bogus == At(s, i, <<"<", "!">>) \/ At(s, i, <<"<", "/">>)
           named == i < Len(s) /\ s[i + 1] \in Letters
           close == Occurs(s, i + 4, <<"-", "-", ">">>)
           past == IF close = 0 THEN Len(s) + 1 ELSE close + 3
           gt == FirstOf(s, i, {">"})
           ends == IF gt > Len(s) THEN gt ELSE gt + 1
           tagTurn == TagTurn(s, StartTag(s, i))
<1>2. Turn(s, i) =
        CASE comment -> <<Span(i, past, "copied")>>
          [] ~comment /\ bogus -> <<Span(i, ends, "copied")>>
          [] named -> tagTurn
          [] OTHER -> <<Span(i, i + 1, "copied")>>
  BY DEF Turn
<1>3. comment => past \in i + 1 .. Len(s) + 1
  <2>. SUFFICES ASSUME comment PROVE past \in i + 1 .. Len(s) + 1
    OBVIOUS
  <2>1. i + 4 - 1 <= Len(s)
    BY DEF At
  <2>2. i + 4 \in 1 .. Len(s) + 1
    BY <1>1, <2>1
  <2>3. close = 0 \/ (close \in i + 4 .. Len(s) /\ At(s, close, <<"-", "-", ">">>))
    BY <2>2, OccursRange
  <2>4. At(s, close, <<"-", "-", ">">>) => close + 3 - 1 <= Len(s)
    BY DEF At
  <2> HIDE DEF close
  <2>. QED
    BY <1>1, <2>3, <2>4
<1>4. ends \in i + 1 .. Len(s) + 1
  <2>1. i \in 1 .. Len(s) + 1
    BY <1>1
  <2>2. gt \in i .. Len(s) + 1
    BY <1>1, <2>1, FirstOfRange
  <2> HIDE DEF gt
  <2>. QED
    BY <1>1, <2>2
<1>5. \E to \in i + 1 .. Len(s) + 1 : Runs(tagTurn, i, to)
  BY TagTurnRuns
<1> DEFINE t == Turn(s, i)
<1> HIDE DEF comment, bogus, named, past, ends, tagTurn, t
<1>6. ASSUME NEW to \in i + 1 .. Len(s) + 1, t = <<Span(i, to, "copied")>>
      PROVE  \E x \in i + 1 .. Len(s) + 1 : Runs(t, i, x)
  <2>1. to \in Nat /\ i <= to
    BY <1>1
  <2>2. Runs(t, i, to)
    BY <1>1, <1>6, <2>1, RunsOne, HowsAre
  <2>. QED
    BY <2>2
<1>7. i + 1 \in i + 1 .. Len(s) + 1
  BY <1>1
<1>8. \/ comment /\ t = <<Span(i, past, "copied")>>
      \/ t = <<Span(i, ends, "copied")>>
      \/ t = tagTurn
      \/ t = <<Span(i, i + 1, "copied")>>
  BY <1>2 DEF t
<1>9. \E x \in i + 1 .. Len(s) + 1 : Runs(t, i, x)
  BY <1>3, <1>4, <1>5, <1>6, <1>7, <1>8
<1>. QED
  BY <1>9 DEF t

\* What is written is what has been passed.
ScanInv == Runs(out, 1, pos) /\ pos \in 1 .. Len(doc) + 1

LEMMA InitScan == Init /\ GivenInv => ScanInv
<1> SUFFICES ASSUME Init, GivenInv PROVE ScanInv
  OBVIOUS
<1>1. out = <<>> /\ pos = 1 /\ Len(doc) \in Nat
  BY DEF Init, GivenInv
<1>. QED
  BY <1>1 DEF ScanInv, Runs, EndOf

\* A turn leaves the spans running up to where the next one begins.
LEMMA WritesRuns ==
    ASSUME GivenInv, ScanInv, NEW spans, Writes(spans),
           NEW to \in pos + 1 .. Len(doc) + 1, Runs(spans, pos, to)
    PROVE  ScanInv'
<1>1. Len(doc) \in Nat /\ pos \in Nat /\ pos >= 1 /\ doc' = doc
  BY DEF GivenInv, ScanInv, Writes, given
<1>2. spans # <<>>
  BY <1>1 DEF Runs, EndOf
<1>3. pos' = to /\ out' = out \o spans
  BY <1>2 DEF Writes, Runs, EndOf, Last
<1>4. Runs(out \o spans, 1, to)
  BY RunsJoin DEF ScanInv
<1>5. pos' \in 1 .. Len(doc) + 1
  BY <1>1, <1>3
<1>. QED
  BY <1>1, <1>3, <1>4, <1>5 DEF ScanInv, Runs, EndOf

LEMMA NextScan == GivenInv /\ ScanInv /\ [Next]_vars => ScanInv'
<1> SUFFICES ASSUME GivenInv, ScanInv, [Next]_vars PROVE ScanInv'
  OBVIOUS
<1>1. Len(doc) \in Nat /\ doc \in Seq(STRING) /\ pos \in Nat /\ pos >= 1
  BY DEF GivenInv, ScanInv
<1>2. CASE ScanText
  <2> DEFINE to == FirstOf(doc, pos, {"<"})
  <2>1. pos \in 1 .. Len(doc) + 1 /\ pos <= Len(doc) /\ doc[pos] # "<"
    BY <1>2 DEF ScanText, ScanInv
  <2>2. to \in pos .. Len(doc) + 1 /\ (to <= Len(doc) => doc[to] \in {"<"})
    BY <1>1, <2>1, FirstOfRange
  <2>3. Writes(<<Span(pos, to, "copied")>>)
    BY <1>2 DEF ScanText
  <2> HIDE DEF to
  <2>4. to \in pos + 1 .. Len(doc) + 1 /\ to \in Nat /\ pos <= to
    BY <1>1, <2>1, <2>2
  <2>5. Runs(<<Span(pos, to, "copied")>>, pos, to)
    BY <1>1, <2>4, RunsOne, HowsAre
  <2>. QED
    BY <2>3, <2>4, <2>5, WritesRuns
<1>3. CASE ScanMarkup
  <2>1. pos \in 1 .. Len(doc)
    BY <1>1, <1>3 DEF ScanMarkup
  <2>2. \E to \in pos + 1 .. Len(doc) + 1 : Runs(Turn(doc, pos), pos, to)
    BY <1>1, <2>1, TurnRuns
  <2>3. Writes(Turn(doc, pos))
    BY <1>3 DEF ScanMarkup
  <2>. QED
    BY <2>2, <2>3, WritesRuns
<1>4. ASSUME UNCHANGED <<doc, pos, out>> PROVE ScanInv'
  BY <1>4 DEF ScanInv, Runs, EndOf
<1>5. CASE Ask \/ Answered \/ ScanEnds \/ Inject \/ Respond \/ UNCHANGED vars
  BY <1>4, <1>5 DEF Ask, Answered, ScanEnds, Inject, Respond, vars, given
<1>. QED
  BY <1>2, <1>3, <1>5 DEF Next

\* At any point the spans run from the first character to the one reached.
LEMMA ScanInductive == Spec => []ScanInv
<1>1. AnswerInv => GivenInv
  BY DEF AnswerInv
<1>2. Init => ScanInv
  BY <1>1, InitAnswer, InitScan
<1>3. GivenInv /\ ScanInv /\ [Next]_vars => ScanInv'
  BY NextScan
<1>. QED
  BY <1>1, <1>2, <1>3, AnswerInductive, PTL DEF Spec

\* Whatever the document, the scanner drops, repeats and reorders nothing of
\* what it passes but the values and attributes it means to.
THEOREM NothingIsLost == Spec => []NothingLost
<1>1. ASSUME ScanInv, GivenInv PROVE NothingLost
  <2>1. out \in Seq(Spans) /\ DOMAIN out = 1 .. Len(out) /\ Len(doc) \in Nat
    BY <1>1 DEF ScanInv, Runs, GivenInv
  <2>2. \A k \in DOMAIN out :
          /\ out[k].from = (IF k = 1 THEN 1 ELSE out[k - 1].to)
          /\ out[k].from <= out[k].to
    BY <1>1, <2>1 DEF ScanInv, Runs
  <2>3. pos = IF out = <<>> THEN 1 ELSE Last(out).to
    BY <1>1 DEF ScanInv, Runs, EndOf, Last
  <2>4. pos <= Len(doc) + 1
    BY <1>1, <2>1 DEF ScanInv
  <2>. QED
    BY <2>2, <2>3, <2>4 DEF NothingLost
<1>2. AnswerInv => GivenInv
  BY DEF AnswerInv
<1>. QED
  BY <1>1, <1>2, ScanInductive, AnswerInductive, PTL

-----------------------------------------------------------------------------
\* HtmlReference.  The tokenizer's modes,
PlainModes ==
    {"data", "open", "endOpen", "raw", "rawOpen", "rawEnd", "tagName", "beforeAttr",
     "afterQuoted", "slash", "attrName", "afterName", "beforeValue", "unquoted",
     "markup", "markupDash", "bogus", "commentStart", "commentStartDash", "comment",
     "commentDash", "commentEnd", "commentBang"}
TokenModes == PlainModes \cup Quotes

LEMMA QuotesApart ==
    \A c \in Quotes : c \notin PlainModes /\ c \notin Letters /\ c # ">" /\ c # "=" /\ c # "/"
BY Zenon DEF Quotes, DoubleQuote, PlainModes, Letters

\* and what it does in each.
LEMMA ReadText ==
    ASSUME NEW t, NEW i, NEW c
    PROVE  /\ t.mode = "data" => Read(t, i, c) = Data(t, c)
           /\ t.mode = "open" => Read(t, i, c) =
                CASE c \in Letters -> OpensStart(t, c)
                  [] c = "/" -> In(t, "endOpen")
                  [] c = "!" -> In(t, "markup")
                  [] OTHER -> Data(t, c)
           /\ t.mode = "endOpen" =>
                Read(t, i, c) = IF c \in Letters THEN OpensEnd(t, c) ELSE Bogus(t, c)
           /\ t.mode = "raw" => Read(t, i, c) = RawText(t, c)
           /\ t.mode = "rawOpen" =>
                Read(t, i, c) = IF c = "/" THEN In(t, "rawEnd") ELSE RawText(t, c)
           /\ t.mode = "rawEnd" => Read(t, i, c) = RawEnd(t, i, c)
BY QuotesApart DEF Read, PlainModes

\* What the tokenizer does in the modes of a tag,
LEMMA ReadTag ==
    ASSUME NEW t, NEW i, NEW c
    PROVE  /\ t.mode = "tagName" => Read(t, i, c) = TagName(t, i, c)
           /\ t.mode \in {"beforeAttr", "afterQuoted"} => Read(t, i, c) = BeforeAttr(t, i, c)
           /\ t.mode = "slash" =>
                Read(t, i, c) = IF c = ">" THEN EmitsSlashed(t) ELSE BeforeAttr(t, i, c)
           /\ t.mode = "attrName" => Read(t, i, c) = AttrName(t, i, c)
           /\ t.mode = "afterName" => Read(t, i, c) = AfterName(t, i, c)
           /\ t.mode = "beforeValue" => Read(t, i, c) = BeforeValue(t, i, c)
           /\ t.mode \in Quotes =>
                Read(t, i, c) = IF c = t.mode THEN In(Quoted(t, i), "afterQuoted") ELSE t
           /\ t.mode = "unquoted" => Read(t, i, c) = Unquoted(t, i, c)
BY QuotesApart DEF Read, PlainModes

\* and in those of comments.
LEMMA ReadMarkup ==
    ASSUME NEW t, NEW i, NEW c
    PROVE  /\ t.mode = "markup" =>
                Read(t, i, c) = IF c = "-" THEN In(t, "markupDash") ELSE Bogus(t, c)
           /\ t.mode = "markupDash" =>
                Read(t, i, c) = IF c = "-" THEN In(t, "commentStart") ELSE Bogus(t, c)
           /\ t.mode = "bogus" => Read(t, i, c) = Bogus(t, c)
           /\ t.mode = "commentStart" => Read(t, i, c) =
                IF c = ">" THEN Odd(In(t, "data"))
                ELSE In(t, IF c = "-" THEN "commentStartDash" ELSE "comment")
           /\ t.mode = "commentStartDash" => Read(t, i, c) =
                IF c = ">" THEN Odd(In(t, "data"))
                ELSE In(t, IF c = "-" THEN "commentEnd" ELSE "comment")
           /\ t.mode = "comment" => Read(t, i, c) = Comment(t, c)
           /\ t.mode = "commentDash" =>
                Read(t, i, c) = In(t, IF c = "-" THEN "commentEnd" ELSE "comment")
           /\ t.mode = "commentEnd" => Read(t, i, c) =
                In(t, CASE c = ">" -> "data" [] c = "!" -> "commentBang"
                        [] c = "-" -> "commentEnd" [] OTHER -> "comment")
           /\ t.mode = "commentBang" => Read(t, i, c) =
                IF c = ">" THEN Odd(In(t, "data")) ELSE Comment(t, c)
BY QuotesApart DEF Read, PlainModes

-----------------------------------------------------------------------------
\* It reads on in a tag,
LEMMA BeforeAttrReads ==
    ASSUME NEW t, NEW i
    PROVE  /\ BeforeAttr(t, i, Blank) = In(t, "beforeAttr")
           /\ BeforeAttr(t, i, "/") = In(t, "slash")
           /\ BeforeAttr(t, i, ">") = Emits(t)
           /\ \A c : c \notin TagNameEnds => BeforeAttr(t, i, c) = Begins(t, i, c)
BY BlankApart DEF BeforeAttr, TagNameEnds

\* after the name of an attribute,
LEMMA AfterNameReads ==
    ASSUME NEW t, NEW i
    PROVE  /\ AfterName(t, i, Blank) = In(t, "afterName")
           /\ AfterName(t, i, "=") = In(t, "beforeValue")
           /\ \A c : c \notin {Blank, "="} => AfterName(t, i, c) = BeforeAttr(Bare(t), i, c)
BY BlankApart DEF AfterName

\* and before its value.
LEMMA BeforeValueReads ==
    ASSUME NEW t, NEW i
    PROVE  /\ BeforeValue(t, i, Blank) = t
           /\ \A c \in Quotes : BeforeValue(t, i, c) = ValueAt(t, c, i + 1)
           /\ BeforeValue(t, i, ">") = Emits(Valued(ValueAt(t, "unquoted", i), i))
           /\ \A c : c \notin Quotes \cup UnquotedEnds =>
                     BeforeValue(t, i, c) = ValueAt(t, "unquoted", i)
<1>1. Blank \notin Quotes /\ ">" \notin Quotes /\ Blank # ">"
  BY BlankApart, QuotesApart
<1>. QED
  BY <1>1 DEF BeforeValue, UnquotedEnds

\* Its states, of which it never takes back a tag or an error.
TokenAttrs == [name : Seq(STRING), start : Nat, nameEnd : Nat, valStart : Nat]
TokenTags == [closing : BOOLEAN, name : Seq(STRING), attrs : SUBSET Attributes,
              attr : TokenAttrs]
WholeTags == [name : Seq(STRING), attrs : SUBSET Attributes]
TokenStates == [mode : TokenModes, tag : TokenTags, within : Seq(STRING),
                tags : SUBSET WholeTags, odd : BOOLEAN]

Follows(t, u) == u \in TokenStates /\ (t.odd => u.odd) /\ t.tags \subseteq u.tags

\* A state that follows one that follows another follows it.
LEMMA FollowsOn ==
    ASSUME NEW t, NEW u, NEW v, Follows(t, u), Follows(u, v)
    PROVE  Follows(t, v)
BY DEF Follows

LEMMA ToFollows ==
    ASSUME NEW t \in TokenStates, NEW mode \in TokenModes, NEW tag \in TokenTags
    PROVE  Follows(t, To(t, mode, tag)) /\ Follows(t, In(t, mode))
BY DEF Follows, To, In, TokenStates

LEMMA OddFollows ==
    ASSUME NEW t \in TokenStates
    PROVE  Follows(t, Odd(t))
BY DEF Follows, Odd, TokenStates

LEMMA AttrType ==
    ASSUME NEW name \in Seq(STRING), NEW i \in Nat, NEW j \in Nat, NEW k \in Nat
    PROVE  Attr(name, i, j, k) \in TokenAttrs
BY DEF Attr, TokenAttrs

LEMMA TagType ==
    ASSUME NEW closing \in BOOLEAN, NEW name \in Seq(STRING), NEW attrs \in SUBSET Attributes,
           NEW attr \in TokenAttrs
    PROVE  Tag(closing, name, attrs, attr) \in TokenTags
BY DEF Tag, TokenTags

LEMMA NoTagType == NoTag \in TokenTags /\ NoTag.attr \in TokenAttrs
<1>1. FALSE \in BOOLEAN /\ <<>> \in Seq(STRING) /\ {} \in SUBSET Attributes
  OBVIOUS
<1>2. Attr(<<>>, 0, 0, 0) \in TokenAttrs
  BY <1>1, AttrType
<1>3. NoTag \in TokenTags
  BY <1>1, <1>2, TagType DEF NoTag
<1>. QED
  BY <1>3 DEF TokenTags

LEMMA StateParts ==
    ASSUME NEW t \in TokenStates
    PROVE  /\ t.tag \in TokenTags /\ t.tag.closing \in BOOLEAN /\ t.tag.name \in Seq(STRING)
           /\ t.tag.attrs \in SUBSET Attributes /\ t.tag.attr \in TokenAttrs
           /\ t.tag.attr.name \in Seq(STRING) /\ t.tag.attr.start \in Nat
           /\ t.tag.attr.nameEnd \in Nat /\ t.tag.attr.valStart \in Nat
           /\ t.mode \in TokenModes /\ t.within \in Seq(STRING) /\ t.odd \in BOOLEAN
           /\ t.tags \in SUBSET WholeTags
<1>1. t.tag \in TokenTags
  BY DEF TokenStates
<1>2. t.tag.attr \in TokenAttrs
  BY <1>1 DEF TokenTags
<1>. QED
  BY <1>1, <1>2 DEF TokenStates, TokenTags, TokenAttrs

LEMMA UnderFollows ==
    ASSUME NEW t \in TokenStates, NEW mode \in TokenModes, NEW attr \in TokenAttrs
    PROVE  Follows(t, Under(t, mode, attr))
<1>1. Tag(t.tag.closing, t.tag.name, t.tag.attrs, attr) \in TokenTags
  BY StateParts, TagType
<1>. QED
  BY <1>1, ToFollows DEF Under

LEMMA HasFollows ==
    ASSUME NEW t \in TokenStates, NEW attr \in Attributes
    PROVE  Follows(t, Has(t, attr))
<1>1. t.tag.attrs \cup {attr} \in SUBSET Attributes
  BY StateParts
<1>2. Tag(t.tag.closing, t.tag.name, t.tag.attrs \cup {attr}, t.tag.attr) \in TokenTags
  BY <1>1, StateParts, TagType
<1>. QED
  BY <1>2, StateParts, ToFollows DEF Has

LEMMA CompleteType ==
    ASSUME NEW a \in TokenAttrs, NEW p \in BOOLEAN, NEW q \in BOOLEAN, NEW i \in Nat, NEW j \in Nat
    PROVE  Complete(a, p, q, i, j) \in Attributes
BY DEF Complete, TokenAttrs, Attributes

LEMMA AttrsFollow ==
    ASSUME NEW t \in TokenStates, NEW i \in Nat
    PROVE  Follows(t, Bare(t)) /\ Follows(t, Valued(t, i)) /\ Follows(t, Quoted(t, i))
<1>1. i + 1 \in Nat /\ TRUE \in BOOLEAN /\ FALSE \in BOOLEAN
  OBVIOUS
<1> DEFINE yes == TRUE
           no == FALSE
<1>1a. yes \in BOOLEAN /\ no \in BOOLEAN
  OBVIOUS
<1>2. /\ Bare(t) = Has(t, Complete(t.tag.attr, no, no, t.tag.attr.nameEnd, t.tag.attr.nameEnd))
      /\ Valued(t, i) = Has(t, Complete(t.tag.attr, yes, no, i, i))
      /\ Quoted(t, i) = Has(t, Complete(t.tag.attr, yes, yes, i, i + 1))
  BY DEF Bare, Valued, Quoted
<1> HIDE DEF yes, no
<1>3. /\ Complete(t.tag.attr, no, no, t.tag.attr.nameEnd, t.tag.attr.nameEnd) \in Attributes
      /\ Complete(t.tag.attr, yes, no, i, i) \in Attributes
      /\ Complete(t.tag.attr, yes, yes, i, i + 1) \in Attributes
  BY <1>1, <1>1a, StateParts, CompleteType
<1>. QED
  BY <1>2, <1>3, HasFollows

LEMMA EmitsFollows ==
    ASSUME NEW t \in TokenStates
    PROVE  Follows(t, Emits(t)) /\ Follows(t, EmitsSlashed(t))
<1>1. "raw" \in TokenModes /\ "data" \in TokenModes /\ <<>> \in Seq(STRING)
  BY DEF TokenModes, PlainModes
<1>2. ASSUME NEW u \in TokenStates PROVE Follows(u, Emits(u))
  <2>1. [name |-> u.tag.name, attrs |-> u.tag.attrs] \in WholeTags
    BY StateParts DEF WholeTags
  <2> DEFINE mode == IF IsRaw(u) THEN "raw" ELSE "data"
             within == IF IsRaw(u) THEN u.tag.name ELSE <<>>
             tags == IF u.tag.closing THEN u.tags
                     ELSE u.tags \cup {[name |-> u.tag.name, attrs |-> u.tag.attrs]}
  <2>2. mode \in TokenModes /\ within \in Seq(STRING)
    BY <1>1, StateParts
  <2>3. tags \in SUBSET WholeTags /\ u.tags \subseteq tags
    BY <2>1, StateParts
  <2>4. Emits(u) =
          [mode |-> mode, tag |-> u.tag, within |-> within, tags |-> tags, odd |-> u.odd]
    BY DEF Emits
  <2> HIDE DEF mode, within, tags
  <2>. QED
    BY <2>2, <2>3, <2>4, StateParts DEF Follows, TokenStates
<1> DEFINE u == IF IsRaw(t) THEN Odd(t) ELSE t
<1>3. Follows(t, u)
  BY OddFollows DEF Follows
<1> HIDE DEF u
<1>4. Follows(t, Emits(u))
  BY <1>2, <1>3, FollowsOn DEF Follows
<1>. QED
  BY <1>2, <1>4 DEF EmitsSlashed, u

LEMMA OneType ==
    ASSUME NEW S, NEW c \in S
    PROVE  <<c>> \in Seq(S)
OBVIOUS

LEMMA BeginsFollows ==
    ASSUME NEW t \in TokenStates, NEW i \in Nat, NEW c \in STRING
    PROVE  Follows(t, Begins(t, i, c))
<1>1. "attrName" \in TokenModes
  BY DEF TokenModes, PlainModes
<1>2. Attr(<<c>>, i, i, i) \in TokenAttrs
  BY AttrType, OneType
<1> DEFINE u == Under(t, "attrName", Attr(<<c>>, i, i, i))
<1>3. Follows(t, u) /\ u \in TokenStates
  BY <1>1, <1>2, UnderFollows DEF Follows
<1>4. Begins(t, i, c) = Odd(u) \/ Begins(t, i, c) = u
  BY DEF Begins
<1> HIDE DEF u
<1>5. Follows(t, Odd(u))
  BY <1>3, OddFollows, FollowsOn
<1>. QED
  BY <1>3, <1>4, <1>5

LEMMA BeforeAttrFollows ==
    ASSUME NEW t \in TokenStates, NEW i \in Nat, NEW c \in STRING
    PROVE  Follows(t, BeforeAttr(t, i, c))
<1>1. "beforeAttr" \in TokenModes /\ "slash" \in TokenModes
  BY DEF TokenModes, PlainModes
<1>2. Follows(t, In(t, "beforeAttr")) /\ Follows(t, In(t, "slash"))
  BY <1>1, NoTagType, ToFollows
<1>3. \/ BeforeAttr(t, i, c) = In(t, "beforeAttr") \/ BeforeAttr(t, i, c) = In(t, "slash")
      \/ BeforeAttr(t, i, c) = Emits(t) \/ BeforeAttr(t, i, c) = Begins(t, i, c)
  BY DEF BeforeAttr
<1>. QED
  BY <1>2, <1>3, BeginsFollows, EmitsFollows

LEMMA AfterNameFollows ==
    ASSUME NEW t \in TokenStates, NEW i \in Nat, NEW c \in STRING
    PROVE  Follows(t, AfterName(t, i, c))
<1>1. "afterName" \in TokenModes /\ "beforeValue" \in TokenModes
  BY DEF TokenModes, PlainModes
<1>2. Follows(t, In(t, "afterName")) /\ Follows(t, In(t, "beforeValue"))
  BY <1>1, NoTagType, ToFollows
<1>3. Follows(t, Bare(t))
  BY AttrsFollow
<1>4. Bare(t) \in TokenStates
  BY <1>3 DEF Follows
<1>5. Follows(t, BeforeAttr(Bare(t), i, c))
  BY <1>3, <1>4, BeforeAttrFollows, FollowsOn
<1>. QED
  BY <1>2, <1>5 DEF AfterName

LEMMA AttrNameFollows ==
    ASSUME NEW t \in TokenStates, NEW i \in Nat, NEW c \in STRING
    PROVE  Follows(t, AttrName(t, i, c))
<1>1. "afterName" \in TokenModes /\ "attrName" \in TokenModes
      /\ Append(t.tag.attr.name, c) \in Seq(STRING)
  BY StateParts DEF TokenModes, PlainModes
<1>2. Attr(t.tag.attr.name, t.tag.attr.start, i, i) \in TokenAttrs
      /\ Attr(Append(t.tag.attr.name, c), t.tag.attr.start, i, i) \in TokenAttrs
  BY <1>1, StateParts, AttrType
<1>3. Follows(t, Named(t, i))
      /\ Follows(t, Under(t, "attrName", Attr(Append(t.tag.attr.name, c), t.tag.attr.start, i, i)))
  BY <1>1, <1>2, UnderFollows DEF Named
<1>4. Named(t, i) \in TokenStates
  BY <1>3 DEF Follows
<1>5. Follows(t, AfterName(Named(t, i), i, c))
  BY <1>3, <1>4, AfterNameFollows, FollowsOn
<1>. QED
  BY <1>3, <1>5 DEF AttrName

LEMMA BeforeValueFollows ==
    ASSUME NEW t \in TokenStates, NEW i \in Nat, NEW c \in STRING
    PROVE  Follows(t, BeforeValue(t, i, c))
<1>1. "unquoted" \in TokenModes /\ (c \in Quotes => c \in TokenModes) /\ i + 1 \in Nat
  BY DEF TokenModes, PlainModes
<1>2. ASSUME NEW mode \in TokenModes, NEW k \in Nat
      PROVE  Follows(t, ValueAt(t, mode, k))
  <2>1. Attr(t.tag.attr.name, t.tag.attr.start, t.tag.attr.nameEnd, k) \in TokenAttrs
    BY StateParts, AttrType
  <2>. QED
    BY <2>1, UnderFollows DEF ValueAt
<1> DEFINE u == ValueAt(t, "unquoted", i)
<1>3. Follows(t, u) /\ u \in TokenStates
  BY <1>1, <1>2 DEF Follows
<1> HIDE DEF u
<1>6. Follows(t, Valued(u, i)) /\ Valued(u, i) \in TokenStates
  BY <1>3, AttrsFollow, FollowsOn DEF Follows
<1>7. Follows(t, Emits(Valued(u, i)))
  BY <1>6, EmitsFollows, FollowsOn
<1>8. Follows(t, t)
  BY DEF Follows
<1>9. c \in Quotes => Follows(t, ValueAt(t, c, i + 1))
  BY <1>1, <1>2
<1>. QED
  BY <1>3, <1>7, <1>8, <1>9 DEF BeforeValue, u

LEMMA TagNameFollows ==
    ASSUME NEW t \in TokenStates, NEW i \in Nat, NEW c \in STRING
    PROVE  Follows(t, TagName(t, i, c)) /\ Follows(t, Unquoted(t, i, c))
<1>1. "tagName" \in TokenModes /\ Append(t.tag.name, c) \in Seq(STRING) /\ {} \in SUBSET Attributes
  BY StateParts DEF TokenModes, PlainModes
<1>2. Tag(t.tag.closing, Append(t.tag.name, c), {}, t.tag.attr) \in TokenTags
  BY <1>1, StateParts, TagType
<1>3. Follows(t, To(t, "tagName", Tag(t.tag.closing, Append(t.tag.name, c), {}, t.tag.attr)))
  BY <1>1, <1>2, ToFollows
<1>4. Follows(t, Valued(t, i)) /\ Valued(t, i) \in TokenStates
  BY AttrsFollow DEF Follows
<1>5. Follows(t, BeforeAttr(Valued(t, i), i, c))
  BY <1>4, BeforeAttrFollows, FollowsOn
<1>6. Follows(t, t)
  BY DEF Follows
<1>. QED
  BY <1>3, <1>5, <1>6, BeforeAttrFollows DEF TagName, Unquoted

LEMMA RawFollows ==
    ASSUME NEW t \in TokenStates, NEW i \in Nat, NEW c \in STRING
    PROVE  Follows(t, RawText(t, c)) /\ Follows(t, RawEnd(t, i, c))
<1>1. /\ "rawOpen" \in TokenModes /\ "raw" \in TokenModes /\ "rawEnd" \in TokenModes
      /\ Append(t.tag.name, c) \in Seq(STRING) /\ {} \in SUBSET Attributes
  BY StateParts DEF TokenModes, PlainModes
<1>2. Follows(t, RawText(t, c))
  BY <1>1, NoTagType, ToFollows DEF RawText
<1> DEFINE yes == TRUE
           no == FALSE
           u == Tag(no, Append(t.tag.name, c), {}, t.tag.attr)
           v == Tag(yes, t.tag.name, {}, t.tag.attr)
<1>3. yes \in BOOLEAN /\ no \in BOOLEAN
  OBVIOUS
<1>4. RawEnd(t, i, c) = CASE c \in Letters -> To(t, "rawEnd", u)
        [] c \in TagNameEnds /\ t.tag.name = t.within -> BeforeAttr(To(t, "rawEnd", v), i, c)
        [] OTHER -> RawText(t, c)
  BY DEF RawEnd
<1> HIDE DEF yes, no
<1>5. u \in TokenTags /\ v \in TokenTags
  BY <1>1, <1>3, StateParts, TagType
<1> HIDE DEF u, v
<1>6. Follows(t, To(t, "rawEnd", u)) /\ Follows(t, To(t, "rawEnd", v))
  BY <1>1, <1>5, ToFollows
<1>7. To(t, "rawEnd", v) \in TokenStates
  BY <1>6 DEF Follows
<1>8. Follows(t, BeforeAttr(To(t, "rawEnd", v), i, c))
  BY <1>6, <1>7, BeforeAttrFollows, FollowsOn
<1>9. c \in Letters => c \notin TagNameEnds
  BY BlankApart DEF Letters, TagNameEnds
<1>. QED
  BY <1>2, <1>4, <1>6, <1>8, <1>9

\* The tokenizer takes back no tag and no error, whatever it reads,
LEMMA ReadFollows ==
    ASSUME NEW t \in TokenStates, NEW i \in Nat, NEW c \in STRING
    PROVE  Follows(t, Read(t, i, c))
<1>1. ASSUME NEW mode \in TokenModes PROVE Follows(t, In(t, mode))
  BY NoTagType, ToFollows
<1>2. Follows(t, OpensStart(t, c)) /\ Follows(t, OpensEnd(t, c))
  <2> DEFINE yes == TRUE
             no == FALSE
             u == Tag(no, <<c>>, {}, NoTag.attr)
             v == Tag(yes, <<c>>, {}, NoTag.attr)
  <2>1. yes \in BOOLEAN /\ no \in BOOLEAN /\ {} \in SUBSET Attributes
    OBVIOUS
  <2>2. "tagName" \in TokenModes
    BY DEF TokenModes, PlainModes
  <2>3. OpensStart(t, c) = To(t, "tagName", u) /\ OpensEnd(t, c) = To(t, "tagName", v)
    BY DEF OpensStart, OpensEnd
  <2> HIDE DEF yes, no
  <2>4. u \in TokenTags /\ v \in TokenTags
    BY <2>1, OneType, NoTagType, TagType
  <2> HIDE DEF u, v
  <2>. QED
    BY <2>2, <2>3, <2>4, ToFollows
<1>3. Follows(t, Data(t, c)) /\ Follows(t, Bogus(t, c)) /\ Follows(t, Comment(t, c))
  BY <1>1 DEF Data, Bogus, Comment, TokenModes, PlainModes
<1>4. Follows(t, Odd(In(t, "data")))
  <2>1. Follows(t, In(t, "data")) /\ In(t, "data") \in TokenStates
    BY <1>1 DEF Follows, TokenModes, PlainModes
  <2>. QED
    BY <2>1, OddFollows, FollowsOn
<1>5. CASE t.mode \in {"data", "open", "endOpen", "raw", "rawOpen", "rawEnd"}
  <2>3. /\ Follows(t, In(t, "endOpen")) /\ Follows(t, In(t, "markup"))
        /\ Follows(t, In(t, "rawEnd"))
    BY <1>1 DEF TokenModes, PlainModes
  <2>4. Follows(t, RawText(t, c)) /\ Follows(t, RawEnd(t, i, c))
    BY RawFollows
  <2>5. t.mode = "data" => Follows(t, Read(t, i, c))
    BY <1>3, ReadText
  <2>6. ASSUME t.mode = "open" PROVE Follows(t, Read(t, i, c))
    <3>1. Read(t, i, c) =
            CASE c \in Letters -> OpensStart(t, c)
              [] c = "/" -> In(t, "endOpen")
              [] c = "!" -> In(t, "markup")
              [] OTHER -> Data(t, c)
      BY <2>6, ReadText
    <3>2. c \in Letters => c # "/" /\ c # "!"
      BY DEF Letters
    <3>. QED
      BY <1>2, <1>3, <2>3, <3>1, <3>2
  <2>7. t.mode = "endOpen" => Follows(t, Read(t, i, c))
    BY <1>2, <1>3, ReadText
  <2>8. t.mode = "raw" => Follows(t, Read(t, i, c))
    BY <2>4, ReadText
  <2>9. t.mode = "rawOpen" => Follows(t, Read(t, i, c))
    BY <2>3, <2>4, ReadText
  <2>10. t.mode = "rawEnd" => Follows(t, Read(t, i, c))
    BY <2>4, ReadText
  <2>. QED
    BY <1>5, <2>5, <2>6, <2>7, <2>8, <2>9, <2>10
<1>6. CASE t.mode \in {"tagName", "beforeAttr", "afterQuoted", "slash", "attrName",
                       "afterName", "beforeValue", "unquoted"} \cup Quotes
  <2>3. Follows(t, Quoted(t, i)) /\ Quoted(t, i) \in TokenStates
    BY AttrsFollow DEF Follows
  <2>4. Follows(t, In(Quoted(t, i), "afterQuoted"))
    <3>1. "afterQuoted" \in TokenModes
      BY DEF TokenModes, PlainModes
    <3>2. Follows(Quoted(t, i), In(Quoted(t, i), "afterQuoted"))
      BY <2>3, <3>1, NoTagType, ToFollows
    <3>. QED
      BY <2>3, <3>2, FollowsOn
  <2>5. Follows(t, t)
    BY DEF Follows
  <2>6. /\ Follows(t, TagName(t, i, c)) /\ Follows(t, BeforeAttr(t, i, c))
        /\ Follows(t, AttrName(t, i, c)) /\ Follows(t, AfterName(t, i, c))
        /\ Follows(t, BeforeValue(t, i, c)) /\ Follows(t, Unquoted(t, i, c))
    BY TagNameFollows, BeforeAttrFollows, AttrNameFollows, AfterNameFollows, BeforeValueFollows
  <2>7. t.mode = "tagName" => Follows(t, Read(t, i, c))
    BY <2>6, ReadTag
  <2>8. t.mode \in {"beforeAttr", "afterQuoted"} => Follows(t, Read(t, i, c))
    BY <2>6, ReadTag
  <2>9. t.mode = "slash" => Follows(t, Read(t, i, c))
    BY <2>6, EmitsFollows, ReadTag
  <2>10. t.mode = "attrName" => Follows(t, Read(t, i, c))
    BY <2>6, ReadTag
  <2>11. t.mode = "afterName" => Follows(t, Read(t, i, c))
    BY <2>6, ReadTag
  <2>12. t.mode = "beforeValue" => Follows(t, Read(t, i, c))
    BY <2>6, ReadTag
  <2>13. t.mode \in Quotes => Follows(t, Read(t, i, c))
    BY <2>4, <2>5, ReadTag
  <2>14. t.mode = "unquoted" => Follows(t, Read(t, i, c))
    BY <2>6, ReadTag
  <2>. QED
    BY <1>6, <2>7, <2>8, <2>9, <2>10, <2>11, <2>12, <2>13, <2>14
<1>7. CASE t.mode \in {"markup", "markupDash", "bogus", "commentStart", "commentStartDash",
                       "comment", "commentDash", "commentEnd", "commentBang"}
  <2>1. /\ Follows(t, In(t, "markupDash")) /\ Follows(t, In(t, "commentStart"))
        /\ Follows(t, In(t, "commentStartDash")) /\ Follows(t, In(t, "comment"))
        /\ Follows(t, In(t, "commentEnd")) /\ Follows(t, In(t, "commentBang"))
        /\ Follows(t, In(t, "data"))
    BY <1>1 DEF TokenModes, PlainModes
  <2>2. t.mode = "markup" => Follows(t, Read(t, i, c))
    BY <1>3, <2>1, ReadMarkup
  <2>3. t.mode = "markupDash" => Follows(t, Read(t, i, c))
    BY <1>3, <2>1, ReadMarkup
  <2>4. t.mode = "bogus" => Follows(t, Read(t, i, c))
    BY <1>3, ReadMarkup
  <2>5. t.mode = "commentStart" => Follows(t, Read(t, i, c))
    BY <1>4, <2>1, ReadMarkup
  <2>6. t.mode = "commentStartDash" => Follows(t, Read(t, i, c))
    BY <1>4, <2>1, ReadMarkup
  <2>7. t.mode = "comment" => Follows(t, Read(t, i, c))
    BY <1>3, ReadMarkup
  <2>8. t.mode = "commentDash" => Follows(t, Read(t, i, c))
    BY <2>1, ReadMarkup
  <2>9. t.mode = "commentEnd" => Follows(t, Read(t, i, c))
    BY <2>1, ReadMarkup
  <2>10. t.mode = "commentBang" => Follows(t, Read(t, i, c))
    BY <1>3, <1>4, ReadMarkup
  <2>. QED
    BY <1>7, <2>2, <2>3, <2>4, <2>5, <2>6, <2>7, <2>8, <2>9, <2>10
<1>. QED
  BY <1>5, <1>6, <1>7 DEF TokenStates, TokenModes, PlainModes

\* Its states are that function's values.
LEMMA TokensSteps ==
    ASSUME NEW s \in Seq(STRING)
    PROVE  /\ Tokens(s) \in [0 .. Len(s) -> TokenStates] /\ Tokens(s)[0] = Fresh
           /\ \A i \in 1 .. Len(s) : Tokens(s)[i] = Read(Tokens(s)[i - 1], i, s[i])
<1> DEFINE n == Len(s)
           D == 0 .. n
           step == [i \in 1 .. n |-> [t \in TokenStates |-> Read(t, i, s[i])]]
           Def(f) == [i \in D |-> IF i = 0 THEN Fresh ELSE Read(f[i - 1], i, s[i])]
           w == CHOOSE f : f = Def(f)
<1>1. n \in Nat /\ \A i \in 1 .. n : s[i] \in STRING /\ i \in Nat
  OBVIOUS
<1>2. Fresh \in TokenStates
  <2>1. "data" \in TokenModes /\ <<>> \in Seq(STRING) /\ FALSE \in BOOLEAN
    BY DEF TokenModes, PlainModes
  <2>. QED
    BY <2>1, NoTagType DEF Fresh, TokenStates
<1>3. Tokens(s) = w
  BY DEF Tokens
<1> HIDE DEF n
<1>4. step \in UpSteps(n, TokenStates)
  <2>1. \A i \in 1 .. n : \A t \in TokenStates : Read(t, i, s[i]) \in TokenStates
    BY <1>1, ReadFollows DEF Follows
  <2>. QED
    BY <2>1 DEF UpSteps
<1>5. \A i \in 1 .. n : \A t \in TokenStates : step[i][t] = Read(t, i, s[i])
  OBVIOUS
<1> HIDE DEF step
<1>6. PICK f : UpTo(f, n, TokenStates, Fresh, step)
  BY <1>1, <1>2, <1>4, UpwardRecursion
<1>7. /\ f \in [D -> TokenStates] /\ f[0] = Fresh
      /\ \A i \in 1 .. n : f[i] = Read(f[i - 1], i, s[i])
  <2>1. \A i \in 1 .. n : f[i - 1] \in TokenStates
    BY <1>1, <1>6 DEF UpTo
  <2>. QED
    BY <1>5, <1>6, <2>1 DEF UpTo
<1>8. f = Def(f)
  <2>1. \A i \in D : f[i] = IF i = 0 THEN Fresh ELSE Read(f[i - 1], i, s[i])
    BY <1>1, <1>7
  <2>. QED
    BY <1>7, <2>1
<1>9. w = Def(w)
  <2> HIDE DEF Def
  <2>. QED
    BY <1>8
<1> HIDE DEF w
<1>10. \A i \in D : w[i] = IF i = 0 THEN Fresh ELSE Read(w[i - 1], i, s[i])
  BY <1>9
<1> DEFINE T == {m \in Nat : m \in D => w[m] = f[m]}
<1>11. 0 \in T
  BY <1>1, <1>7, <1>10
<1>12. ASSUME NEW m \in T \cap Nat PROVE m + 1 \in T
  <2>1. SUFFICES ASSUME m + 1 \in D PROVE w[m + 1] = f[m + 1]
    OBVIOUS
  <2>2. m + 1 \in 1 .. n /\ m \in D /\ m + 1 # 0 /\ m + 1 - 1 = m
    BY <1>1, <2>1
  <2>3. w[m] = f[m]
    BY <1>12, <2>2
  <2>4. w[m + 1] = Read(w[m], m + 1, s[m + 1])
    BY <1>10, <2>1, <2>2
  <2>5. f[m + 1] = Read(f[m], m + 1, s[m + 1])
    BY <1>7, <2>2
  <2>. QED
    BY <2>3, <2>4, <2>5
<1>13. \A m \in D : w[m] = f[m]
  <2>1. Nat \subseteq T
    <3> HIDE DEF T
    <3>. QED
      BY <1>11, <1>12, NatInd
  <2>. QED
    BY <1>1, <2>1
<1>14. w = f
  <2>1. w = [m \in D |-> w[m]]
    BY <1>9
  <2>. QED
    BY <1>7, <1>13, <2>1
<1>. QED
  BY <1>3, <1>7, <1>14 DEF n

-----------------------------------------------------------------------------
\* What holds somewhere and is kept from one position to the next holds up to
\* another.
LEMMA Along ==
    ASSUME NEW m \in Nat, NEW n \in Nat, NEW P, m \in P,
           \A k \in m .. n - 1 : k \in P => k + 1 \in P
    PROVE  \A k \in m .. n : k \in P
<1> DEFINE T == {d \in Nat : m + d <= n => m + d \in P}
<1>1. 0 \in T
  OBVIOUS
<1>2. ASSUME NEW d \in T \cap Nat PROVE d + 1 \in T
  <2>1. SUFFICES ASSUME m + (d + 1) <= n PROVE m + (d + 1) \in P
    OBVIOUS
  <2>2. m + d \in m .. n - 1 /\ m + d \in P /\ m + (d + 1) = m + d + 1
    BY <1>2, <2>1
  <2>. QED
    BY <2>2
<1>3. Nat \subseteq T
  <2> HIDE DEF T
  <2>. QED
    BY <1>1, <1>2, NatInd
<1>4. \A k \in m .. n : k - m \in Nat /\ m + (k - m) = k
  OBVIOUS
<1>. QED
  BY <1>3, <1>4

LEMMA OneRead ==
    ASSUME NEW s \in Seq(STRING), NEW k \in 1 .. Len(s)
    PROVE  /\ Tokens(s)[k - 1] \in TokenStates /\ Tokens(s)[k] \in TokenStates
           /\ Tokens(s)[k] = Read(Tokens(s)[k - 1], k, s[k])
           /\ s[k] \in STRING /\ k \in Nat /\ k - 1 \in Nat
<1>1. k - 1 \in 0 .. Len(s) /\ k \in 0 .. Len(s)
  OBVIOUS
<1>. QED
  BY <1>1, TokensSteps

\* nor ever.
LEMMA TokensFollow ==
    ASSUME NEW s \in Seq(STRING), NEW i \in 0 .. Len(s), NEW j \in i .. Len(s)
    PROVE  Follows(Tokens(s)[i], Tokens(s)[j])
<1> DEFINE P == {k \in Nat : Follows(Tokens(s)[i], Tokens(s)[k])}
<1>1. i \in Nat /\ j \in Nat /\ Len(s) \in Nat
  OBVIOUS
<1>2. i \in P
  BY TokensSteps DEF Follows
<1>3. ASSUME NEW k \in i .. j - 1, k \in P PROVE k + 1 \in P
  <2>1. k + 1 \in 1 .. Len(s) /\ k + 1 - 1 = k /\ k + 1 \in Nat
    BY <1>1
  <2>2. Tokens(s)[k + 1] = Read(Tokens(s)[k], k + 1, s[k + 1]) /\ Tokens(s)[k] \in TokenStates
        /\ s[k + 1] \in STRING
    BY <2>1, OneRead
  <2>3. Follows(Tokens(s)[k], Tokens(s)[k + 1])
    BY <2>1, <2>2, ReadFollows
  <2>. QED
    BY <1>1, <1>3, <2>3, FollowsOn
<1>4. \A k \in i .. j : k \in P
  <2> HIDE DEF P
  <2>. QED
    BY <1>1, <1>2, <1>3, Along
<1>. QED
  BY <1>1, <1>4

\* The state after position k of an ordinary document.
Calm(s) == s \in Seq(STRING) /\ Ordinary(s)

\* A document without errors at its end has none at any point.
LEMMA NeverOdd ==
    ASSUME NEW s, Calm(s), NEW k \in 0 .. Len(s)
    PROVE  ~Tokens(s)[k].odd
<1>1. s \in Seq(STRING) /\ Len(s) \in k .. Len(s) /\ ~Tokens(s)[Len(s)].odd
  BY DEF Calm, Ordinary, Tokenized
<1>. QED
  BY <1>1, TokensFollow DEF Follows

LEMMA EndsOutside ==
    ASSUME NEW s, Calm(s)
    PROVE  Tokens(s)[Len(s)].mode \in Outside
BY DEF Calm, Ordinary, Tokenized

\* One character of an ordinary document.
LEMMA OneStep ==
    ASSUME NEW s, Calm(s), NEW k \in 0 .. Len(s) - 1
    PROVE  /\ Tokens(s)[k + 1] = Read(Tokens(s)[k], k + 1, s[k + 1])
           /\ Tokens(s)[k] \in TokenStates /\ Tokens(s)[k + 1] \in TokenStates
           /\ ~Tokens(s)[k].odd /\ ~Tokens(s)[k + 1].odd
           /\ s[k + 1] \in STRING /\ k \in Nat /\ k + 1 \in Nat
<1>1. s \in Seq(STRING) /\ Len(s) \in Nat
  BY DEF Calm
<1>2. k + 1 \in 1 .. Len(s) /\ k + 1 - 1 = k /\ k \in 0 .. Len(s) /\ k + 1 \in 0 .. Len(s)
  BY <1>1
<1>. QED
  BY <1>1, <1>2, OneRead, NeverOdd

-----------------------------------------------------------------------------
\* Text.
LEMMA FromData ==
    ASSUME NEW s, Calm(s), NEW k \in 0 .. Len(s) - 1,
           \/ Tokens(s)[k].mode = "data"
           \/ Tokens(s)[k].mode = "open" /\ s[k + 1] \notin Letters \cup {"/", "!"}
    PROVE  /\ Tokens(s)[k + 1].mode = IF s[k + 1] = "<" THEN "open" ELSE "data"
           /\ Tokens(s)[k + 1].tags = Tokens(s)[k].tags
<1> DEFINE t == Tokens(s)[k]
           c == s[k + 1]
<1>1. Tokens(s)[k + 1] = Read(t, k + 1, c)
  BY OneStep
<1>2. Read(t, k + 1, c) = Data(t, c)
  BY ReadText DEF Letters
<1>. QED
  BY <1>1, <1>2 DEF Data, In, To

\* Text is text up to the next '<',
LEMMA DataRun ==
    ASSUME NEW s, Calm(s), NEW p \in 0 .. Len(s), NEW q \in p .. Len(s),
           Tokens(s)[p].mode = "data", \A k \in p + 1 .. q : s[k] # "<"
    PROVE  Tokens(s)[q].mode = "data" /\ Tokens(s)[q].tags = Tokens(s)[p].tags
<1> DEFINE P == {k \in Nat : /\ Tokens(s)[k].mode = "data"
                             /\ Tokens(s)[k].tags = Tokens(s)[p].tags}
<1>1. p \in Nat /\ q \in Nat /\ Len(s) \in Nat
  BY DEF Calm
<1>2. p \in P
  BY <1>1
<1>3. ASSUME NEW k \in p .. q - 1, k \in P PROVE k + 1 \in P
  <2>1. k \in 0 .. Len(s) - 1 /\ s[k + 1] # "<" /\ k + 1 \in Nat
    BY <1>1
  <2>. QED
    BY <1>3, <2>1, FromData
<1>4. \A k \in p .. q : k \in P
  <2> HIDE DEF P
  <2>. QED
    BY <1>1, <1>2, <1>3, Along
<1>. QED
  BY <1>1, <1>4

-----------------------------------------------------------------------------
\* A comment without dashes ends at the first '>'.
LEMMA BogusStep ==
    ASSUME NEW s, Calm(s), NEW k \in 0 .. Len(s) - 1, Tokens(s)[k].mode = "bogus"
    PROVE  /\ Tokens(s)[k + 1].mode = IF s[k + 1] = ">" THEN "data" ELSE "bogus"
           /\ Tokens(s)[k + 1].tags = Tokens(s)[k].tags
<1> DEFINE t == Tokens(s)[k]
           c == s[k + 1]
<1>1. Tokens(s)[k + 1] = Read(t, k + 1, c)
  BY OneStep
<1>2. Read(t, k + 1, c) = Bogus(t, c)
  BY ReadMarkup
<1>. QED
  BY <1>1, <1>2 DEF Bogus, In, To

\* and a comment without dashes, a comment up to the next '>'.
LEMMA BogusRun ==
    ASSUME NEW s, Calm(s), NEW p \in 0 .. Len(s), NEW q \in p .. Len(s),
           Tokens(s)[p].mode = "bogus", \A k \in p + 1 .. q : s[k] # ">"
    PROVE  Tokens(s)[q].mode = "bogus" /\ Tokens(s)[q].tags = Tokens(s)[p].tags
<1> DEFINE P == {k \in Nat : /\ Tokens(s)[k].mode = "bogus"
                             /\ Tokens(s)[k].tags = Tokens(s)[p].tags}
<1>1. p \in Nat /\ q \in Nat /\ Len(s) \in Nat
  BY DEF Calm
<1>2. p \in P
  BY <1>1
<1>3. ASSUME NEW k \in p .. q - 1, k \in P PROVE k + 1 \in P
  <2>1. k \in 0 .. Len(s) - 1 /\ s[k + 1] # ">" /\ k + 1 \in Nat
    BY <1>1
  <2>. QED
    BY <1>3, <2>1, BogusStep
<1>4. \A k \in p .. q : k \in P
  <2> HIDE DEF P
  <2>. QED
    BY <1>1, <1>2, <1>3, Along
<1>. QED
  BY <1>1, <1>4

\* So does an end tag, as it has no attributes.
EndTagModes == {"tagName", "beforeAttr", "slash"}
InEndTag(t) == t.mode \in EndTagModes /\ t.tag.closing

\* An end tag without attributes goes on,
LEMMA ClosingBeforeAttr ==
    ASSUME NEW t, NEW i, NEW c, t.tag.closing, ~BeforeAttr(t, i, c).odd
    PROVE  /\ c # ">" => InEndTag(BeforeAttr(t, i, c))
           /\ c = ">" => BeforeAttr(t, i, c).mode = "data"
           /\ BeforeAttr(t, i, c).tags = t.tags
<1>1. c \in {Blank, "/", ">"}
  <2>1. SUFFICES ASSUME c \notin {Blank, "/", ">"} PROVE FALSE
    OBVIOUS
  <2>2. BeforeAttr(t, i, c) = Begins(t, i, c)
    BY <2>1 DEF BeforeAttr
  <2>3. Begins(t, i, c).odd
    BY DEF Begins, Odd
  <2>. QED
    BY <2>2, <2>3
<1>2. CASE c = Blank
  BY <1>2, BlankApart DEF BeforeAttr, In, To, InEndTag, EndTagModes
<1>3. CASE c = "/"
  BY <1>3 DEF BeforeAttr, In, To, InEndTag, EndTagModes
<1>4. CASE c = ">"
  BY <1>4 DEF BeforeAttr, Emits, IsRaw
<1>. QED
  BY <1>1, <1>2, <1>3, <1>4

\* character by character,
LEMMA EndTagStep ==
    ASSUME NEW s, Calm(s), NEW k \in 0 .. Len(s) - 1, InEndTag(Tokens(s)[k])
    PROVE  /\ s[k + 1] # ">" => InEndTag(Tokens(s)[k + 1])
           /\ s[k + 1] = ">" => Tokens(s)[k + 1].mode = "data"
           /\ Tokens(s)[k + 1].tags = Tokens(s)[k].tags
<1> DEFINE t == Tokens(s)[k]
           c == s[k + 1]
           u == Tokens(s)[k + 1]
<1>1. u = Read(t, k + 1, c) /\ ~u.odd
  BY OneStep
<1>2. t.tag.closing
  BY DEF InEndTag
<1> HIDE DEF t, c, u
<1>3. CASE u = BeforeAttr(t, k + 1, c)
  BY <1>1, <1>2, <1>3, ClosingBeforeAttr DEF t, c, u
<1>4. CASE t.mode = "tagName"
  <2>1. u = TagName(t, k + 1, c)
    BY <1>1, <1>4, ReadTag
  <2>2. CASE c \in TagNameEnds
    BY <1>3, <2>1, <2>2 DEF TagName
  <2>3. CASE c \notin TagNameEnds
    <3>1. u = To(t, "tagName", Tag(t.tag.closing, Append(t.tag.name, c), {}, t.tag.attr))
      BY <2>1, <2>3 DEF TagName
    <3>2. u.mode = "tagName" /\ u.tags = t.tags /\ u.tag.closing = t.tag.closing
      BY <3>1 DEF To, Tag
    <3>3. InEndTag(u) /\ c # ">"
      BY <1>2, <2>3, <3>2 DEF InEndTag, EndTagModes, TagNameEnds
    <3>. QED
      BY <3>2, <3>3 DEF t, c, u
  <2>. QED
    BY <2>2, <2>3
<1>5. CASE t.mode = "beforeAttr"
  BY <1>1, <1>3, <1>5, ReadTag
<1>6. CASE t.mode = "slash"
  <2>1. u = IF c = ">" THEN EmitsSlashed(t) ELSE BeforeAttr(t, k + 1, c)
    BY <1>1, <1>6, ReadTag
  <2>2. CASE c = ">"
    <3>1. EmitsSlashed(t) = Emits(t)
      BY <1>2 DEF EmitsSlashed, IsRaw
    <3>. QED
      BY <1>2, <2>1, <2>2, <3>1 DEF Emits, IsRaw, t, c, u
  <2>3. CASE c # ">"
    BY <1>3, <2>1, <2>3
  <2>. QED
    BY <2>2, <2>3
<1>. QED
  BY <1>4, <1>5, <1>6 DEF InEndTag, EndTagModes, t

\* to its '>', past no start tag.
LEMMA EndTagRun ==
    ASSUME NEW s, Calm(s), NEW p \in 0 .. Len(s), NEW q \in p .. Len(s),
           InEndTag(Tokens(s)[p]), \A k \in p + 1 .. q : s[k] # ">"
    PROVE  InEndTag(Tokens(s)[q]) /\ Tokens(s)[q].tags = Tokens(s)[p].tags
<1> DEFINE P == {k \in Nat : /\ InEndTag(Tokens(s)[k])
                             /\ Tokens(s)[k].tags = Tokens(s)[p].tags}
<1>1. p \in Nat /\ q \in Nat /\ Len(s) \in Nat
  BY DEF Calm
<1>2. p \in P
  BY <1>1
<1>3. ASSUME NEW k \in p .. q - 1, k \in P PROVE k + 1 \in P
  <2>1. k \in 0 .. Len(s) - 1 /\ s[k + 1] # ">" /\ k + 1 \in Nat
    BY <1>1
  <2>. QED
    BY <1>3, <2>1, EndTagStep
<1>4. \A k \in p .. q : k \in P
  <2> HIDE DEF P
  <2>. QED
    BY <1>1, <1>2, <1>3, Along
<1>. QED
  BY <1>1, <1>4

\* From a position p inside of either on, up to the first '>'.
PastGt(s, p) == LET gt == FirstOf(s, p, {">"}) IN IF gt > Len(s) THEN gt ELSE gt + 1

\* No '<' from p up to q, if none is inside of what closes nothing.
Free(s, p, q) == ClosesPlainly(s) => \A k \in p .. q - 1 : s[k] # "<"

\* Two stretches without '<' are one.
LEMMA FreeJoin ==
    ASSUME NEW s, NEW p \in Nat, NEW q \in Nat, NEW r \in Nat, Free(s, p, q), Free(s, q, r)
    PROVE  Free(s, p, r)
<1>1. \A k \in p .. r - 1 : k \in p .. q - 1 \/ k \in q .. r - 1
  OBVIOUS
<1>. QED
  BY <1>1 DEF Free

LEMMA FreeOne ==
    ASSUME NEW s \in Seq(STRING), NEW k \in 1 .. Len(s),
           s[k] # "<" \/ ClosesAnything(Tokens(s)[k - 1])
    PROVE  Free(s, k, k + 1)
<1>1. k \in DOMAIN s /\ \A j \in k .. k + 1 - 1 : j = k
  OBVIOUS
<1>2. ClosesPlainly(s) => s[k] # "<"
  BY <1>1 DEF ClosesPlainly
<1>. QED
  BY <1>1, <1>2 DEF Free

\* The scanner passes over an end tag or a comment without dashes as the
\* browser does: up to the first '>'.
LEMMA ToGt ==
    ASSUME NEW s, Calm(s), NEW p \in 0 .. Len(s),
           Tokens(s)[p].mode = "bogus" \/ InEndTag(Tokens(s)[p]),
           NEW q, q = PastGt(s, p + 1)
    PROVE  /\ q \in p + 1 .. Len(s) + 1
           /\ q = Len(s) + 1 \/ Tokens(s)[q - 1].mode = "data"
           /\ Tokens(s)[q - 1].tags = Tokens(s)[p].tags
           /\ Free(s, p + 1, q)
<1> DEFINE gt == FirstOf(s, p + 1, {">"})
           t == Tokens(s)[p]
<1>1. p \in Nat /\ Len(s) \in Nat /\ p + 1 \in 1 .. Len(s) + 1
  BY DEF Calm
<1>2. gt \in p + 1 .. Len(s) + 1
  BY <1>1, FirstOfRange
<1>2a. \A k \in p + 1 .. gt - 1 : s[k] \notin {">"}
  BY <1>1, FirstOfRange
<1>2b. gt <= Len(s) => s[gt] \in {">"}
  BY <1>1, FirstOfRange
<1>3. q = IF gt > Len(s) THEN gt ELSE gt + 1
  BY DEF PastGt
<1> HIDE DEF gt
<1>4. gt - 1 \in p .. Len(s) /\ gt \in Nat
  BY <1>1, <1>2
<1>5. /\ Tokens(s)[gt - 1].mode = "bogus" \/ InEndTag(Tokens(s)[gt - 1])
      /\ Tokens(s)[gt - 1].tags = t.tags
  <2>1. \A k \in p + 1 .. gt - 1 : s[k] # ">"
    BY <1>2a
  <2>. QED
    BY <1>4, <2>1, BogusRun, EndTagRun
<1>8. Free(s, p + 1, gt)
  <2>1. ASSUME NEW k \in p + 1 .. gt - 1 PROVE ClosesAnything(Tokens(s)[k - 1]) /\ k \in DOMAIN s
    <3> DEFINE j == k - 1
    <3>1. k \in 1 .. Len(s) /\ j \in p .. Len(s) /\ \A i \in p + 1 .. j : i \in p + 1 .. gt - 1
      BY <1>1, <1>2
    <3>2. \A i \in p + 1 .. j : s[i] # ">"
      BY <1>2a, <3>1
    <3> HIDE DEF j
    <3>3. Tokens(s)[j].mode = "bogus" \/ InEndTag(Tokens(s)[j])
      BY <3>1, <3>2, BogusRun, EndTagRun
    <3>4. k \in DOMAIN s
      BY <3>1 DEF Calm
    <3>. QED
      BY <3>3, <3>4 DEF j, ClosesAnything, InEndTag, EndTagModes
  <2>. QED
    BY <2>1 DEF Free, ClosesPlainly
<1>6. CASE gt > Len(s)
  <2>1. q = Len(s) + 1 /\ q = gt
    BY <1>1, <1>2, <1>3, <1>6
  <2>. QED
    BY <1>1, <1>5, <1>8, <2>1
<1>7. CASE gt <= Len(s)
  <2>1. q = gt + 1 /\ gt - 1 \in 0 .. Len(s) - 1 /\ gt - 1 + 1 = gt /\ q - 1 = gt
    BY <1>1, <1>3, <1>4, <1>7
  <2>2. s[gt] = ">"
    BY <1>2b, <1>7
  <2>3. Tokens(s)[gt].mode = "data" /\ Tokens(s)[gt].tags = Tokens(s)[gt - 1].tags
    <3>1. CASE Tokens(s)[gt - 1].mode = "bogus"
      BY <2>1, <2>2, <3>1, BogusStep
    <3>2. CASE InEndTag(Tokens(s)[gt - 1])
      BY <2>1, <2>2, <3>2, EndTagStep
    <3>. QED
      BY <1>5, <3>1, <3>2
  <2>4. q \in p + 1 .. Len(s) + 1
    BY <1>1, <1>2, <1>4, <1>7, <2>1
  <2>5. gt \in 1 .. Len(s) /\ s[gt] # "<" /\ p + 1 \in Nat /\ q \in Nat
    BY <1>1, <1>2, <1>7, <2>2, <2>4
  <2>6. Free(s, gt, gt + 1)
    BY <2>5, FreeOne DEF Calm
  <2>7. Free(s, p + 1, q)
    BY <1>4, <1>8, <2>1, <2>5, <2>6, FreeJoin
  <2>. QED
    BY <1>5, <2>1, <2>3, <2>4, <2>7
<1>. QED
  BY <1>1, <1>4, <1>6, <1>7

-----------------------------------------------------------------------------
\* A comment ends at the first "-->" after its "<!--", unless it is one of
\* those that make a document odd.
Dashes == {"commentStartDash", "commentDash", "commentEnd"}
CommentModes == Dashes \cup {"commentStart", "comment", "commentBang"}
InComment(s, from, k) ==
    /\ Tokens(s)[k].mode \in CommentModes
    /\ Tokens(s)[k].mode \in Dashes <=> k >= from /\ s[k] = "-"
    /\ Tokens(s)[k].mode = "commentEnd" => k > from /\ s[k - 1] = "-"

\* Three characters at a position.
LEMMA AtTriple ==
    ASSUME NEW s, Len(s) \in Nat, NEW i \in Nat, NEW b, NEW c, NEW d
    PROVE  At(s, i, <<b, c, d>>) <=>
             i + 2 <= Len(s) /\ s[i] = b /\ s[i + 1] = c /\ s[i + 2] = d
<1>1. /\ Len(<<b, c, d>>) = 3 /\ DOMAIN <<b, c, d>> = {1, 2, 3}
      /\ <<b, c, d>>[1] = b /\ <<b, c, d>>[2] = c /\ <<b, c, d>>[3] = d
  OBVIOUS
<1>2. At(s, i, <<b, c, d>>) <=> /\ i + 3 - 1 <= Len(s) /\ s[i + 1 - 1] = b
                                /\ s[i + 2 - 1] = c /\ s[i + 3 - 1] = d
  BY <1>1 DEF At
<1>3. i + 1 - 1 = i /\ i + 2 - 1 = i + 1 /\ i + 3 - 1 = i + 2
  OBVIOUS
<1>. QED
  BY <1>2, <1>3

\* A comment goes on to its "-->",
LEMMA CommentStep ==
    ASSUME NEW s, Calm(s), NEW from \in Nat, NEW k \in 0 .. Len(s) - 1, k + 1 >= from,
           InComment(s, from, k)
    PROVE  /\ InComment(s, from, k + 1)
              \/ /\ s[k + 1] = ">" /\ Tokens(s)[k].mode = "commentEnd"
                 /\ Tokens(s)[k + 1].mode = "data"
           /\ Tokens(s)[k + 1].tags = Tokens(s)[k].tags
           /\ s[k + 1] = "-" /\ Tokens(s)[k].mode \in Dashes
                => Tokens(s)[k + 1].mode = "commentEnd"
<1> DEFINE t == Tokens(s)[k]
           c == s[k + 1]
           u == Tokens(s)[k + 1]
<1>1. u = Read(t, k + 1, c) /\ ~u.odd /\ k \in Nat /\ k + 1 \in Nat /\ k + 1 - 1 = k
  BY OneStep
<1> HIDE DEF t, c, u
<1>2. /\ u.tags = t.tags
      /\ \/ u.mode \in CommentModes
         \/ c = ">" /\ t.mode = "commentEnd" /\ u.mode = "data"
      /\ u.mode \in Dashes <=> c = "-"
      /\ u.mode = "commentEnd" => t.mode \in Dashes
      /\ c = "-" /\ t.mode \in Dashes => u.mode = "commentEnd"
  <2> DEFINE to(mode) == u.mode = mode /\ u.tags = t.tags
  <2>0. ASSUME NEW mode, u = In(t, mode) PROVE to(mode)
    BY <2>0 DEF In, To
  <2>0a. ASSUME u = Comment(t, c) PROVE to(IF c = "-" THEN "commentDash" ELSE "comment")
    BY <2>0a DEF Comment, In, To
  <2>1. CASE t.mode = "commentStart"
    <3>1. u = IF c = ">" THEN Odd(In(t, "data"))
              ELSE In(t, IF c = "-" THEN "commentStartDash" ELSE "comment")
      BY <1>1, <2>1, ReadMarkup
    <3>2. c # ">"
      BY <1>1, <3>1 DEF Odd
    <3>3. to(IF c = "-" THEN "commentStartDash" ELSE "comment")
      BY <2>0, <3>1, <3>2
    <3>. QED
      BY <2>1, <3>2, <3>3 DEF CommentModes, Dashes
  <2>2. CASE t.mode = "commentStartDash"
    <3>1. u = IF c = ">" THEN Odd(In(t, "data"))
              ELSE In(t, IF c = "-" THEN "commentEnd" ELSE "comment")
      BY <1>1, <2>2, ReadMarkup
    <3>2. c # ">"
      BY <1>1, <3>1 DEF Odd
    <3>3. to(IF c = "-" THEN "commentEnd" ELSE "comment")
      BY <2>0, <3>1, <3>2
    <3>. QED
      BY <2>2, <3>2, <3>3 DEF CommentModes, Dashes
  <2>3. CASE t.mode = "comment"
    <3>1. to(IF c = "-" THEN "commentDash" ELSE "comment")
      BY <1>1, <2>0a, <2>3, ReadMarkup
    <3>. QED
      BY <2>3, <3>1 DEF CommentModes, Dashes
  <2>4. CASE t.mode = "commentDash"
    <3>1. u = In(t, IF c = "-" THEN "commentEnd" ELSE "comment")
      BY <1>1, <2>4, ReadMarkup
    <3>2. to(IF c = "-" THEN "commentEnd" ELSE "comment")
      BY <2>0, <3>1
    <3>. QED
      BY <2>4, <3>2 DEF CommentModes, Dashes
  <2>5. CASE t.mode = "commentEnd"
    <3>1. u = In(t, CASE c = ">" -> "data" [] c = "!" -> "commentBang"
                      [] c = "-" -> "commentEnd" [] OTHER -> "comment")
      BY <1>1, <2>5, ReadMarkup
    <3>2. to(CASE c = ">" -> "data" [] c = "!" -> "commentBang"
               [] c = "-" -> "commentEnd" [] OTHER -> "comment")
      BY <2>0, <3>1
    <3>. QED
      BY <2>5, <3>2 DEF CommentModes, Dashes
  <2>6. CASE t.mode = "commentBang"
    <3>1. u = IF c = ">" THEN Odd(In(t, "data")) ELSE Comment(t, c)
      BY <1>1, <2>6, ReadMarkup
    <3>2. c # ">"
      BY <1>1, <3>1 DEF Odd
    <3>3. to(IF c = "-" THEN "commentDash" ELSE "comment")
      BY <2>0a, <3>1, <3>2
    <3>. QED
      BY <2>6, <3>2, <3>3 DEF CommentModes, Dashes
  <2>. QED
    BY <2>1, <2>2, <2>3, <2>4, <2>5, <2>6 DEF InComment, CommentModes, Dashes, t
<1>3. t.mode \in Dashes => k >= from /\ s[k] = "-"
  BY DEF InComment, t
<1>4. u.mode \in CommentModes => InComment(s, from, k + 1)
  BY <1>1, <1>2, <1>3 DEF InComment, u, c
<1>. QED
  BY <1>2, <1>4 DEF t, c, u

\* The comment that begins at p.
LEMMA CommentRun ==
    ASSUME NEW s, Calm(s), NEW p \in 1 .. Len(s), p + 3 <= Len(s),
           Tokens(s)[p + 3].mode = "commentStart",
           NEW q \in p + 3 .. Len(s),
           \A i \in p + 4 .. q - 2 : ~At(s, i, <<"-", "-", ">">>)
    PROVE  InComment(s, p + 4, q) /\ Tokens(s)[q].tags = Tokens(s)[p + 3].tags
<1> DEFINE from == p + 4
           P == {k \in Nat : /\ InComment(s, from, k)
                             /\ Tokens(s)[k].tags = Tokens(s)[p + 3].tags}
<1>1. /\ p \in Nat /\ q \in Nat /\ Len(s) \in Nat /\ from \in Nat /\ p + 3 \in Nat
      /\ from = p + 3 + 1
  BY DEF Calm
<1>2. p + 3 \in P
  <2>1. ~(p + 3 >= from)
    BY <1>1
  <2>. QED
    BY <1>1, <2>1 DEF InComment, CommentModes, Dashes
<1>3. ASSUME NEW k \in p + 3 .. q - 1, k \in P PROVE k + 1 \in P
  <2>1. k \in 0 .. Len(s) - 1 /\ k + 1 \in Nat /\ k + 1 >= from /\ k \in Nat
    BY <1>1
  <2>2. InComment(s, from, k)
    BY <1>3
  <2>3. ~(s[k + 1] = ">" /\ Tokens(s)[k].mode = "commentEnd")
    <3>1. SUFFICES ASSUME s[k + 1] = ">", Tokens(s)[k].mode = "commentEnd" PROVE FALSE
      OBVIOUS
    <3>2. k > from /\ s[k - 1] = "-" /\ s[k] = "-"
      BY <2>2, <3>1 DEF InComment, Dashes
    <3>3. k - 1 \in from .. q - 2 /\ k - 1 + 1 = k /\ k - 1 + 2 = k + 1 /\ k - 1 \in Nat
      BY <1>1, <2>1, <3>2
    <3>4. At(s, k - 1, <<"-", "-", ">">>)
      BY <1>1, <2>1, <3>1, <3>2, <3>3, AtTriple
    <3>. QED
      BY <1>1, <3>3, <3>4
  <2>4. InComment(s, from, k + 1) /\ Tokens(s)[k + 1].tags = Tokens(s)[k].tags
    BY <1>1, <2>1, <2>2, <2>3, CommentStep
  <2>. QED
    BY <1>3, <2>1, <2>4
<1>4. \A k \in p + 3 .. q : k \in P
  <2> HIDE DEF P
  <2>. QED
    BY <1>1, <1>2, <1>3, Along
<1>. QED
  BY <1>1, <1>4

\* which is where the scanner leaves it.
LEMMA ToCommentEnd ==
    ASSUME NEW s, Calm(s), NEW p \in 1 .. Len(s), p + 3 <= Len(s),
           Tokens(s)[p + 3].mode = "commentStart",
           NEW close, close = Occurs(s, p + 4, <<"-", "-", ">">>),
           NEW q, q = IF close = 0 THEN Len(s) + 1 ELSE close + 3
    PROVE  /\ q \in p + 4 .. Len(s) + 1
           /\ q = Len(s) + 1 \/ Tokens(s)[q - 1].mode = "data"
           /\ Tokens(s)[q - 1].tags = Tokens(s)[p + 3].tags
           /\ close # 0 => Tokens(s)[q - 1].mode = "data"
<1>1. /\ p \in Nat /\ Len(s) \in Nat /\ p + 4 \in 1 .. Len(s) + 1 /\ s \in Seq(STRING)
      /\ Len(s) \in p + 3 .. Len(s)
  BY DEF Calm
<1>2. CASE close = 0
  <2>1. \A i \in p + 4 .. Len(s) : ~At(s, i, <<"-", "-", ">">>)
    BY <1>1, <1>2, OccursRange
  <2>2. \A i \in p + 4 .. Len(s) - 2 : ~At(s, i, <<"-", "-", ">">>)
    BY <1>1, <2>1
  <2>3. Tokens(s)[Len(s)].tags = Tokens(s)[p + 3].tags
    BY <1>1, <2>2, CommentRun
  <2>. QED
    BY <1>1, <1>2, <2>3
<1>3. CASE close # 0
  <2>1. close \in p + 4 .. Len(s) /\ At(s, close, <<"-", "-", ">">>)
    BY <1>1, <1>3, OccursRange
  <2>1a. \A i \in p + 4 .. close - 1 : ~At(s, i, <<"-", "-", ">">>)
    BY <1>1, <1>3, OccursRange
  <2>2. /\ close + 2 <= Len(s) /\ s[close] = "-" /\ s[close + 1] = "-" /\ s[close + 2] = ">"
        /\ close \in Nat /\ close + 1 \in p + 3 .. Len(s) /\ close \in p + 3 .. Len(s)
        /\ close + 1 \in 0 .. Len(s) - 1 /\ close \in 0 .. Len(s) - 1
    BY <1>1, <2>1, AtTriple
  <2>3. InComment(s, p + 4, close) /\ InComment(s, p + 4, close + 1)
        /\ Tokens(s)[close + 1].tags = Tokens(s)[p + 3].tags
    <3>1. \A i \in p + 4 .. close - 2 : ~At(s, i, <<"-", "-", ">">>)
      BY <1>1, <2>1a, <2>2
    <3>2. \A i \in p + 4 .. (close + 1) - 2 : ~At(s, i, <<"-", "-", ">">>)
      BY <1>1, <2>1a, <2>2
    <3>. QED
      BY <2>2, <3>1, <3>2, CommentRun
  <2>4. Tokens(s)[close].mode \in Dashes
    BY <2>1, <2>2, <2>3 DEF InComment
  <2>5. Tokens(s)[close + 1].mode = "commentEnd"
    <3>1. p + 4 \in Nat /\ close + 1 >= p + 4
      BY <1>1, <2>1
    <3>. QED
      BY <2>2, <2>3, <2>4, <3>1, CommentStep
  <2>6. /\ Tokens(s)[close + 2].mode = "data"
        /\ Tokens(s)[close + 2].tags = Tokens(s)[close + 1].tags
    <3>1. close + 1 + 1 = close + 2
      BY <2>2
    <3>2. Tokens(s)[close + 2] = Read(Tokens(s)[close + 1], close + 2, s[close + 2])
      BY <2>2, <3>1, OneStep
    <3>3. Tokens(s)[close + 2] = In(Tokens(s)[close + 1],
            CASE ">" = ">" -> "data" [] ">" = "!" -> "commentBang"
              [] ">" = "-" -> "commentEnd" [] OTHER -> "comment")
      BY <2>2, <2>5, <3>2, ReadMarkup
    <3>. QED
      BY <3>3 DEF In, To
  <2>7. q = close + 3 /\ q - 1 = close + 2
    BY <1>3, <2>2
  <2>8. q \in p + 4 .. Len(s) + 1
    <3>1. /\ close \in Nat /\ p \in Nat /\ Len(s) \in Nat
          /\ p + 4 <= close /\ close + 2 <= Len(s)
      BY <1>1, <2>1, <2>2
    <3>2. q = close + 3
      BY <2>7
    <3>. QED
      BY <3>1, <3>2
  <2>. QED
    BY <2>3, <2>6, <2>7, <2>8
<1>. QED
  BY <1>2, <1>3

-----------------------------------------------------------------------------
\* A stretch of the document with one more character.
LEMMA SubSeqOn ==
    ASSUME NEW s \in Seq(STRING), NEW i \in 1 .. Len(s), NEW k \in i - 1 .. Len(s) - 1
    PROVE  Append(SubSeq(s, i, k), s[k + 1]) = SubSeq(s, i, k + 1)
<1> DEFINE u == SubSeq(s, i, k)
           v == SubSeq(s, i, k + 1)
<1>1. /\ Len(s) \in Nat /\ i \in Nat /\ k \in Nat /\ k + 1 \in i .. Len(s)
  OBVIOUS
<1>2. /\ u \in Seq(STRING) /\ Len(u) = k - i + 1 /\ \A j \in 1 .. k - i + 1 : u[j] = s[i + j - 1]
  BY <1>1
<1>3. /\ v \in Seq(STRING) /\ Len(v) = k + 1 - i + 1
      /\ \A j \in 1 .. k + 1 - i + 1 : v[j] = s[i + j - 1]
  BY <1>1
<1> HIDE DEF u, v
<1> DEFINE w == Append(u, s[k + 1])
<1>4. w \in Seq(STRING) /\ Len(w) = k - i + 2 /\ w[k - i + 2] = s[k + 1]
      /\ \A j \in 1 .. k - i + 1 : w[j] = u[j]
  BY <1>1, <1>2
<1> HIDE DEF w
<1>5. \A j \in 1 .. k - i + 2 : w[j] = v[j]
  <2>1. k - i + 2 = k + 1 - i + 1 /\ i + (k - i + 2) - 1 = k + 1
    BY <1>1
  <2>2. \A j \in 1 .. k - i + 2 : j \in 1 .. k - i + 1 \/ j = k - i + 2
    BY <1>1
  <2>. QED
    BY <1>1, <1>2, <1>3, <1>4, <2>1, <2>2
<1>6. Len(w) = Len(v)
  BY <1>1, <1>3, <1>4
<1>7. w = v
  BY <1>3, <1>4, <1>5, <1>6
<1>. QED
  BY <1>7 DEF u, v, w

\* Raw text, from the end e of a tag of that name on, goes on to its end tag.
RawModes == {"raw", "rawOpen", "rawEnd"}
EndTagSoFar(s, e, k, name) ==
    \E p \in e .. k - 1 : At(s, p, <<"<", "/">>) /\ name = SubSeq(s, p + 2, k)
InRaw(s, name, e, k) ==
    /\ Tokens(s)[k].mode \in RawModes /\ Tokens(s)[k].within = name
    /\ Tokens(s)[k].mode = "rawOpen" =>
         k >= e /\ s[k] = "<" /\ Tokens(s)[k].tag.name = <<>>
    /\ Tokens(s)[k].mode = "rawEnd" => EndTagSoFar(s, e, k, Tokens(s)[k].tag.name)

\* Raw text goes on as long as there is no end tag of its element,
LEMMA RawStep ==
    ASSUME NEW s, Calm(s), NEW e \in 1 .. Len(s), NEW k \in e - 1 .. Len(s) - 1,
           NEW name, InRaw(s, name, e, k),
           \A p \in e .. k : ~EndTagAt(s, name, p)
    PROVE  InRaw(s, name, e, k + 1) /\ Tokens(s)[k + 1].tags = Tokens(s)[k].tags
<1> DEFINE t == Tokens(s)[k]
           c == s[k + 1]
           u == Tokens(s)[k + 1]
<1>0. Len(s) \in Nat /\ e \in Nat /\ k \in Nat /\ k + 1 >= e /\ s \in Seq(STRING)
      /\ k \in 0 .. Len(s) - 1
  BY DEF Calm
<1>1. u = Read(t, k + 1, c) /\ t \in TokenStates
  BY <1>0, OneStep
<1>1a. /\ t.mode \in RawModes /\ t.within = name
       /\ t.mode = "rawOpen" => k >= e /\ s[k] = "<" /\ t.tag.name = <<>>
       /\ t.mode = "rawEnd" => EndTagSoFar(s, e, k, t.tag.name)
  BY DEF InRaw
<1> HIDE DEF t, c, u
<1>2. CASE u = RawText(t, c)
  <2>1. /\ u.mode = IF c = "<" THEN "rawOpen" ELSE "raw"
        /\ u.within = t.within /\ u.tags = t.tags /\ u.tag.name = <<>>
    BY <1>2 DEF RawText, To, NoTag, Tag
  <2>. QED
    BY <1>0, <1>1a, <2>1 DEF InRaw, RawModes, t, c, u
<1>3. CASE t.mode = "raw"
  BY <1>1, <1>2, <1>3, ReadText
<1>4. CASE t.mode = "rawOpen"
  <2>1. u = IF c = "/" THEN In(t, "rawEnd") ELSE RawText(t, c)
    BY <1>1, <1>4, ReadText
  <2>2. CASE c = "/"
    <3>1. u.mode = "rawEnd" /\ u.within = name /\ u.tags = t.tags /\ u.tag.name = <<>>
      BY <1>1a, <1>4, <2>1, <2>2 DEF In, To
    <3>2. At(s, k, <<"<", "/">>)
      <4>1. s[k] = "<" /\ s[k + 1] = "/" /\ k + 1 <= Len(s)
        BY <1>0, <1>1a, <1>4, <2>2 DEF c
      <4>. QED
        BY <1>0, <4>1, AtPair
    <3>3. SubSeq(s, k + 2, k + 1) = <<>>
      BY <1>0
    <3>4. k \in e .. (k + 1) - 1
      BY <1>0, <1>1a, <1>4
    <3>5. EndTagSoFar(s, e, k + 1, u.tag.name)
      BY <3>1, <3>2, <3>3, <3>4 DEF EndTagSoFar
    <3>. QED
      BY <3>1, <3>5 DEF InRaw, RawModes, t, u
  <2>. QED
    BY <1>2, <2>1, <2>2
<1>5. CASE t.mode = "rawEnd"
  <2>1. u = RawEnd(t, k + 1, c)
    BY <1>1, <1>5, ReadText
  <2>2. PICK p \in e .. k - 1 : At(s, p, <<"<", "/">>) /\ t.tag.name = SubSeq(s, p + 2, k)
    BY <1>1a, <1>5 DEF EndTagSoFar
  <2>2a. p \in Nat /\ p + 1 <= k /\ p + 2 \in 1 .. Len(s) /\ p \in e .. k /\ k \in p + 2 - 1 .. Len(s) - 1
    BY <1>0
  <2>3. CASE c \in Letters
    <3>1. u = To(t, "rawEnd", Tag(FALSE, Append(t.tag.name, c), {}, t.tag.attr))
      BY <2>1, <2>3, BlankApart DEF RawEnd, Letters, TagNameEnds
    <3>2. /\ u.mode = "rawEnd" /\ u.within = name /\ u.tags = t.tags
          /\ u.tag.name = Append(t.tag.name, c)
      BY <1>1a, <3>1 DEF To, Tag
    <3>3. u.tag.name = SubSeq(s, p + 2, k + 1)
      <4>1. Append(SubSeq(s, p + 2, k), s[k + 1]) = SubSeq(s, p + 2, k + 1)
        BY <1>0, <2>2a, SubSeqOn
      <4>. QED
        BY <2>2, <3>2, <4>1 DEF c
    <3>4. p \in e .. (k + 1) - 1
      BY <1>0
    <3>5. EndTagSoFar(s, e, k + 1, u.tag.name)
      BY <2>2, <3>3, <3>4 DEF EndTagSoFar
    <3>. QED
      BY <3>2, <3>5 DEF InRaw, RawModes, t, u
  <2>4. CASE c \in TagNameEnds /\ t.tag.name = t.within
    <3> DEFINE n == Len(name)
    <3>1. name = SubSeq(s, p + 2, k)
      BY <1>1a, <2>2, <2>4
    <3>2. n \in Nat /\ p + 2 + n = k + 1 /\ DOMAIN name = 1 .. n
          /\ \A j \in 1 .. n : name[j] = s[p + 2 + j - 1]
      BY <1>0, <2>2a, <3>1
    <3> HIDE DEF n
    <3>3. At(s, p + 2, name)
      BY <1>0, <2>2a, <3>2 DEF At, n
    <3>4. hasTagNameAt(s, p + 2, name)
      BY <1>0, <2>4, <3>2, <3>3 DEF hasTagNameAt, n, c
    <3>5. EndTagAt(s, name, p)
      BY <2>2, <3>4 DEF EndTagAt
    <3>. QED
      BY <2>2a, <3>5
  <2>5. CASE c \notin Letters /\ ~(c \in TagNameEnds /\ t.tag.name = t.within)
    <3>1. u = RawText(t, c)
      BY <2>1, <2>5 DEF RawEnd
    <3>. QED
      BY <1>2, <3>1
  <2>. QED
    BY <2>3, <2>4, <2>5
<1>. QED
  BY <1>1a, <1>3, <1>4, <1>5 DEF RawModes

\* so findEndTag and the browser leave it at the same one.
LEMMA ToEndTag ==
    ASSUME NEW s, Calm(s), NEW e \in 1 .. Len(s) + 1, NEW name,
           Tokens(s)[e - 1].mode = "raw", Tokens(s)[e - 1].within = name,
           NEW q, q = findEndTag(s, name, e)
    PROVE  /\ q \in e .. Len(s) + 1
           /\ Tokens(s)[q - 1].mode \in RawModes /\ Tokens(s)[q - 1].within = name
           /\ Tokens(s)[q - 1].tags = Tokens(s)[e - 1].tags
           /\ q <= Len(s) => EndTagAt(s, name, q)
<1> DEFINE P == {k \in Nat : /\ InRaw(s, name, e, k)
                             /\ Tokens(s)[k].tags = Tokens(s)[e - 1].tags}
<1>1. e \in Nat /\ e - 1 \in Nat /\ Len(s) \in Nat /\ s \in Seq(STRING)
  BY DEF Calm
<1>2. /\ q \in e .. Len(s) + 1
      /\ q <= Len(s) => EndTagAt(s, name, q)
      /\ \A i \in e .. q - 1 : ~EndTagAt(s, name, i)
  BY <1>1, EndTagRange
<1>3. e - 1 \in P
  BY <1>1 DEF InRaw, RawModes
<1>4. ASSUME NEW k \in e - 1 .. (q - 1) - 1, k \in P PROVE k + 1 \in P
  <2>1. /\ k \in e - 1 .. Len(s) - 1 /\ e \in 1 .. Len(s) /\ k + 1 \in Nat
        /\ \A p \in e .. k : p \in e .. q - 1
    BY <1>1, <1>2
  <2>2. \A p \in e .. k : ~EndTagAt(s, name, p)
    BY <1>2, <2>1
  <2>. QED
    BY <1>4, <2>1, <2>2, RawStep
<1>5. q - 1 \in e - 1 .. q - 1 /\ q - 1 \in Nat
  BY <1>1, <1>2
<1>6. \A k \in e - 1 .. q - 1 : k \in P
  <2> HIDE DEF P
  <2>. QED
    BY <1>1, <1>3, <1>4, <1>5, Along
<1>7. q - 1 \in P
  BY <1>5, <1>6
<1>. QED
  BY <1>2, <1>7 DEF InRaw

-----------------------------------------------------------------------------
\* A start tag.  In an ordinary document it ends.
LEMMA CalmLen ==
    ASSUME NEW s, Calm(s)
    PROVE  Len(s) \in Nat /\ s \in Seq(STRING)
BY DEF Calm

LEMMA OneLong ==
    ASSUME NEW s \in Seq(STRING), NEW i \in 1 .. Len(s)
    PROVE  SubSeq(s, i, i) = <<s[i]>>
<1> DEFINE u == SubSeq(s, i, i)
           v == <<s[i]>>
<1>1. Len(s) \in Nat /\ i \in Nat /\ s[i] \in STRING
  OBVIOUS
<1>2. u \in Seq(STRING) /\ Len(u) = 1 /\ \A j \in 1 .. 1 : u[j] = s[i + j - 1]
  BY <1>1
<1>3. v \in Seq(STRING) /\ Len(v) = 1 /\ v[1] = s[i]
  BY <1>1, OneType
<1> HIDE DEF u, v
<1>4. \A j \in 1 .. 1 : u[j] = v[j]
  <2>1. 1 \in 1 .. 1 /\ i + 1 - 1 = i /\ \A j \in 1 .. 1 : j = 1
    BY <1>1
  <2>. QED
    BY <1>2, <1>3, <2>1
<1>5. u = v
  BY <1>2, <1>3, <1>4
<1>. QED
  BY <1>5 DEF u, v

\* Within a tag, the document is not at its end.
LEMMA GoesOn ==
    ASSUME NEW s, Calm(s), NEW k \in 0 .. Len(s), Tokens(s)[k].mode \notin Outside
    PROVE  k \in 0 .. Len(s) - 1 /\ k + 1 \in 1 .. Len(s)
<1>1. Len(s) \in Nat /\ k # Len(s)
  BY EndsOutside DEF Calm
<1>. QED
  BY <1>1

\* The same tag under way, but for what is known of its attributes.
SameTag(v, u) ==
    /\ v.tag.closing = u.tag.closing /\ v.tag.name = u.tag.name /\ v.tags = u.tags
Held(v, u) == SameTag(v, u) /\ v.tag.attrs = u.tag.attrs

\* At position j, the tokenizer reads on in a tag, as if its state were u.
Resumes(s, j, u) == j \in 1 .. Len(s) /\ Tokens(s)[j] = BeforeAttr(u, j, s[j])

\* Blanks before an attribute change nothing,
LEMMA PastBlanks ==
    ASSUME NEW s, Calm(s), NEW j, NEW u, Resumes(s, j, u),
           NEW i, i = FirstNotOf(s, j, {Blank})
    PROVE  \E v : Resumes(s, i, v) /\ Held(v, u)
<1>1. Len(s) \in Nat /\ j \in Nat /\ j \in 1 .. Len(s) /\ j \in 1 .. Len(s) + 1
  BY CalmLen DEF Resumes
<1>2. i \in j .. Len(s) + 1
  BY <1>1, FirstNotOfRange
<1>3. \A k \in j .. i - 1 : s[k] \in {Blank}
  BY <1>1, FirstNotOfRange
<1>4. CASE i = j
  BY <1>4 DEF Held, SameTag
<1>5. CASE i # j
  <2> DEFINE P == {k \in Nat : Tokens(s)[k].mode = "beforeAttr" /\ Held(Tokens(s)[k], u)}
  <2>1. i - 1 \in j .. Len(s) /\ i - 1 \in Nat /\ j \in j .. i - 1
    BY <1>1, <1>2, <1>5
  <2>2. j \in P
    <3>1. s[j] = Blank
      BY <1>3, <2>1
    <3>2. Tokens(s)[j] = In(u, "beforeAttr")
      BY <3>1, BeforeAttrReads DEF Resumes
    <3>. QED
      BY <1>1, <3>2 DEF In, To, Held, SameTag
  <2>3. ASSUME NEW k \in j .. (i - 1) - 1, k \in P PROVE k + 1 \in P
    <3>1. k \in 0 .. Len(s) - 1 /\ k + 1 \in Nat /\ k + 1 \in j .. i - 1
      BY <1>1, <2>1
    <3>2. Tokens(s)[k + 1] = Read(Tokens(s)[k], k + 1, s[k + 1]) /\ s[k + 1] = Blank
      BY <1>3, <3>1, OneStep
    <3>3. Tokens(s)[k + 1] = In(Tokens(s)[k], "beforeAttr")
      BY <2>3, <3>2, ReadTag, BeforeAttrReads
    <3>. QED
      BY <2>3, <3>1, <3>3 DEF In, To, Held, SameTag
  <2>4. \A k \in j .. i - 1 : k \in P
    <3> HIDE DEF P
    <3>. QED
      BY <1>1, <2>1, <2>2, <2>3, Along
  <2>5. Tokens(s)[i - 1].mode = "beforeAttr" /\ Held(Tokens(s)[i - 1], u)
    BY <2>1, <2>4
  <2>6. i - 1 \in 0 .. Len(s) /\ i - 1 + 1 = i
    BY <1>1, <1>2, <1>5, <2>1
  <2>7. i - 1 \in 0 .. Len(s) - 1 /\ i \in 1 .. Len(s)
    BY <2>5, <2>6, GoesOn DEF Outside
  <2>8. Tokens(s)[i] = BeforeAttr(Tokens(s)[i - 1], i, s[i])
    BY <2>5, <2>6, <2>7, OneStep, ReadTag
  <2>. QED
    BY <2>5, <2>7, <2>8 DEF Resumes
<1>. QED
  BY <1>4, <1>5

\* An attribute's name,
LEMMA AttrNameRun ==
    ASSUME NEW s, Calm(s), NEW i \in 1 .. Len(s), NEW q \in i .. Len(s),
           Tokens(s)[i].mode = "attrName", Tokens(s)[i].tag.attr = Attr(<<s[i]>>, i, i, i),
           \A k \in i + 1 .. q : s[k] \notin AttrNameEnds
    PROVE  /\ Tokens(s)[q].mode = "attrName" /\ Held(Tokens(s)[q], Tokens(s)[i])
           /\ Tokens(s)[q].tag.attr.name = SubSeq(s, i, q)
           /\ Tokens(s)[q].tag.attr.start = i
<1> DEFINE P == {k \in Nat : /\ Tokens(s)[k].mode = "attrName"
                             /\ Held(Tokens(s)[k], Tokens(s)[i])
                             /\ Tokens(s)[k].tag.attr.name = SubSeq(s, i, k)
                             /\ Tokens(s)[k].tag.attr.start = i}
<1>1. Len(s) \in Nat /\ i \in Nat /\ q \in Nat /\ s \in Seq(STRING)
  BY CalmLen
<1>2. i \in P
  <2>1. SubSeq(s, i, i) = <<s[i]>>
    BY <1>1, OneLong
  <2>2. Held(Tokens(s)[i], Tokens(s)[i])
    BY DEF Held, SameTag
  <2>. QED
    BY <1>1, <2>1, <2>2 DEF Attr
<1>3. ASSUME NEW k \in i .. q - 1, k \in P PROVE k + 1 \in P
  <2> DEFINE t == Tokens(s)[k]
             u == Tokens(s)[k + 1]
  <2>1. k \in 0 .. Len(s) - 1 /\ k + 1 \in Nat /\ s[k + 1] \notin AttrNameEnds
        /\ k \in i - 1 .. Len(s) - 1
    BY <1>1
  <2>2. u = Read(t, k + 1, s[k + 1])
    BY <2>1, OneStep
  <2>2a. /\ t.mode = "attrName" /\ Held(t, Tokens(s)[i])
         /\ t.tag.attr.name = SubSeq(s, i, k) /\ t.tag.attr.start = i
    BY <1>3
  <2> HIDE DEF t, u
  <2>3. u = Under(t, "attrName", Attr(Append(t.tag.attr.name, s[k + 1]), t.tag.attr.start,
                                      k + 1, k + 1))
    <3>1. Read(t, k + 1, s[k + 1]) = AttrName(t, k + 1, s[k + 1])
      BY <2>2a, ReadTag
    <3>. QED
      BY <2>1, <2>2, <3>1 DEF AttrName
  <2>4. /\ u.mode = "attrName" /\ Held(u, t) /\ u.tag.attr.start = t.tag.attr.start
        /\ u.tag.attr.name = Append(t.tag.attr.name, s[k + 1])
    BY <2>3 DEF Under, To, Tag, Attr, Held, SameTag
  <2>5. u.tag.attr.name = SubSeq(s, i, k + 1)
    <3>1. Append(SubSeq(s, i, k), s[k + 1]) = SubSeq(s, i, k + 1)
      BY <1>1, <2>1, SubSeqOn
    <3>. QED
      BY <2>2a, <2>4, <3>1
  <2>6. Held(u, Tokens(s)[i])
    BY <2>2a, <2>4 DEF Held, SameTag
  <2>. QED
    BY <2>1, <2>2a, <2>4, <2>5, <2>6 DEF u
<1>4. \A k \in i .. q : k \in P
  <2> HIDE DEF P
  <2>. QED
    BY <1>1, <1>2, <1>3, Along
<1>5. q \in P
  BY <1>1, <1>4
<1>. QED
  BY <1>5

\* and blanks after it, or before its value.

\* nor do those around its '='.
LEMMA BlankRun ==
    ASSUME NEW s, Calm(s), NEW j \in 0 .. Len(s), NEW q \in j .. Len(s),
           NEW mode \in {"afterName", "beforeValue"}, Tokens(s)[j].mode = mode,
           \A k \in j + 1 .. q : s[k] \in {Blank}
    PROVE  Tokens(s)[q].mode = mode /\ Tokens(s)[q].tag = Tokens(s)[j].tag
           /\ Tokens(s)[q].tags = Tokens(s)[j].tags
<1> DEFINE P == {k \in Nat : /\ Tokens(s)[k].mode = mode
                             /\ Tokens(s)[k].tag = Tokens(s)[j].tag
                             /\ Tokens(s)[k].tags = Tokens(s)[j].tags}
<1>1. Len(s) \in Nat /\ j \in Nat /\ q \in Nat
  BY CalmLen
<1>2. j \in P
  BY <1>1
<1>3. ASSUME NEW k \in j .. q - 1, k \in P PROVE k + 1 \in P
  <2> DEFINE t == Tokens(s)[k]
             u == Tokens(s)[k + 1]
  <2>1. k \in 0 .. Len(s) - 1 /\ k + 1 \in Nat /\ s[k + 1] \in {Blank}
    BY <1>1
  <2>2. u = Read(t, k + 1, Blank)
    BY <2>1, OneStep
  <2>2a. t.mode = mode /\ t.tag = Tokens(s)[j].tag /\ t.tags = Tokens(s)[j].tags
    BY <1>3
  <2> HIDE DEF t, u
  <2>3. u.mode = mode /\ u.tag = t.tag /\ u.tags = t.tags
    <3>1. CASE mode = "afterName"
      <4>1. u = In(t, "afterName")
        BY <2>1, <2>2, <2>2a, <3>1, ReadTag, AfterNameReads
      <4>. QED
        BY <3>1, <4>1 DEF In, To
    <3>2. CASE mode = "beforeValue"
      <4>1. u = t
        BY <2>1, <2>2, <2>2a, <3>2, ReadTag, BeforeValueReads
      <4>. QED
        BY <2>2a, <4>1
    <3>. QED
      BY <3>1, <3>2
  <2>. QED
    BY <2>1, <2>2a, <2>3 DEF u
<1>4. \A k \in j .. q : k \in P
  <2> HIDE DEF P
  <2>. QED
    BY <1>1, <1>2, <1>3, Along
<1>. QED
  BY <1>1, <1>4

\* An attribute begins,
LEMMA BeginsAttribute ==
    ASSUME NEW s, Calm(s), NEW i, NEW u, Resumes(s, i, u), s[i] \notin TagNameEnds
    PROVE  /\ ~u.tag.closing /\ s[i] \notin AttrNameEnds
           /\ Tokens(s)[i].mode = "attrName" /\ Held(Tokens(s)[i], u)
           /\ Tokens(s)[i].tag.attr = Attr(<<s[i]>>, i, i, i)
<1> DEFINE t == Tokens(s)[i]
           c == s[i]
<1>1. i \in 0 .. Len(s) /\ t = BeforeAttr(u, i, c)
  BY CalmLen DEF Resumes
<1>2. ~t.odd
  BY <1>1, NeverOdd
<1>3. t = Begins(u, i, c)
  BY <1>1, BeforeAttrReads
<1> HIDE DEF t
<1>4. ~u.tag.closing /\ c # "="
  BY <1>2, <1>3 DEF Begins, Odd
<1>5. t = Under(u, "attrName", Attr(<<c>>, i, i, i))
  BY <1>3, <1>4 DEF Begins
<1>6. t.mode = "attrName" /\ Held(t, u) /\ t.tag.attr = Attr(<<c>>, i, i, i)
  BY <1>5 DEF Under, To, Tag, Held, SameTag
<1>. QED
  BY <1>4, <1>6 DEF t, AttrNameEnds

\* its name is read,
NameIsRead(s, j, w) == j \in 1 .. Len(s) /\ Tokens(s)[j] = AfterName(w, j, s[j])

\* parseStartTag and the browser end the name of an attribute at the same
\* character,
LEMMA NameRead ==
    ASSUME NEW s, Calm(s), NEW i, NEW u, Resumes(s, i, u), s[i] \notin TagNameEnds,
           NEW nameEnd, nameEnd = FirstOf(s, i, AttrNameEnds)
    PROVE  /\ nameEnd \in i + 1 .. Len(s)
           /\ \E w : /\ NameIsRead(s, nameEnd, w) /\ Held(w, u)
                     /\ w.tag.attr = Attr(SubSeq(s, i, nameEnd - 1), i, nameEnd, nameEnd)
<1>0. /\ s[i] \notin AttrNameEnds /\ Tokens(s)[i].mode = "attrName" /\ Held(Tokens(s)[i], u)
      /\ Tokens(s)[i].tag.attr = Attr(<<s[i]>>, i, i, i)
  BY BeginsAttribute
<1>1. Len(s) \in Nat /\ i \in Nat /\ i \in 1 .. Len(s) /\ i \in 1 .. Len(s) + 1
  BY CalmLen DEF Resumes
<1>2. nameEnd \in i .. Len(s) + 1
  BY <1>1, FirstOfRange
<1>3. \A k \in i .. nameEnd - 1 : s[k] \notin AttrNameEnds
  BY <1>1, FirstOfRange
<1>4. nameEnd <= Len(s) => s[nameEnd] \in AttrNameEnds
  BY <1>1, FirstOfRange
<1>5. nameEnd # i
  BY <1>0, <1>1, <1>4
<1> DEFINE q == nameEnd - 1
           t == Tokens(s)[q]
<1>6. q \in i .. Len(s) /\ q \in 0 .. Len(s) /\ q + 1 = nameEnd /\ q \in Nat
  BY <1>1, <1>2, <1>5
<1>7. \A k \in i + 1 .. q : s[k] \notin AttrNameEnds
  BY <1>1, <1>3
<1>8. /\ t.mode = "attrName" /\ Held(t, Tokens(s)[i])
      /\ t.tag.attr.name = SubSeq(s, i, q) /\ t.tag.attr.start = i
  BY <1>0, <1>1, <1>6, <1>7, AttrNameRun
<1>9. q \in 0 .. Len(s) - 1 /\ nameEnd \in 1 .. Len(s)
  BY <1>6, <1>8, GoesOn DEF Outside
<1>10. Tokens(s)[nameEnd] = Read(t, nameEnd, s[nameEnd])
  BY <1>6, <1>9, OneStep
<1>11. Held(t, u)
  BY <1>0, <1>8 DEF Held, SameTag
<1> HIDE DEF t
<1>12. Read(t, nameEnd, s[nameEnd]) = AttrName(t, nameEnd, s[nameEnd])
  BY <1>8, ReadTag
<1>13. Tokens(s)[nameEnd] = AfterName(Named(t, nameEnd), nameEnd, s[nameEnd])
  BY <1>4, <1>9, <1>10, <1>12 DEF AttrName
<1> DEFINE w == Named(t, nameEnd)
<1>14. Held(w, t) /\ w.tag.attr = Attr(t.tag.attr.name, t.tag.attr.start, nameEnd, nameEnd)
  BY DEF Named, Under, To, Tag, Held, SameTag
<1>15. NameIsRead(s, nameEnd, w)
  BY <1>9, <1>13 DEF NameIsRead
<1> HIDE DEF w
<1>16. Held(w, u)
  BY <1>11, <1>14 DEF Held, SameTag
<1>17. w.tag.attr = Attr(SubSeq(s, i, nameEnd - 1), i, nameEnd, nameEnd)
  BY <1>8, <1>14
<1>18. nameEnd \in i + 1 .. Len(s)
  BY <1>1, <1>2, <1>5, <1>9
<1>. QED
  BY <1>15, <1>16, <1>17, <1>18

\* skip the same blanks after it,
LEMMA PastNameBlanks ==
    ASSUME NEW s, Calm(s), NEW j, NEW w, NameIsRead(s, j, w),
           NEW e, e = FirstNotOf(s, j, {Blank})
    PROVE  \E v : NameIsRead(s, e, v) /\ v.tag = w.tag /\ v.tags = w.tags
<1>1. Len(s) \in Nat /\ j \in Nat /\ j \in 1 .. Len(s) /\ j \in 1 .. Len(s) + 1
  BY CalmLen DEF NameIsRead
<1>2. e \in j .. Len(s) + 1
  BY <1>1, FirstNotOfRange
<1>3. \A k \in j .. e - 1 : s[k] \in {Blank}
  BY <1>1, FirstNotOfRange
<1>4. CASE e = j
  BY <1>4
<1>5. CASE e # j
  <2>1. /\ e - 1 \in j .. Len(s) /\ j \in 0 .. Len(s) /\ j \in j .. e - 1
        /\ e - 1 \in 0 .. Len(s) /\ e - 1 + 1 = e
    BY <1>1, <1>2, <1>5
  <2>2. Tokens(s)[j] = In(w, "afterName")
    <3>1. s[j] = Blank
      BY <1>3, <2>1
    <3>. QED
      BY <3>1, AfterNameReads DEF NameIsRead
  <2>3. Tokens(s)[j].mode = "afterName" /\ Tokens(s)[j].tag = w.tag /\ Tokens(s)[j].tags = w.tags
    BY <2>2 DEF In, To
  <2>4. \A k \in j + 1 .. e - 1 : s[k] \in {Blank}
    <3>1. e \in Nat
      BY <1>1, <1>2
    <3>2. \A k \in j + 1 .. e - 1 : k \in j .. e - 1
      BY <1>1, <3>1
    <3>. QED
      BY <1>3, <3>2
  <2> DEFINE v == Tokens(s)[e - 1]
  <2>5. v.mode = "afterName" /\ v.tag = w.tag /\ v.tags = w.tags
    <3> DEFINE mode == "afterName"
    <3>1. mode \in {"afterName", "beforeValue"} /\ Tokens(s)[j].mode = mode
      BY <2>3
    <3> HIDE DEF mode
    <3>2. v.mode = mode /\ v.tag = Tokens(s)[j].tag /\ v.tags = Tokens(s)[j].tags
      BY <2>1, <2>4, <3>1, BlankRun
    <3>. QED
      BY <2>3, <3>2 DEF mode
  <2>6. e - 1 \in 0 .. Len(s) - 1 /\ e \in 1 .. Len(s)
    BY <2>1, <2>5, GoesOn DEF Outside
  <2>7. Tokens(s)[e] = Read(v, e, s[e])
    BY <2>1, <2>6, OneStep
  <2>8. Read(v, e, s[e]) = AfterName(v, e, s[e])
    BY <2>5, ReadTag
  <2>. QED
    BY <2>5, <2>6, <2>7, <2>8 DEF NameIsRead
<1>. QED
  BY <1>4, <1>5

\* and its value, through which the state stays as it is.
LEMMA StillRun ==
    ASSUME NEW s, Calm(s), NEW j \in 0 .. Len(s), NEW q \in j .. Len(s),
           \A k \in j + 1 .. q : Read(Tokens(s)[j], k, s[k]) = Tokens(s)[j]
    PROVE  Tokens(s)[q] = Tokens(s)[j]
<1> DEFINE P == {k \in Nat : Tokens(s)[k] = Tokens(s)[j]}
<1>1. Len(s) \in Nat /\ j \in Nat /\ q \in Nat
  BY CalmLen
<1>2. j \in P
  BY <1>1
<1>3. ASSUME NEW k \in j .. q - 1, k \in P PROVE k + 1 \in P
  <2>1. k \in 0 .. Len(s) - 1 /\ k + 1 \in Nat /\ k + 1 \in j + 1 .. q
    BY <1>1
  <2>2. Tokens(s)[k + 1] = Read(Tokens(s)[k], k + 1, s[k + 1])
    BY <2>1, OneStep
  <2>. QED
    BY <1>3, <2>1, <2>2
<1>4. \A k \in j .. q : k \in P
  <2> HIDE DEF P
  <2>. QED
    BY <1>1, <1>2, <1>3, Along
<1>. QED
  BY <1>1, <1>4

\* The tag gains an attribute.
Gains(v, u, a) == SameTag(v, u) /\ v.tag.attrs = u.tag.attrs \cup {a}
\* What is known of the attribute that is under way in u is what a knows.
Begun(a, u) ==
    a.name = u.tag.attr.name /\ a.start = u.tag.attr.start /\ a.nameEnd = u.tag.attr.nameEnd

\* end a quoted value at the same quote,
LEMMA QuotedRead ==
    ASSUME NEW s, Calm(s), NEW value \in 1 .. Len(s), NEW u, NEW a, Begun(a, u),
           s[value] \in Quotes, Tokens(s)[value] = ValueAt(u, s[value], value + 1)
    PROVE  LET b == QuotedValue(s, a, value + 1, FirstOf(s, value + 1, {s[value]}))
           IN  \E v : Resumes(s, b.end, v) /\ Gains(v, u, b)
<1> DEFINE last == FirstOf(s, value + 1, {s[value]})
           t == Tokens(s)[value]
           b == QuotedValue(s, a, value + 1, last)
<1>1. Len(s) \in Nat /\ value \in Nat /\ value + 1 \in 1 .. Len(s) + 1 /\ value \in 0 .. Len(s)
  BY CalmLen
<1>2. last \in value + 1 .. Len(s) + 1
  BY <1>1, FirstOfRange
<1>3. \A k \in value + 1 .. last - 1 : s[k] \notin {s[value]}
  BY <1>1, FirstOfRange
<1>4. last <= Len(s) => s[last] \in {s[value]}
  BY <1>1, FirstOfRange
<1> HIDE DEF last
<1>5. t.mode = s[value] /\ SameTag(t, u) /\ t.tag.attrs = u.tag.attrs
      /\ t.tag.attr = Attr(u.tag.attr.name, u.tag.attr.start, u.tag.attr.nameEnd, value + 1)
  BY DEF ValueAt, Under, To, Tag, SameTag
<1>5a. t.mode \in Quotes
  BY <1>5
<1>6. \A k \in value + 1 .. last - 1 : Read(t, k, s[k]) = t
  <2> HIDE DEF t
  <2>. QED
    BY <1>3, <1>5, <1>5a, ReadTag
<1>7. last - 1 \in value .. Len(s) /\ last - 1 \in 0 .. Len(s) /\ last - 1 + 1 = last /\ last \in Nat
  BY <1>1, <1>2
<1>8. Tokens(s)[last - 1] = t
  BY <1>1, <1>6, <1>7, StillRun
<1>9. last - 1 \in 0 .. Len(s) - 1 /\ last \in 1 .. Len(s)
  <2>1. t.mode \notin Outside
    BY <1>5a, QuotesApart DEF Outside, PlainModes
  <2>. QED
    BY <1>7, <1>8, <2>1, GoesOn
<1>10. Tokens(s)[last] = In(Quoted(t, last), "afterQuoted")
  <2>1. Tokens(s)[last] = Read(t, last, s[last])
    BY <1>7, <1>8, <1>9, OneStep
  <2>2. s[last] = t.mode
    BY <1>4, <1>5, <1>9
  <2> HIDE DEF t
  <2>. QED
    BY <1>5a, <2>1, <2>2, ReadTag
<1> DEFINE v == Tokens(s)[last]
<1> HIDE DEF t
<1>11. v.mode = "afterQuoted" /\ SameTag(v, t)
       /\ v.tag.attrs = t.tag.attrs \cup {Complete(t.tag.attr, TRUE, TRUE, last, last + 1)}
  <2> DEFINE w == Quoted(t, last)
  <2>1. v = In(w, "afterQuoted")
    BY <1>10
  <2>2. SameTag(w, t)
        /\ w.tag.attrs = t.tag.attrs \cup {Complete(t.tag.attr, TRUE, TRUE, last, last + 1)}
    BY DEF Quoted, Has, To, Tag, SameTag
  <2> HIDE DEF v, w
  <2>3. v.mode = "afterQuoted" /\ v.tag = w.tag /\ v.tags = w.tags
    BY <2>1 DEF In, To
  <2>. QED
    BY <2>2, <2>3 DEF SameTag
<1>12. last \in 0 .. Len(s) - 1 /\ last + 1 \in 1 .. Len(s)
  <2>1. last \in 0 .. Len(s)
    BY <1>1, <1>9
  <2>. QED
    BY <1>11, <2>1, GoesOn DEF Outside
<1>13. Resumes(s, last + 1, v)
  <2>1. Tokens(s)[last + 1] = Read(v, last + 1, s[last + 1])
    BY <1>12, OneStep
  <2>2. Read(v, last + 1, s[last + 1]) = BeforeAttr(v, last + 1, s[last + 1])
    BY <1>11, ReadTag
  <2>. QED
    BY <1>12, <2>1, <2>2 DEF Resumes
<1>14. b.end = last + 1
  BY <1>9 DEF QuotedValue, WithValue
<1>15. b = Complete(t.tag.attr, TRUE, TRUE, last, last + 1)
  BY <1>5, <1>9 DEF QuotedValue, WithValue, Complete, Begun, Attr
<1> HIDE DEF v, b
<1>16. Gains(v, u, b)
  BY <1>5, <1>11, <1>15 DEF Gains, SameTag
<1>. QED
  BY <1>13, <1>14, <1>16 DEF b, last

\* an unquoted one at the same end,
LEMMA UnquotedRead ==
    ASSUME NEW s, Calm(s), NEW value \in 1 .. Len(s), NEW u, NEW a, Begun(a, u),
           s[value] \notin Quotes \cup {Blank}, Tokens(s)[value] = BeforeValue(u, value, s[value])
    PROVE  LET b == UnquotedValue(a, value, FirstOf(s, value, UnquotedEnds))
           IN  \E v : Resumes(s, b.end, v) /\ Gains(v, u, b)
<1> DEFINE last == FirstOf(s, value, UnquotedEnds)
           t == ValueAt(u, "unquoted", value)
           b == UnquotedValue(a, value, last)
           v == Valued(t, last)
<1>1. Len(s) \in Nat /\ value \in Nat /\ value \in 1 .. Len(s) + 1 /\ value \in 0 .. Len(s)
  BY CalmLen
<1>2. last \in value .. Len(s) + 1
  BY <1>1, FirstOfRange
<1>3. \A k \in value .. last - 1 : s[k] \notin UnquotedEnds
  BY <1>1, FirstOfRange
<1>4. last <= Len(s) => s[last] \in UnquotedEnds
  BY <1>1, FirstOfRange
<1> HIDE DEF last
<1>5. /\ t.mode = "unquoted" /\ SameTag(t, u) /\ t.tag.attrs = u.tag.attrs
      /\ t.tag.attr = Attr(u.tag.attr.name, u.tag.attr.start, u.tag.attr.nameEnd, value)
  BY DEF ValueAt, Under, To, Tag, SameTag
<1>6. /\ SameTag(v, t)
      /\ v.tag.attrs = t.tag.attrs \cup {Complete(t.tag.attr, TRUE, FALSE, last, last)}
  BY DEF Valued, Has, To, Tag, SameTag
<1>7. Resumes(s, last, v)
  <2>1. CASE s[value] = ">"
    <3>1. value \in value .. last - 1 => s[value] \notin UnquotedEnds
      BY <1>3
    <3>2. last = value
      BY <1>1, <1>2, <2>1, <3>1 DEF UnquotedEnds
    <3>3. Tokens(s)[value] = Emits(v)
      BY <2>1, <3>2, BeforeValueReads
    <3>4. BeforeAttr(v, value, ">") = Emits(v)
      BY BeforeAttrReads
    <3>. QED
      BY <2>1, <3>2, <3>3, <3>4 DEF Resumes
  <2>2. CASE s[value] # ">"
    <3>1. Tokens(s)[value] = t
      BY <2>2, BeforeValueReads DEF UnquotedEnds
    <3>2. last # value
      BY <1>1, <1>4, <2>2 DEF UnquotedEnds
    <3>3. /\ last - 1 \in value .. Len(s) /\ last - 1 \in 0 .. Len(s)
          /\ last - 1 + 1 = last /\ last \in Nat
      BY <1>1, <1>2, <3>2
    <3> HIDE DEF t, v
    <3>4. \A k \in value + 1 .. last - 1 : Read(t, k, s[k]) = t
      <4>1. \A k \in value + 1 .. last - 1 : k \in value .. last - 1
        BY <1>1, <3>3
      <4>2. \A k \in value + 1 .. last - 1 : s[k] \notin UnquotedEnds
        BY <1>3, <4>1
      <4>3. \A k \in Nat : \A c : Read(t, k, c) = Unquoted(t, k, c)
        BY <1>5, ReadTag
      <4>4. \A k \in Nat : \A c : c \notin UnquotedEnds => Unquoted(t, k, c) = t
        BY DEF Unquoted
      <4>5. \A k \in value + 1 .. last - 1 : k \in Nat
        BY <1>1, <3>3
      <4>. QED
        BY <4>2, <4>3, <4>4, <4>5
    <3>5. Tokens(s)[last - 1] = t
      BY <1>1, <3>1, <3>3, <3>4, StillRun
    <3>6. last - 1 \in 0 .. Len(s) - 1 /\ last \in 1 .. Len(s)
      BY <1>5, <3>3, <3>5, GoesOn DEF Outside
    <3>7. Tokens(s)[last] = Read(t, last, s[last])
      BY <3>3, <3>5, <3>6, OneStep
    <3>8. Read(t, last, s[last]) = Unquoted(t, last, s[last])
      BY <1>5, ReadTag
    <3>9. Unquoted(t, last, s[last]) = BeforeAttr(v, last, s[last])
      BY <1>4, <3>6 DEF Unquoted, v
    <3>. QED
      BY <3>6, <3>7, <3>8, <3>9 DEF Resumes
  <2>. QED
    BY <2>1, <2>2
<1>8. b.end = last
  BY DEF UnquotedValue, WithValue
<1> HIDE DEF t, v
<1>9. b = Complete(t.tag.attr, TRUE, FALSE, last, last)
  BY <1>5 DEF UnquotedValue, WithValue, Complete, Begun, Attr
<1> HIDE DEF b
<1>10. Gains(v, u, b)
  BY <1>5, <1>6, <1>9 DEF Gains, SameTag
<1>. QED
  BY <1>7, <1>8, <1>10 DEF b, last

\* and hence any value at the same place.
LEMMA ValueRead ==
    ASSUME NEW s, Calm(s), NEW e \in 1 .. Len(s), NEW u, NEW a, Begun(a, u),
           Tokens(s)[e] = In(u, "beforeValue"),
           NEW value, value = FirstNotOf(s, e + 1, {Blank})
    PROVE  LET b == Value(s, a, value) IN \E v : Resumes(s, b.end, v) /\ Gains(v, u, b)
<1>1. /\ Tokens(s)[e].mode = "beforeValue"
      /\ Tokens(s)[e].tag = u.tag /\ Tokens(s)[e].tags = u.tags
  BY DEF In, To
<1>2. Len(s) \in Nat /\ e \in Nat /\ e \in 0 .. Len(s)
  BY CalmLen
<1>3. e \in 0 .. Len(s) - 1 /\ e + 1 \in 1 .. Len(s) + 1
  <2>1. e \in 0 .. Len(s) - 1
    BY <1>1, <1>2, GoesOn DEF Outside
  <2>. QED
    BY <1>2, <2>1
<1>4. value \in e + 1 .. Len(s) + 1
  BY <1>2, <1>3, FirstNotOfRange
<1>5. \A k \in e + 1 .. value - 1 : s[k] \in {Blank}
  BY <1>2, <1>3, FirstNotOfRange
<1>6. value <= Len(s) => s[value] \notin {Blank}
  BY <1>2, <1>3, FirstNotOfRange
<1>7. value - 1 \in e .. Len(s) /\ value - 1 \in 0 .. Len(s) /\ value - 1 + 1 = value
  BY <1>2, <1>4
<1> DEFINE z == Tokens(s)[value - 1]
<1>8. z.mode = "beforeValue" /\ z.tag = u.tag /\ z.tags = u.tags
  <2> DEFINE mode == "beforeValue"
  <2>1. mode \in {"afterName", "beforeValue"} /\ Tokens(s)[e].mode = mode
    BY <1>1
  <2> HIDE DEF mode
  <2> DEFINE j == e
             q == value - 1
  <2>2. j \in 0 .. Len(s) /\ q \in j .. Len(s) /\ \A k \in j + 1 .. q : s[k] \in {Blank}
    BY <1>2, <1>5, <1>7
  <2>2a. Tokens(s)[j].mode = mode
    BY <2>1
  <2> HIDE DEF j, q
  <2>2b. /\ Tokens(s)[q].mode = mode /\ Tokens(s)[q].tag = Tokens(s)[j].tag
         /\ Tokens(s)[q].tags = Tokens(s)[j].tags
    BY <2>1, <2>2, <2>2a, BlankRun
  <2>3. z.mode = mode /\ z.tag = Tokens(s)[e].tag /\ z.tags = Tokens(s)[e].tags
    BY <2>2b DEF j, q
  <2>. QED
    BY <1>1, <2>3 DEF mode
<1>9. value - 1 \in 0 .. Len(s) - 1 /\ value \in 1 .. Len(s)
  BY <1>7, <1>8, GoesOn DEF Outside
<1>10. Tokens(s)[value] = Read(z, value, s[value])
  BY <1>7, <1>9, OneStep
<1> HIDE DEF z
<1>11. Tokens(s)[value] = BeforeValue(z, value, s[value])
  BY <1>8, <1>10, ReadTag
<1>12. Begun(a, z)
  BY <1>8 DEF Begun
<1>13. \A v, b : Gains(v, z, b) => Gains(v, u, b)
  BY <1>8 DEF Gains, SameTag
<1>14. CASE s[value] \in Quotes
  <2>1. Tokens(s)[value] = ValueAt(z, s[value], value + 1)
    BY <1>11, <1>14, BeforeValueReads
  <2> DEFINE b == QuotedValue(s, a, value + 1, FirstOf(s, value + 1, {s[value]}))
  <2>2. PICK v : Resumes(s, b.end, v) /\ Gains(v, z, b)
    BY <1>9, <1>12, <1>14, <2>1, QuotedRead
  <2>3. Value(s, a, value) = b
    BY <1>2, <1>9, <1>14 DEF Value
  <2>. QED
    BY <1>13, <2>2, <2>3
<1>15. CASE s[value] \notin Quotes
  <2>1. s[value] \notin Quotes \cup {Blank}
    BY <1>2, <1>6, <1>9, <1>15
  <2> DEFINE b == UnquotedValue(a, value, FirstOf(s, value, UnquotedEnds))
  <2>2. PICK v : Resumes(s, b.end, v) /\ Gains(v, z, b)
    BY <1>9, <1>11, <1>12, <2>1, UnquotedRead
  <2>3. Value(s, a, value) = b
    BY <1>15 DEF Value
  <2>. QED
    BY <1>13, <2>2, <2>3
<1>. QED
  BY <1>14, <1>15

\* One attribute of a start tag.
LEMMA AttributeRead ==
    ASSUME NEW s, Calm(s), NEW i, NEW u, Resumes(s, i, u), s[i] \notin TagNameEnds
    PROVE  /\ ~u.tag.closing /\ Attribute(s, i).name # <<>>
           /\ \E v : /\ Resumes(s, FirstNotOf(s, Attribute(s, i).end, {Blank}), v)
                     /\ Gains(v, u, Attribute(s, i))
<1> DEFINE nameEnd == FirstOf(s, i, AttrNameEnds)
           e == FirstNotOf(s, nameEnd, {Blank})
           a == Valueless(s, i, nameEnd)
           b == Attribute(s, i)
<1>1. ~u.tag.closing
  BY BeginsAttribute
<1>2. nameEnd \in i + 1 .. Len(s) /\ \E w : /\ NameIsRead(s, nameEnd, w) /\ Held(w, u)
                     /\ w.tag.attr = Attr(SubSeq(s, i, nameEnd - 1), i, nameEnd, nameEnd)
  BY NameRead
<1>3. PICK w : /\ NameIsRead(s, nameEnd, w) /\ Held(w, u)
               /\ w.tag.attr = Attr(SubSeq(s, i, nameEnd - 1), i, nameEnd, nameEnd)
  BY <1>2
<1> HIDE DEF nameEnd
<1>4. PICK v : NameIsRead(s, e, v) /\ v.tag = w.tag /\ v.tags = w.tags
  BY <1>3, PastNameBlanks
<1>5. Len(s) \in Nat /\ i \in Nat /\ i \in 1 .. Len(s) /\ nameEnd \in 1 .. Len(s) + 1
      /\ s \in Seq(STRING)
  BY <1>2, CalmLen DEF Resumes
<1>6. e \in 1 .. Len(s) /\ Tokens(s)[e] = AfterName(v, e, s[e])
  BY <1>4 DEF NameIsRead
<1>7. s[e] \notin {Blank}
  BY <1>5, <1>6, FirstNotOfRange
<1>8. b = IF e <= Len(s) /\ s[e] = "=" THEN Value(s, a, FirstNotOf(s, e + 1, {Blank})) ELSE a
  BY DEF Attribute, PastAttribute, PastName, Valueless, nameEnd
<1>9. a.name = SubSeq(s, i, nameEnd - 1) /\ a.name # <<>> /\ a.end = nameEnd
  <2> DEFINE name == SubSeq(s, i, nameEnd - 1)
  <2>1. a.name = name /\ a.end = nameEnd
    BY DEF Valueless
  <2>2. Len(name) > 0
    BY <1>2, <1>5
  <2> HIDE DEF a, name
  <2>3. name # <<>>
    BY <2>2
  <2>. QED
    BY <2>1, <2>3 DEF name
<1>10. v.tag.attr = Attr(SubSeq(s, i, nameEnd - 1), i, nameEnd, nameEnd) /\ Held(v, u)
  BY <1>3, <1>4 DEF Held, SameTag
<1>11. Begun(a, v)
  <2> DEFINE name == SubSeq(s, i, nameEnd - 1)
  <2>1. a.name = name /\ a.start = i /\ a.nameEnd = nameEnd
    BY DEF Valueless
  <2>2. v.tag.attr = Attr(name, i, nameEnd, nameEnd)
    BY <1>10
  <2> HIDE DEF name, a
  <2>3. v.tag.attr.name = name /\ v.tag.attr.start = i /\ v.tag.attr.nameEnd = nameEnd
    BY <2>2 DEF Attr
  <2>. QED
    BY <2>1, <2>3 DEF Begun
<1>12. a = Complete(v.tag.attr, FALSE, FALSE, v.tag.attr.nameEnd, v.tag.attr.nameEnd)
  BY <1>10 DEF Complete, Valueless, Attr
<1> HIDE DEF e, a, b
<1>13. CASE s[e] = "="
  <2> DEFINE value == FirstNotOf(s, e + 1, {Blank})
  <2>1. Tokens(s)[e] = In(v, "beforeValue")
    BY <1>6, <1>13, AfterNameReads
  <2>2. b = Value(s, a, value)
    BY <1>5, <1>6, <1>8, <1>13
  <2>3. PICK x : Resumes(s, b.end, x) /\ Gains(x, v, b)
    BY <1>6, <1>11, <2>1, <2>2, ValueRead
  <2> HIDE DEF value
  <2>4. PICK y : Resumes(s, FirstNotOf(s, b.end, {Blank}), y) /\ Held(y, x)
    BY <2>3, PastBlanks
  <2>5. Gains(y, u, b)
    BY <1>10, <2>3, <2>4 DEF Gains, Held, SameTag
  <2>6. b.name = a.name
    BY <2>2 DEF Value, QuotedValue, UnquotedValue, WithValue
  <2>. QED
    BY <1>1, <1>9, <2>4, <2>5, <2>6 DEF b
<1>14. CASE s[e] # "="
  <2>1. b = a
    BY <1>8, <1>14
  <2>2. Tokens(s)[e] = BeforeAttr(Bare(v), e, s[e])
    BY <1>6, <1>7, <1>14, AfterNameReads
  <2>3. Resumes(s, e, Bare(v))
    BY <1>6, <2>2 DEF Resumes
  <2>4. Gains(Bare(v), v, b)
    BY <1>12, <2>1 DEF Bare, Has, To, Tag, Gains, SameTag
  <2>5. Gains(Bare(v), u, b)
    BY <1>10, <2>4 DEF Gains, Held, SameTag
  <2>6. FirstNotOf(s, b.end, {Blank}) = e
    BY <1>9, <2>1 DEF e
  <2>. QED
    BY <1>1, <1>9, <2>1, <2>3, <2>5, <2>6 DEF b
<1>. QED
  BY <1>13, <1>14

\* The tag of u ends, with the attributes of tag besides, where tag does.
AttrsOf(tag) == {tag.attrs[k] : k \in 1 .. Len(tag.attrs)}
EndedBy(t, u, attrs) ==
    /\ t.tags = u.tags \cup {[name |-> u.tag.name, attrs |-> u.tag.attrs \cup attrs]}
    /\ u.tag.name \in rawText => t.mode = "raw" /\ t.within = u.tag.name
    /\ u.tag.name \notin rawText => t.mode = "data"
TagEnded(s, u, tag) ==
    /\ tag.end - 1 \in 1 .. Len(s)
    /\ EndedBy(Tokens(s)[tag.end - 1], u, AttrsOf(tag))
    /\ tag.selfClosing => u.tag.name \notin rawText

\* A '>' completes the tag with the attributes it has.
LEMMA EmitsEnds ==
    ASSUME NEW u, ~u.tag.closing
    PROVE  EndedBy(Emits(u), u, {})
<1> DEFINE t == Emits(u)
<1>1. t.tags = u.tags \cup {[name |-> u.tag.name, attrs |-> u.tag.attrs]}
  BY DEF Emits
<1>2. t.mode = IF u.tag.name \in rawText THEN "raw" ELSE "data"
  BY DEF Emits, IsRaw
<1>3. u.tag.name \in rawText => t.within = u.tag.name
  BY DEF Emits, IsRaw
<1>4. u.tag.attrs \cup {} = u.tag.attrs
  OBVIOUS
<1> HIDE DEF t
<1>. QED
  BY <1>1, <1>2, <1>3, <1>4 DEF EndedBy, t

LEMMA TagEndsHere ==
    ASSUME NEW s, NEW u, ~u.tag.closing, NEW at \in Nat, NEW selfClosing \in BOOLEAN,
           at - 1 \in 1 .. Len(s), EndedBy(Tokens(s)[at - 1], u, {}),
           selfClosing => u.tag.name \notin rawText
    PROVE  TagEnded(s, u, TagEnds(at, selfClosing))
<1> DEFINE tag == TagEnds(at, selfClosing)
<1>1. tag.end = at /\ tag.selfClosing = selfClosing /\ tag.attrs = <<>>
  BY DEF TagEnds
<1> HIDE DEF tag
<1>2. AttrsOf(tag) = {}
  BY <1>1 DEF AttrsOf
<1>. QED
  BY <1>1, <1>2 DEF TagEnded, tag

\* A tag ended after one more attribute has that one too.
LEMMA EndedWith ==
    ASSUME NEW s, NEW u, NEW v, NEW a \in Attributes, a.name # <<>>, Gains(v, u, a),
           NEW tag \in Rests, TagEnded(s, v, tag)
    PROVE  TagEnded(s, u, WithAttribute(a, tag))
<1> DEFINE t == WithAttribute(a, tag)
           b == tag.attrs
<1>1. t = [tag EXCEPT !.attrs = <<a>> \o b]
  BY DEF WithAttribute
<1>2. t.attrs = <<a>> \o b /\ t.end = tag.end /\ t.selfClosing = tag.selfClosing
  BY <1>1 DEF Rests
<1>3. b \in Seq(Attributes)
  BY DEF Rests
<1> DEFINE c == <<a>> \o b
<1>4. /\ Len(b) \in Nat /\ Len(c) = Len(b) + 1
      /\ c[1] = a /\ \A k \in 1 .. Len(b) : c[k + 1] = b[k]
  <2>1. <<a>> \in Seq(Attributes) /\ Len(<<a>>) = 1
    OBVIOUS
  <2>. QED
    BY <1>3, <2>1
<1> HIDE DEF t, b, c
<1>5. {c[k] : k \in 1 .. Len(c)} = {a} \cup {b[k] : k \in 1 .. Len(b)}
  <2>1. ASSUME NEW k \in 1 .. Len(c), k # 1 PROVE k - 1 \in 1 .. Len(b) /\ c[k] = b[k - 1]
    <3>1. k - 1 \in 1 .. Len(b) /\ k - 1 + 1 = k
      BY <1>4, <2>1
    <3>. QED
      BY <1>4, <3>1
  <2>2. 1 \in 1 .. Len(c) /\ \A k \in 1 .. Len(b) : k + 1 \in 1 .. Len(c)
    BY <1>4
  <2>. QED
    BY <1>4, <2>1, <2>2
<1>6. AttrsOf(t) = {a} \cup AttrsOf(tag)
  BY <1>2, <1>5 DEF AttrsOf, b, c
<1>7. v.tag.attrs \cup AttrsOf(tag) = u.tag.attrs \cup AttrsOf(t)
  BY <1>6 DEF Gains
<1>8. v.tag.name = u.tag.name /\ v.tags = u.tags
  BY DEF Gains, SameTag
<1>9. \A x : EndedBy(x, v, AttrsOf(tag)) => EndedBy(x, u, AttrsOf(t))
  BY <1>7, <1>8 DEF EndedBy
<1>. QED
  BY <1>2, <1>8, <1>9 DEF TagEnded, t

LEMMA EndedHeld ==
    ASSUME NEW s, NEW u, NEW v, Held(v, u), NEW tag, TagEnded(s, v, tag)
    PROVE  TagEnded(s, u, tag)
<1>1. v.tag.name = u.tag.name /\ v.tags = u.tags /\ v.tag.attrs = u.tag.attrs
  BY DEF Held, SameTag
<1>2. \A x : EndedBy(x, v, AttrsOf(tag)) => EndedBy(x, u, AttrsOf(tag))
  BY <1>1 DEF EndedBy
<1>. QED
  BY <1>1, <1>2 DEF TagEnded

\* The rest of a start tag.
LEMMA SlashRead ==
    ASSUME NEW s, Calm(s), NEW i, NEW u, Resumes(s, i, u), s[i] = "/"
    PROVE  /\ i + 1 \in 1 .. Len(s) /\ i \in Nat
           /\ s[i + 1] # ">" => Resumes(s, i + 1, In(u, "slash"))
           /\ s[i + 1] = ">" /\ ~u.tag.closing =>
                /\ EndedBy(Tokens(s)[i + 1], u, {}) /\ u.tag.name \notin rawText
<1> DEFINE t == In(u, "slash")
           c == s[i + 1]
<1>1. i \in 1 .. Len(s) /\ Len(s) \in Nat /\ i \in 0 .. Len(s) /\ i \in Nat
  BY CalmLen DEF Resumes
<1>2. Tokens(s)[i] = t
  BY BeforeAttrReads DEF Resumes
<1>3. t.mode = "slash" /\ t.tag = u.tag /\ t.tags = u.tags
  BY DEF In, To
<1>4. i \in 0 .. Len(s) - 1 /\ i + 1 \in 1 .. Len(s)
  BY <1>1, <1>2, <1>3, GoesOn DEF Outside
<1>5. Tokens(s)[i + 1] = Read(t, i + 1, c) /\ ~Tokens(s)[i + 1].odd
  BY <1>2, <1>4, OneStep
<1> HIDE DEF t, c
<1>6. Read(t, i + 1, c) = IF c = ">" THEN EmitsSlashed(t) ELSE BeforeAttr(t, i + 1, c)
  BY <1>3, ReadTag
<1>7. ASSUME c # ">" PROVE Resumes(s, i + 1, t)
  BY <1>4, <1>5, <1>6, <1>7 DEF Resumes, c
<1>8. ASSUME c = ">", ~u.tag.closing
      PROVE  EndedBy(Tokens(s)[i + 1], u, {}) /\ u.tag.name \notin rawText
  <2>1. Tokens(s)[i + 1] = EmitsSlashed(t)
    BY <1>5, <1>6, <1>8
  <2>2. ~IsRaw(t)
    <3>1. SUFFICES ASSUME IsRaw(t) PROVE FALSE
      OBVIOUS
    <3>2. EmitsSlashed(t) = Emits(Odd(t))
      BY <3>1 DEF EmitsSlashed
    <3>3. Emits(Odd(t)).odd
      BY DEF Emits, Odd
    <3>. QED
      BY <1>5, <2>1, <3>2, <3>3
  <2>3. Tokens(s)[i + 1] = Emits(t)
    BY <2>1, <2>2 DEF EmitsSlashed
  <2>4. ~t.tag.closing /\ u.tag.name \notin rawText
    BY <1>3, <1>8, <2>2 DEF IsRaw
  <2>5. EndedBy(Tokens(s)[i + 1], t, {})
    BY <2>3, <2>4, EmitsEnds
  <2>. QED
    BY <1>3, <2>4, <2>5 DEF EndedBy
<1>. QED
  BY <1>1, <1>4, <1>7, <1>8 DEF t, c

\* parseStartTag reads of a tag, from any attribute on, what the browser
\* reads,
LEMMA TagRead ==
    ASSUME NEW s, Calm(s), NEW from \in 1 .. Len(s), NEW u, ~u.tag.closing,
           Resumes(s, FirstNotOf(s, from, {Blank}), u)
    PROVE  TagEnded(s, u, TagRest(s, from))
<1> DEFINE n == Len(s) + 1
           D == from .. n
           past(j) == FirstNotOf(s, j, {Blank})
<1>1. Len(s) \in Nat /\ n \in Nat /\ from \in Nat /\ n = Len(s) + 1 /\ from \in D
      /\ s \in Seq(STRING) /\ from \in 1 .. Len(s) + 1
  BY CalmLen
<1>2. PICK rest \in [D -> Rests] :
        /\ TagRest(s, from) = rest[from]
        /\ \A j \in D : rest[j] = TagFrom(s, rest, FirstNotOf(s, j, {Blank}))
  BY <1>1, TagRestSteps
<1> HIDE DEF n
<1> DEFINE Here(j) ==
             \A v : Resumes(s, past(j), v) /\ ~v.tag.closing => TagEnded(s, v, rest[j])
           T == {m \in Nat : \A j \in D : j > n - m => Here(j)}
<1>3. 0 \in T
  BY <1>1
<1>4. ASSUME NEW m \in T \cap Nat PROVE m + 1 \in T
  <2> HIDE DEF Here
  <2>. SUFFICES ASSUME NEW j \in D, j > n - (m + 1) PROVE Here(j)
    OBVIOUS
  <2>. SUFFICES ASSUME NEW v, Resumes(s, past(j), v), ~v.tag.closing
                PROVE  TagEnded(s, v, rest[j])
    BY DEF Here
  <2> DEFINE i == past(j)
  <2>1. j \in 1 .. Len(s) + 1 /\ j \in Nat
    BY <1>1
  <2>2. i \in j .. Len(s) + 1
    BY <1>1, <2>1, FirstNotOfRange
  <2>3. NotBlank(s, i)
    <3>1. i <= Len(s) => s[i] \notin {Blank}
      BY <1>1, <2>1, FirstNotOfRange
    <3>. QED
      BY <3>1 DEF NotBlank
  <2>4. rest[j] = TagFrom(s, rest, i)
    BY <1>2
  <2>4a. Resumes(s, i, v)
    OBVIOUS
  <2>4b. \A k \in j + 1 .. n : \A w : Resumes(s, past(k), w) /\ ~w.tag.closing =>
                                       TagEnded(s, w, rest[k])
    <3>1. \A k \in j + 1 .. n : k \in D /\ k > n - m
      BY <1>1, <2>1
    <3>. QED
      BY <1>4, <3>1 DEF Here
  <2> HIDE DEF i, past, T
  <2>5. i \in 1 .. Len(s) + 1 /\ i \in Nat /\ j <= i /\ i \in 1 .. Len(s)
        /\ Tokens(s)[i] = BeforeAttr(v, i, s[i])
    BY <1>1, <2>1, <2>2, <2>4a DEF Resumes
  <2>6. CASE s[i] = ">" /\ rest[j] = TagEnds(i + 1, FALSE)
    <3>1. Tokens(s)[i] = Emits(v)
      BY <2>5, <2>6, BeforeAttrReads
    <3>2. EndedBy(Tokens(s)[i], v, {})
      BY <3>1, EmitsEnds
    <3> DEFINE no == FALSE
    <3> DEFINE at == i + 1
    <3>3. no \in BOOLEAN /\ (no => v.tag.name \notin rawText) /\ rest[j] = TagEnds(at, no)
      BY <2>6
    <3> HIDE DEF no
    <3>4. at \in Nat /\ at - 1 \in 1 .. Len(s) /\ at - 1 = i
      BY <2>5
    <3> HIDE DEF at
    <3>. QED
      BY <3>2, <3>3, <3>4, TagEndsHere
  <2>7. CASE /\ i + 1 <= Len(s) /\ s[i] = "/" /\ s[i + 1] = ">"
             /\ rest[j] = TagEnds(i + 2, TRUE)
    <3>1. EndedBy(Tokens(s)[i + 1], v, {}) /\ v.tag.name \notin rawText
          /\ i + 1 \in 1 .. Len(s)
      BY <2>4a, <2>7, SlashRead
    <3> DEFINE yes == TRUE
    <3> DEFINE at == i + 2
    <3>3. yes \in BOOLEAN /\ (yes => v.tag.name \notin rawText) /\ rest[j] = TagEnds(at, yes)
      BY <2>7, <3>1
    <3> HIDE DEF yes
    <3>4. at \in Nat /\ at - 1 \in 1 .. Len(s) /\ at - 1 = i + 1
      BY <2>5, <3>1
    <3> HIDE DEF at
    <3>. QED
      BY <3>1, <3>3, <3>4, TagEndsHere
  <2>8. CASE s[i] = "/" /\ (i + 1 <= Len(s) => s[i + 1] # ">") /\ rest[j] = rest[i + 1]
    <3> DEFINE t == In(v, "slash")
    <3>1. i + 1 \in 1 .. Len(s) /\ Resumes(s, i + 1, t)
      BY <1>1, <2>4a, <2>8, SlashRead
    <3>2. Held(t, v)
      BY DEF In, To, Held, SameTag
    <3> HIDE DEF t
    <3>3. PICK w : Resumes(s, past(i + 1), w) /\ Held(w, t)
      BY <3>1, PastBlanks DEF past
    <3>4. Held(w, v) /\ ~w.tag.closing
      BY <3>2, <3>3 DEF Held, SameTag
    <3>5. i + 1 \in j + 1 .. n
      BY <1>1, <2>1, <2>5, <3>1
    <3>6. TagEnded(s, w, rest[i + 1])
      BY <2>4b, <3>3, <3>4, <3>5
    <3>. QED
      BY <2>8, <3>4, <3>6, EndedHeld
  <2>9. CASE /\ s[i] \notin TagNameEnds
             /\ rest[j] = WithAttribute(Attribute(s, i), rest[Attribute(s, i).end])
    <3> DEFINE a == Attribute(s, i)
    <3>1. InOrder(a) /\ a.end \in i + 1 .. Len(s) + 1
      BY <1>1, <2>5, <2>9, AttributeRange
    <3>2. a.name # <<>> /\ \E w : Resumes(s, past(a.end), w) /\ Gains(w, v, a)
      BY <2>4a, <2>9, AttributeRead DEF past
    <3>2a. rest[j] = WithAttribute(a, rest[a.end])
      BY <2>9
    <3> HIDE DEF a
    <3>3. PICK w : Resumes(s, past(a.end), w) /\ Gains(w, v, a)
      BY <3>2
    <3>4. ~w.tag.closing
      BY <3>3 DEF Gains, SameTag
    <3>5. a.end \in j + 1 .. n /\ a.end \in D
      BY <1>1, <2>1, <2>5, <3>1
    <3>6. TagEnded(s, w, rest[a.end]) /\ rest[a.end] \in Rests
      BY <1>2, <2>4b, <3>3, <3>4, <3>5
    <3>7. a \in Attributes
      BY <3>1 DEF InOrder
    <3>. QED
      BY <3>2, <3>2a, <3>3, <3>6, <3>7, EndedWith
  <2>10. i # Len(s) + 1
    BY <1>1, <2>5
  <2>. QED
    BY <1>1, <2>3, <2>4, <2>5, <2>6, <2>7, <2>8, <2>9, <2>10, TagFromCases
<1>5. n + 1 \in T
  <2> HIDE DEF T
  <2>. QED
    BY <1>1, <1>3, <1>4, NatInd
<1>6. from > n - (n + 1)
  BY <1>1
<1>. QED
  BY <1>1, <1>2, <1>5, <1>6

\* A start tag, from the letter after its '<' on.
LEMMA TagNameRun ==
    ASSUME NEW s, Calm(s), NEW i \in 1 .. Len(s), NEW q \in i .. Len(s), NEW u,
           Tokens(s)[i] = OpensStart(u, s[i]),
           \A k \in i + 1 .. q : s[k] \notin TagNameEnds
    PROVE  /\ Tokens(s)[q].mode = "tagName" /\ ~Tokens(s)[q].tag.closing
           /\ Tokens(s)[q].tag.attrs = {} /\ Tokens(s)[q].tags = u.tags
           /\ Tokens(s)[q].tag.name = SubSeq(s, i, q)
<1> DEFINE P == {k \in Nat : /\ Tokens(s)[k].mode = "tagName" /\ ~Tokens(s)[k].tag.closing
                             /\ Tokens(s)[k].tag.attrs = {} /\ Tokens(s)[k].tags = u.tags
                             /\ Tokens(s)[k].tag.name = SubSeq(s, i, k)}
<1>1. Len(s) \in Nat /\ i \in Nat /\ q \in Nat /\ s \in Seq(STRING)
  BY CalmLen
<1>2. i \in P
  <2>1. SubSeq(s, i, i) = <<s[i]>>
    BY <1>1, OneLong
  <2>2. /\ Tokens(s)[i].mode = "tagName" /\ ~Tokens(s)[i].tag.closing
        /\ Tokens(s)[i].tag.attrs = {} /\ Tokens(s)[i].tags = u.tags
        /\ Tokens(s)[i].tag.name = <<s[i]>>
    BY DEF OpensStart, To, Tag
  <2>. QED
    BY <1>1, <2>1, <2>2
<1>3. ASSUME NEW k \in i .. q - 1, k \in P PROVE k + 1 \in P
  <2> DEFINE t == Tokens(s)[k]
             v == Tokens(s)[k + 1]
  <2>1. k \in 0 .. Len(s) - 1 /\ k + 1 \in Nat /\ s[k + 1] \notin TagNameEnds
        /\ k \in i - 1 .. Len(s) - 1
    BY <1>1
  <2>2. v = Read(t, k + 1, s[k + 1])
    BY <2>1, OneStep
  <2>2a. /\ t.mode = "tagName" /\ ~t.tag.closing /\ t.tag.attrs = {} /\ t.tags = u.tags
         /\ t.tag.name = SubSeq(s, i, k)
    BY <1>3
  <2> HIDE DEF t, v
  <2>3. v = TagName(t, k + 1, s[k + 1])
    BY <2>2, <2>2a, ReadTag
  <2>4. /\ v.mode = "tagName" /\ v.tag.closing = t.tag.closing /\ v.tag.attrs = {}
        /\ v.tags = t.tags /\ v.tag.name = Append(t.tag.name, s[k + 1])
    BY <2>1, <2>3 DEF TagName, To, Tag
  <2>5. v.tag.name = SubSeq(s, i, k + 1)
    <3>1. Append(SubSeq(s, i, k), s[k + 1]) = SubSeq(s, i, k + 1)
      BY <1>1, <2>1, SubSeqOn
    <3>. QED
      BY <2>2a, <2>4, <3>1
  <2>. QED
    BY <2>1, <2>2a, <2>4, <2>5 DEF v
<1>4. \A k \in i .. q : k \in P
  <2> HIDE DEF P
  <2>. QED
    BY <1>1, <1>2, <1>3, Along
<1>5. q \in P
  BY <1>1, <1>4
<1>. QED
  BY <1>5

\* and so the whole tag: its name, its attributes, its end and whether raw
\* text follows.
LEMMA StartTagRead ==
    ASSUME NEW s, Calm(s), NEW lt \in 1 .. Len(s) - 1, Tokens(s)[lt].mode = "open",
           s[lt + 1] \in Letters, NEW tag, tag = StartTag(s, lt)
    PROVE  LET t == Tokens(s)[tag.end - 1]
           IN  /\ tag.end - 1 \in 1 .. Len(s)
               /\ t.tags = Tokens(s)[lt].tags \cup {[name |-> tag.name, attrs |-> AttrsOf(tag)]}
               /\ tag.name \in rawText => t.mode = "raw" /\ t.within = tag.name
               /\ tag.name \notin rawText => t.mode = "data"
               /\ tag.selfClosing => tag.name \notin rawText
<1> DEFINE i == lt + 1
           u == Tokens(s)[lt]
           nameEnd == FirstOf(s, i, TagNameEnds)
           q == nameEnd - 1
           t == Tokens(s)[q]
           rest == TagRest(s, nameEnd)
<1>1. Len(s) \in Nat /\ lt \in Nat /\ i \in Nat /\ i \in 1 .. Len(s) /\ i \in 1 .. Len(s) + 1
      /\ lt \in 0 .. Len(s) - 1 /\ s \in Seq(STRING)
  BY CalmLen
<1>2. Tokens(s)[i] = OpensStart(u, s[i])
  <2>1. Tokens(s)[i] = Read(u, i, s[i])
    BY <1>1, OneStep
  <2>2. u.mode = "open" /\ s[i] \in Letters
    OBVIOUS
  <2> HIDE DEF u, i
  <2>3. Read(u, i, s[i]) = OpensStart(u, s[i])
    BY <2>2, ReadText DEF Letters
  <2>. QED
    BY <2>1, <2>3
<1>3. nameEnd \in i .. Len(s) + 1
  BY <1>1, FirstOfRange
<1>4. \A k \in i .. nameEnd - 1 : s[k] \notin TagNameEnds
  BY <1>1, FirstOfRange
<1>5. nameEnd <= Len(s) => s[nameEnd] \in TagNameEnds
  BY <1>1, FirstOfRange
<1> HIDE DEF nameEnd, i
<1>6. nameEnd # i
  <2>1. s[i] \notin TagNameEnds
    BY BlankApart DEF i, Letters, TagNameEnds
  <2>. QED
    BY <1>1, <1>5, <2>1
<1>7. q \in i .. Len(s) /\ q \in 0 .. Len(s) /\ q + 1 = nameEnd /\ nameEnd \in Nat
  BY <1>1, <1>3, <1>6
<1>8. /\ t.mode = "tagName" /\ ~t.tag.closing /\ t.tag.attrs = {} /\ t.tags = u.tags
      /\ t.tag.name = SubSeq(s, i, q)
  <2>1. \A k \in i + 1 .. q : s[k] \notin TagNameEnds
    BY <1>1, <1>4, <1>7
  <2> HIDE DEF q, u
  <2>. QED
    BY <1>1, <1>2, <1>7, <2>1, TagNameRun
<1>9. q \in 0 .. Len(s) - 1 /\ nameEnd \in 1 .. Len(s)
  BY <1>7, <1>8, GoesOn DEF Outside
<1>10. Resumes(s, nameEnd, t)
  <2>1. Tokens(s)[nameEnd] = Read(t, nameEnd, s[nameEnd])
    BY <1>7, <1>9, OneStep
  <2> HIDE DEF t
  <2>2. Read(t, nameEnd, s[nameEnd]) = TagName(t, nameEnd, s[nameEnd])
    BY <1>8, ReadTag
  <2>3. TagName(t, nameEnd, s[nameEnd]) = BeforeAttr(t, nameEnd, s[nameEnd])
    BY <1>5, <1>9 DEF TagName
  <2>. QED
    BY <1>9, <2>1, <2>2, <2>3 DEF Resumes
<1>11. PICK v : Resumes(s, FirstNotOf(s, nameEnd, {Blank}), v) /\ Held(v, t)
  BY <1>10, PastBlanks
<1> HIDE DEF t, u, q
<1>12. /\ ~v.tag.closing /\ v.tag.attrs = {} /\ v.tags = u.tags
       /\ v.tag.name = SubSeq(s, i, q)
  BY <1>8, <1>11 DEF Held, SameTag
<1>13. TagEnded(s, v, rest)
  BY <1>9, <1>11, <1>12, TagRead
<1>14. /\ tag.name = SubSeq(s, i, q) /\ tag.attrs = rest.attrs /\ tag.end = rest.end
       /\ tag.selfClosing = rest.selfClosing
  BY DEF StartTag, NamedTag, nameEnd, i, q
<1> HIDE DEF rest
<1>15. AttrsOf(tag) = AttrsOf(rest) /\ v.tag.name = tag.name
  BY <1>12, <1>14 DEF AttrsOf
<1>16. EndedBy(Tokens(s)[tag.end - 1], v, AttrsOf(tag)) /\ tag.end - 1 \in 1 .. Len(s)
       /\ (tag.selfClosing => tag.name \notin rawText)
  BY <1>13, <1>14, <1>15 DEF TagEnded
<1>17. v.tag.attrs \cup AttrsOf(tag) = AttrsOf(tag)
  BY <1>12
<1>. QED
  BY <1>12, <1>15, <1>16, <1>17 DEF EndedBy, u

-----------------------------------------------------------------------------
\* The scanner and the tokenizer side by side.  At position p, where a turn of
\* the scanner begins, the tokenizer is at the beginning of a token, too.
InText(s, p) ==
    \/ Tokens(s)[p - 1].mode = "data"
    \/ Tokens(s)[p - 1].mode = "open" /\ s[p] \notin Letters \cup {"/", "!"}
InRawText(s, p) ==
    \E name \in rawText : /\ Tokens(s)[p - 1].mode \in RawModes
                          /\ Tokens(s)[p - 1].within = name /\ EndTagAt(s, name, p)
Aligned(s, p) == p = Len(s) + 1 \/ InText(s, p) \/ InRawText(s, p)
TagsAt(s, p) == Tokens(s)[p - 1].tags

\* From p the scanner goes on to q, past no start tag.
GoesTo(s, p, q) ==
    q \in p + 1 .. Len(s) + 1 /\ Aligned(s, q) /\ TagsAt(s, q) = TagsAt(s, p)

\* Where the scanner stops in raw text there is an end tag.
LEMMA RawAtLt ==
    ASSUME NEW s, Calm(s), NEW p \in 1 .. Len(s), InRawText(s, p)
    PROVE  At(s, p, <<"<", "/">>) /\ s[p] = "<"
<1>1. Len(s) \in Nat /\ p \in Nat
  BY CalmLen
<1>2. At(s, p, <<"<", "/">>)
  BY DEF InRawText, EndTagAt
<1>. QED
  BY <1>1, <1>2, AtPair

\* In text, a '<' opens markup.
LEMMA AtFirst ==
    ASSUME NEW s, Calm(s), NEW p \in 1 .. Len(s), InText(s, p)
    PROVE  /\ Tokens(s)[p].mode = IF s[p] = "<" THEN "open" ELSE "data"
           /\ Tokens(s)[p].tags = TagsAt(s, p)
<1>1. Len(s) \in Nat /\ p - 1 \in 0 .. Len(s) - 1 /\ p - 1 + 1 = p
  BY CalmLen
<1> DEFINE k == p - 1
<1>2. k \in 0 .. Len(s) - 1 /\ k + 1 = p
  BY <1>1
<1>3. \/ Tokens(s)[k].mode = "data"
      \/ Tokens(s)[k].mode = "open" /\ s[p] \notin Letters \cup {"/", "!"}
  BY DEF InText
<1> HIDE DEF k
<1>4. /\ Tokens(s)[k + 1].mode = IF s[k + 1] = "<" THEN "open" ELSE "data"
      /\ Tokens(s)[k + 1].tags = Tokens(s)[k].tags
  BY <1>2, <1>3, FromData
<1>. QED
  BY <1>2, <1>4 DEF TagsAt, k

\* A turn that ends where the browser reads text leaves the two in step.
LEMMA DataAligned ==
    ASSUME NEW s, NEW p, NEW q \in p + 1 .. Len(s) + 1,
           q = Len(s) + 1 \/ Tokens(s)[q - 1].mode = "data",
           Tokens(s)[q - 1].tags = TagsAt(s, p)
    PROVE  GoesTo(s, p, q)
BY DEF GoesTo, Aligned, InText, TagsAt

\* Text.
LEMMA TextGoesTo ==
    ASSUME NEW s, Calm(s), NEW p \in 1 .. Len(s), Aligned(s, p), s[p] # "<",
           NEW q, q = FirstOf(s, p, {"<"})
    PROVE  GoesTo(s, p, q)
<1>1. Len(s) \in Nat /\ p \in Nat /\ p \in 1 .. Len(s) + 1 /\ p # Len(s) + 1 /\ p \in 0 .. Len(s)
  BY CalmLen
<1>2. q \in p .. Len(s) + 1
  BY <1>1, FirstOfRange
<1>3. \A k \in p .. q - 1 : s[k] \notin {"<"}
  BY <1>1, FirstOfRange
<1>4. q <= Len(s) => s[q] \in {"<"}
  BY <1>1, FirstOfRange
<1>5. q \in p + 1 .. Len(s) + 1 /\ q - 1 \in p .. Len(s)
  BY <1>1, <1>2, <1>4
<1>6. InText(s, p)
  BY <1>1, RawAtLt DEF Aligned
<1>7. Tokens(s)[p].mode = "data" /\ Tokens(s)[p].tags = TagsAt(s, p)
  BY <1>6, AtFirst
<1>8. \A k \in p + 1 .. q - 1 : s[k] # "<"
  BY <1>1, <1>3, <1>5
<1>9. Tokens(s)[q - 1].mode = "data" /\ Tokens(s)[q - 1].tags = Tokens(s)[p].tags
  BY <1>1, <1>5, <1>7, <1>8, DataRun
<1>. QED
  BY <1>5, <1>7, <1>9, DataAligned

\* A '<' by itself.
LEMMA BareGoesTo ==
    ASSUME NEW s, Calm(s), NEW p \in 1 .. Len(s), InText(s, p), s[p] = "<",
           p + 1 <= Len(s) => s[p + 1] \notin Letters \cup {"/", "!"}
    PROVE  GoesTo(s, p, p + 1)
<1>1. Len(s) \in Nat /\ p \in Nat /\ p + 1 \in p + 1 .. Len(s) + 1 /\ p + 1 - 1 = p
  BY CalmLen
<1>2. Tokens(s)[p].mode = "open" /\ Tokens(s)[p].tags = TagsAt(s, p)
  BY AtFirst
<1>3. p + 1 = Len(s) + 1 \/ p + 1 <= Len(s)
  BY <1>1
<1> DEFINE q == p + 1
<1>4. q \in p + 1 .. Len(s) + 1 /\ q - 1 = p /\ (q = Len(s) + 1 \/ q <= Len(s))
      /\ (q <= Len(s) => s[q] \notin Letters \cup {"/", "!"})
  BY <1>1, <1>3
<1> HIDE DEF q
<1>5. Aligned(s, q)
  BY <1>2, <1>4 DEF Aligned, InText
<1>6. GoesTo(s, p, q)
  BY <1>2, <1>4, <1>5 DEF GoesTo, TagsAt
<1>. QED
  BY <1>6 DEF q

\* How far '>' is.
LEMMA FirstOfLater ==
    ASSUME NEW s, Len(s) \in Nat, NEW p \in 1 .. Len(s), NEW stops
    PROVE  FirstOf(s, p, stops) = IF s[p] \in stops THEN p ELSE FirstOf(s, p + 1, stops)
<1> DEFINE x == FirstOf(s, p, stops)
           y == FirstOf(s, p + 1, stops)
<1>1. p \in Nat /\ p \in 1 .. Len(s) + 1 /\ p + 1 \in 1 .. Len(s) + 1
  OBVIOUS
<1>2. x \in p .. Len(s) + 1 /\ y \in p + 1 .. Len(s) + 1
  BY <1>1, FirstOfRange
<1>3. \A k \in p .. x - 1 : s[k] \notin stops
  BY <1>1, FirstOfRange
<1>4. \A k \in p + 1 .. y - 1 : s[k] \notin stops
  BY <1>1, FirstOfRange
<1>5. (x <= Len(s) => s[x] \in stops) /\ (y <= Len(s) => s[y] \in stops)
  BY <1>1, FirstOfRange
<1> HIDE DEF x, y
<1>6. x \in Nat /\ y \in Nat
  BY <1>1, <1>2
<1>7. ASSUME s[p] \in stops PROVE x = p
  BY <1>1, <1>2, <1>3, <1>6, <1>7
<1>8. ASSUME s[p] \notin stops PROVE x = y
  <2>1. x # p
    BY <1>1, <1>5, <1>8
  <2>2. ~(x < y)
    BY <1>1, <1>2, <1>4, <1>5, <1>6, <2>1
  <2>3. ~(y < x)
    BY <1>1, <1>2, <1>3, <1>5, <1>6
  <2>. QED
    BY <1>6, <2>2, <2>3
<1>. QED
  BY <1>7, <1>8 DEF x, y

\* The first '>' from a character on, or from the next on.
LEMMA PastGtLater ==
    ASSUME NEW s, Len(s) \in Nat, NEW p \in 1 .. Len(s)
    PROVE  PastGt(s, p) = IF s[p] = ">" THEN p + 1 ELSE PastGt(s, p + 1)
<1>1. FirstOf(s, p, {">"}) = IF s[p] = ">" THEN p ELSE FirstOf(s, p + 1, {">"})
  BY FirstOfLater
<1>. QED
  BY <1>1 DEF PastGt

\* Four characters at a position.
LEMMA AtQuadruple ==
    ASSUME NEW s, Len(s) \in Nat, NEW i \in Nat, NEW b, NEW c, NEW d, NEW e
    PROVE  At(s, i, <<b, c, d, e>>) <=>
             i + 3 <= Len(s) /\ s[i] = b /\ s[i + 1] = c /\ s[i + 2] = d /\ s[i + 3] = e
<1> DEFINE w == <<b, c, d, e>>
<1>1. /\ Len(w) = 4 /\ DOMAIN w = {1, 2, 3, 4}
      /\ w[1] = b /\ w[2] = c /\ w[3] = d /\ w[4] = e
  OBVIOUS
<1> HIDE DEF w
<1>2. At(s, i, w) <=> /\ i + 4 - 1 <= Len(s) /\ s[i + 1 - 1] = b
                      /\ s[i + 2 - 1] = c /\ s[i + 3 - 1] = d /\ s[i + 4 - 1] = e
  BY <1>1 DEF At
<1>3. i + 1 - 1 = i /\ i + 2 - 1 = i + 1 /\ i + 3 - 1 = i + 2 /\ i + 4 - 1 = i + 3
  OBVIOUS
<1>. QED
  BY <1>2, <1>3 DEF w

\* The same as ToGt, from a character that may itself be the '>'.
LEMMA ToGtFrom ==
    ASSUME NEW s, Calm(s), NEW k \in 1 .. Len(s),
           IF s[k] = ">" THEN Tokens(s)[k].mode = "data"
           ELSE Tokens(s)[k].mode = "bogus" \/ InEndTag(Tokens(s)[k]),
           NEW q, q = PastGt(s, k)
    PROVE  /\ q \in k + 1 .. Len(s) + 1
           /\ q = Len(s) + 1 \/ Tokens(s)[q - 1].mode = "data"
           /\ Tokens(s)[q - 1].tags = Tokens(s)[k].tags
           /\ Free(s, k + 1, q)
<1>1. Len(s) \in Nat /\ k \in Nat /\ k \in 0 .. Len(s) /\ k + 1 \in k + 1 .. Len(s) + 1
      /\ k + 1 - 1 = k
  BY CalmLen
<1>2. CASE s[k] = ">"
  <2>1. q = k + 1
    BY <1>1, <1>2, PastGtLater
  <2>2. \A j \in k + 1 .. k + 1 - 1 : FALSE
    BY <1>1
  <2>3. Free(s, k + 1, q)
    BY <2>1, <2>2 DEF Free
  <2>. QED
    BY <1>1, <1>2, <2>1, <2>3
<1>3. CASE s[k] # ">"
  <2>1. q = PastGt(s, k + 1)
    BY <1>1, <1>3, PastGtLater
  <2>. QED
    BY <1>1, <1>3, <2>1, ToGt
<1>. QED
  BY <1>2, <1>3

\* At k, two characters after p, what ends at the first '>' from p is under way.
LEMMA GoesToGt ==
    ASSUME NEW s, Calm(s), NEW p \in 1 .. Len(s), p + 2 <= Len(s),
           s[p] # ">", s[p + 1] # ">",
           IF s[p + 2] = ">" THEN Tokens(s)[p + 2].mode = "data"
           ELSE Tokens(s)[p + 2].mode = "bogus" \/ InEndTag(Tokens(s)[p + 2]),
           Tokens(s)[p + 2].tags = TagsAt(s, p), Free(s, p + 1, p + 3),
           NEW q, q = PastGt(s, p)
    PROVE  GoesTo(s, p, q) /\ Free(s, p + 1, q)
<1>1. Len(s) \in Nat /\ p \in Nat /\ p + 1 \in 1 .. Len(s) /\ p + 2 \in 1 .. Len(s)
      /\ p + 1 + 1 = p + 2
  BY CalmLen
<1>2. PastGt(s, p) = PastGt(s, p + 1)
  BY <1>1, PastGtLater
<1> DEFINE p1 == p + 1
<1>3. p1 \in 1 .. Len(s) /\ s[p1] # ">" /\ p1 + 1 = p + 2
  BY <1>1
<1> HIDE DEF p1
<1>4. PastGt(s, p1) = PastGt(s, p1 + 1)
  BY <1>1, <1>3, PastGtLater
<1>5. q = PastGt(s, p + 2)
  BY <1>2, <1>3, <1>4 DEF p1
<1> DEFINE k == p + 2
<1>6. k \in 1 .. Len(s) /\ q = PastGt(s, k) /\ Tokens(s)[k].tags = TagsAt(s, p)
  BY <1>1, <1>5
<1>7. IF s[k] = ">" THEN Tokens(s)[k].mode = "data"
      ELSE Tokens(s)[k].mode = "bogus" \/ InEndTag(Tokens(s)[k])
  OBVIOUS
<1>8. k \in Nat /\ p < k
  BY <1>1
<1> HIDE DEF k
<1>9. /\ q \in k + 1 .. Len(s) + 1
      /\ q = Len(s) + 1 \/ Tokens(s)[q - 1].mode = "data"
      /\ Tokens(s)[q - 1].tags = Tokens(s)[k].tags
      /\ Free(s, k + 1, q)
  BY <1>6, <1>7, ToGtFrom
<1>10. q \in p + 1 .. Len(s) + 1 /\ q \in Nat /\ k + 1 = p + 3 /\ p + 1 \in Nat /\ k + 1 \in Nat
  BY <1>1, <1>8, <1>9 DEF k
<1>11. Free(s, p + 1, k + 1)
  BY <1>10
<1>12. Free(s, p + 1, q)
  BY <1>9, <1>10, <1>11, FreeJoin
<1>. QED
  BY <1>6, <1>9, <1>10, <1>12, DataAligned

LEMMA FreePair ==
    ASSUME NEW s, Calm(s), NEW p \in 1 .. Len(s), p + 2 <= Len(s), s[p + 1] # "<",
           s[p + 2] # "<" \/ ClosesAnything(Tokens(s)[p + 1])
    PROVE  Free(s, p + 1, p + 3)
<1> DEFINE a == p + 1
           b == p + 2
<1>1. Len(s) \in Nat /\ p \in Nat /\ s \in Seq(STRING)
  BY CalmLen DEF Calm
<1>2. a \in 1 .. Len(s) /\ b \in 1 .. Len(s) /\ a + 1 = b /\ b - 1 = a /\ b + 1 = p + 3
      /\ a \in Nat /\ b \in Nat /\ b + 1 \in Nat
  BY <1>1
<1>3. s[a] # "<" /\ (s[b] # "<" \/ ClosesAnything(Tokens(s)[a]))
  OBVIOUS
<1> HIDE DEF a, b
<1>4. Free(s, a, a + 1)
  BY <1>1, <1>2, <1>3, FreeOne
<1>5. Free(s, b, b + 1)
  BY <1>1, <1>2, <1>3, FreeOne
<1>6. Free(s, a, b + 1)
  BY <1>2, <1>4, <1>5, FreeJoin
<1>. QED
  BY <1>2, <1>6 DEF a

\* An end tag, in text
LEMMA EndTagGoesTo ==
    ASSUME NEW s, Calm(s), NEW p \in 1 .. Len(s), InText(s, p), At(s, p, <<"<", "/">>),
           NEW q, q = PastGt(s, p)
    PROVE  GoesTo(s, p, q) /\ Free(s, p + 1, q)
<1>1. Len(s) \in Nat /\ p \in Nat
  BY CalmLen
<1>2. p + 1 <= Len(s) /\ s[p] = "<" /\ s[p + 1] = "/"
  BY <1>1, AtPair
<1>3. p \in 0 .. Len(s) - 1 /\ p + 1 \in 0 .. Len(s) /\ p + 1 + 1 = p + 2
  BY <1>1, <1>2
<1> DEFINE t == Tokens(s)[p + 1]
           c == s[p + 2]
           u == Tokens(s)[p + 2]
<1>4. Tokens(s)[p].mode = "open" /\ Tokens(s)[p].tags = TagsAt(s, p)
  BY <1>2, AtFirst
<1>5. t.mode = "endOpen" /\ t.tags = TagsAt(s, p)
  <2>1. t = Read(Tokens(s)[p], p + 1, s[p + 1])
    BY <1>3, OneStep
  <2> HIDE DEF t
  <2>2. t = In(Tokens(s)[p], "endOpen")
    BY <1>2, <1>4, <2>1, ReadText DEF Letters
  <2>. QED
    BY <1>4, <2>2 DEF In, To
<1>6. p + 1 \in 0 .. Len(s) - 1 /\ p + 2 \in 1 .. Len(s)
  <2>1. p + 1 \in 0 .. Len(s) - 1
    BY <1>3, <1>5, GoesOn DEF Outside
  <2>. QED
    BY <1>1, <2>1
<1>7. u = Read(t, p + 2, c)
  BY <1>3, <1>6, OneStep
<1> HIDE DEF t, c, u
<1>8. u = IF c \in Letters THEN OpensEnd(t, c) ELSE Bogus(t, c)
  BY <1>5, <1>7, ReadText
<1>9. /\ u.tags = TagsAt(s, p)
      /\ IF c = ">" THEN u.mode = "data" ELSE u.mode = "bogus" \/ InEndTag(u)
  <2>1. CASE c \in Letters
    <3>1. c # ">"
      BY <2>1 DEF Letters
    <3>2. u = OpensEnd(t, c)
      BY <1>8, <2>1
    <3>3. u.mode = "tagName" /\ u.tag.closing /\ u.tags = t.tags
      BY <3>2 DEF OpensEnd, To, Tag
    <3>. QED
      BY <1>5, <3>1, <3>3 DEF InEndTag, EndTagModes
  <2>2. CASE c \notin Letters
    <3>1. u = Bogus(t, c)
      BY <1>8, <2>2
    <3>. QED
      BY <1>5, <3>1 DEF Bogus, In, To
  <2>. QED
    BY <2>1, <2>2
<1>10. p + 2 <= Len(s) /\ s[p] # ">" /\ s[p + 1] # ">"
  BY <1>1, <1>2, <1>6
<1>11. s[p + 1] # "<" /\ ClosesAnything(t)
  BY <1>2, <1>5 DEF ClosesAnything
<1>12. Free(s, p + 1, p + 3)
  BY <1>10, <1>11, FreePair DEF t
<1>. QED
  BY <1>9, <1>10, <1>12, GoesToGt DEF c, u

\* A comment without dashes.
LEMMA BangGoesTo ==
    ASSUME NEW s, Calm(s), NEW p \in 1 .. Len(s), InText(s, p), At(s, p, <<"<", "!">>),
           ~At(s, p, <<"<", "!", "-", "-">>), NEW q, q = PastGt(s, p)
    PROVE  GoesTo(s, p, q) /\ Free(s, p + 1, q)
<1>1. Len(s) \in Nat /\ p \in Nat
  BY CalmLen
<1>2. p + 1 <= Len(s) /\ s[p] = "<" /\ s[p + 1] = "!"
  BY <1>1, AtPair
<1>3. p \in 0 .. Len(s) - 1 /\ p + 1 \in 0 .. Len(s) /\ p + 1 + 1 = p + 2
  BY <1>1, <1>2
<1> DEFINE t == Tokens(s)[p + 1]
           c == s[p + 2]
           u == Tokens(s)[p + 2]
<1>4. Tokens(s)[p].mode = "open" /\ Tokens(s)[p].tags = TagsAt(s, p)
  BY <1>2, AtFirst
<1>5. t.mode = "markup" /\ t.tags = TagsAt(s, p)
  <2>1. t = Read(Tokens(s)[p], p + 1, s[p + 1])
    BY <1>3, OneStep
  <2> HIDE DEF t
  <2>2. t = In(Tokens(s)[p], "markup")
    BY <1>2, <1>4, <2>1, ReadText DEF Letters
  <2>. QED
    BY <1>4, <2>2 DEF In, To
<1>6. p + 1 \in 0 .. Len(s) - 1 /\ p + 2 \in 1 .. Len(s)
  <2>1. p + 1 \in 0 .. Len(s) - 1
    BY <1>3, <1>5, GoesOn DEF Outside
  <2>. QED
    BY <1>1, <2>1
<1>7. u = Read(t, p + 2, c)
  BY <1>3, <1>6, OneStep
<1> HIDE DEF t, c, u
<1>8. u = IF c = "-" THEN In(t, "markupDash") ELSE Bogus(t, c)
  BY <1>5, <1>7, ReadMarkup
<1>11. Free(s, p + 1, p + 3)
  <2>1. s[p + 1] # "<" /\ ClosesAnything(t)
    BY <1>2, <1>5 DEF ClosesAnything
  <2>2. p + 2 <= Len(s)
    BY <1>1, <1>6
  <2>. QED
    BY <2>1, <2>2, FreePair DEF t
<1>9. CASE c # "-"
  <2>1. u = Bogus(t, c)
    BY <1>8, <1>9
  <2>2. /\ u.tags = TagsAt(s, p)
        /\ IF c = ">" THEN u.mode = "data" ELSE u.mode = "bogus" \/ InEndTag(u)
    BY <1>5, <2>1 DEF Bogus, In, To
  <2>3. p + 2 <= Len(s) /\ s[p] # ">" /\ s[p + 1] # ">"
    BY <1>1, <1>2, <1>6
  <2>. QED
    BY <1>11, <2>2, <2>3, GoesToGt DEF c, u
<1>10. CASE c = "-"
  <2> DEFINE k == p + 3
             d == s[k]
             v == Tokens(s)[k]
  <2>1. u.mode = "markupDash" /\ u.tags = TagsAt(s, p)
    BY <1>5, <1>8, <1>10 DEF In, To
  <2>2. p + 2 \in 0 .. Len(s) - 1 /\ k \in 1 .. Len(s) /\ p + 2 + 1 = k /\ k \in Nat
    <3>1. p + 2 \in 0 .. Len(s)
      BY <1>6
    <3>2. p + 2 \in 0 .. Len(s) - 1
      BY <2>1, <3>1, GoesOn DEF Outside, u
    <3>. QED
      BY <1>1, <3>2
  <2>3. v = Read(u, k, d)
    BY <2>2, OneStep DEF u
  <2>4. d # "-"
    <3>1. At(s, p, <<"<", "!", "-", "-">>) <=> d = "-"
      BY <1>1, <1>2, <1>10, <2>2, AtQuadruple DEF c
    <3>. QED
      BY <3>1
  <2> HIDE DEF d, v, k
  <2>5. v = Bogus(u, d)
    BY <2>1, <2>3, <2>4, ReadMarkup
  <2>6. /\ v.tags = TagsAt(s, p)
        /\ IF d = ">" THEN v.mode = "data" ELSE v.mode = "bogus" \/ InEndTag(v)
    BY <2>1, <2>5 DEF Bogus, In, To
  <2>7. q = PastGt(s, k)
    <3> DEFINE p1 == p + 1
               p2 == p + 2
    <3>1. /\ p1 \in 1 .. Len(s) /\ s[p1] # ">" /\ p1 = p + 1
          /\ p2 \in 1 .. Len(s) /\ s[p2] # ">" /\ p2 = p1 + 1 /\ k = p2 + 1 /\ s[p] # ">"
      BY <1>1, <1>2, <1>6, <1>10, <2>2 DEF c
    <3> HIDE DEF p1, p2
    <3>2. PastGt(s, p) = PastGt(s, p1)
      BY <1>1, <3>1, PastGtLater
    <3>3. PastGt(s, p1) = PastGt(s, p2)
      BY <1>1, <3>1, PastGtLater
    <3>4. PastGt(s, p2) = PastGt(s, k)
      BY <1>1, <3>1, PastGtLater
    <3>. QED
      BY <3>2, <3>3, <3>4
  <2>8. /\ q \in k + 1 .. Len(s) + 1
        /\ q = Len(s) + 1 \/ Tokens(s)[q - 1].mode = "data"
        /\ Tokens(s)[q - 1].tags = v.tags
        /\ Free(s, k + 1, q)
    BY <2>2, <2>6, <2>7, ToGtFrom DEF d, v
  <2>9. q \in p + 1 .. Len(s) + 1
    BY <1>1, <2>2, <2>8
  <2>10. k + 1 \in Nat /\ p + 1 \in Nat /\ q \in Nat /\ k - 1 = p + 2 /\ k = p + 3
    BY <1>1, <2>2, <2>9 DEF k
  <2>11. Free(s, k, k + 1)
    <3>1. ClosesAnything(u)
      BY <2>1 DEF ClosesAnything
    <3>2. ClosesAnything(Tokens(s)[k - 1])
      BY <2>10, <3>1 DEF u
    <3>. QED
      BY <2>2, <3>2, FreeOne DEF Calm
  <2>12. Free(s, k, q)
    BY <2>2, <2>8, <2>10, <2>11, FreeJoin
  <2>13. Free(s, p + 1, q)
    BY <1>11, <2>2, <2>10, <2>12, FreeJoin
  <2>. QED
    BY <2>6, <2>8, <2>9, <2>13, DataAligned
<1>. QED
  BY <1>9, <1>10

\* A comment.
LEMMA CommentGoesTo ==
    ASSUME NEW s, Calm(s), NEW p \in 1 .. Len(s), InText(s, p),
           At(s, p, <<"<", "!", "-", "-">>),
           NEW close, close = Occurs(s, p + 4, <<"-", "-", ">">>),
           NEW q, q = IF close = 0 THEN Len(s) + 1 ELSE close + 3
    PROVE  GoesTo(s, p, q)
<1>1. Len(s) \in Nat /\ p \in Nat
  BY CalmLen
<1>2. p + 3 <= Len(s) /\ s[p] = "<" /\ s[p + 1] = "!" /\ s[p + 2] = "-" /\ s[p + 3] = "-"
  BY <1>1, AtQuadruple
<1>3. /\ p \in 0 .. Len(s) - 1 /\ p + 1 \in 0 .. Len(s) - 1 /\ p + 2 \in 0 .. Len(s) - 1
      /\ p + 1 + 1 = p + 2 /\ p + 2 + 1 = p + 3
  BY <1>1, <1>2
<1> DEFINE t == Tokens(s)[p]
           u == Tokens(s)[p + 1]
           v == Tokens(s)[p + 2]
           w == Tokens(s)[p + 3]
<1>4. t.mode = "open" /\ t.tags = TagsAt(s, p)
  BY <1>2, AtFirst
<1>5. /\ u = Read(t, p + 1, s[p + 1]) /\ v = Read(u, p + 2, s[p + 2])
      /\ w = Read(v, p + 3, s[p + 3])
  BY <1>3, OneStep
<1> HIDE DEF t, u, v, w
<1>6. u = In(t, "markup")
  BY <1>2, <1>4, <1>5, ReadText DEF Letters
<1>7. u.mode = "markup" /\ u.tags = TagsAt(s, p)
  BY <1>4, <1>6 DEF In, To
<1>8. v = In(u, "markupDash")
  BY <1>2, <1>5, <1>7, ReadMarkup
<1>9. v.mode = "markupDash" /\ v.tags = TagsAt(s, p)
  BY <1>7, <1>8 DEF In, To
<1>10. w = In(v, "commentStart")
  BY <1>2, <1>5, <1>9, ReadMarkup
<1>11. w.mode = "commentStart" /\ w.tags = TagsAt(s, p)
  BY <1>9, <1>10 DEF In, To
<1>12. /\ q \in p + 4 .. Len(s) + 1
       /\ q = Len(s) + 1 \/ Tokens(s)[q - 1].mode = "data"
       /\ Tokens(s)[q - 1].tags = w.tags
  BY <1>2, <1>11, ToCommentEnd DEF w
<1>13. q \in p + 1 .. Len(s) + 1
  BY <1>1, <1>12
<1>. QED
  BY <1>11, <1>12, <1>13, DataAligned

\* The end tag of raw text.
LEMMA RawAtName ==
    ASSUME NEW s, Calm(s), NEW p \in 1 .. Len(s), NEW name \in rawText, EndTagAt(s, name, p)
    PROVE  \E x \in Letters : /\ name = <<x>> /\ p + 2 <= Len(s)
                              /\ s[p] = "<" /\ s[p + 1] = "/" /\ s[p + 2] = x
                              /\ p + 3 <= Len(s) => s[p + 3] \in TagNameEnds
<1>1. Len(s) \in Nat /\ p \in Nat /\ p + 2 \in Nat
  BY CalmLen
<1>2. s[p] = "<" /\ s[p + 1] = "/"
  BY <1>1, AtPair DEF EndTagAt
<1>3. PICK x \in Letters : name = <<x>>
  BY DEF rawText, Raw, Style, Letters
<1>4. Len(name) = 1 /\ DOMAIN name = {1} /\ name[1] = x
  BY <1>3
<1> DEFINE i == p + 2
<1>5. /\ At(s, i, name)
      /\ i + Len(name) <= Len(s) => s[i + Len(name)] \in TagNameEnds
  BY DEF EndTagAt, hasTagNameAt
<1>6. i + 1 - 1 = i /\ i + 1 = p + 3
  BY <1>1
<1> HIDE DEF i
<1>7. i + Len(name) - 1 <= Len(s) /\ s[i + 1 - 1] = x
  BY <1>4, <1>5 DEF At
<1>8. i <= Len(s) /\ s[i] = x
  BY <1>1, <1>4, <1>6, <1>7 DEF i
<1>9. p + 3 <= Len(s) => s[p + 3] \in TagNameEnds
  BY <1>4, <1>5, <1>6
<1>. QED
  BY <1>2, <1>3, <1>8, <1>9 DEF i

\* The end tag of raw text is passed over as a whole.
LEMMA RawEndGoesTo ==
    ASSUME NEW s, Calm(s), NEW p \in 1 .. Len(s), InRawText(s, p), NEW q, q = PastGt(s, p)
    PROVE  GoesTo(s, p, q) /\ Free(s, p + 1, q)
<1>1. Len(s) \in Nat /\ p \in Nat /\ p - 1 \in 0 .. Len(s) - 1 /\ p - 1 + 1 = p
  BY CalmLen
<1>2. PICK name \in rawText : /\ Tokens(s)[p - 1].mode \in RawModes
                              /\ Tokens(s)[p - 1].within = name /\ EndTagAt(s, name, p)
  BY DEF InRawText
<1>3. PICK x \in Letters : /\ name = <<x>> /\ p + 2 <= Len(s)
                           /\ s[p] = "<" /\ s[p + 1] = "/" /\ s[p + 2] = x
                           /\ p + 3 <= Len(s) => s[p + 3] \in TagNameEnds
  BY <1>2, RawAtName
<1>4. /\ p \in 0 .. Len(s) - 1 /\ p + 1 \in 0 .. Len(s) - 1
      /\ p + 1 + 1 = p + 2 /\ p + 2 + 1 = p + 3 /\ p + 2 \in 1 .. Len(s)
  BY <1>1, <1>3
<1> DEFINE t == Tokens(s)[p - 1]
           u == Tokens(s)[p]
           v == Tokens(s)[p + 1]
           w == Tokens(s)[p + 2]
           y == Tokens(s)[p + 3]
           c == s[p + 3]
<1>5. /\ u = Read(t, p, s[p]) /\ v = Read(u, p + 1, s[p + 1]) /\ w = Read(v, p + 2, s[p + 2])
      /\ p + 3 <= Len(s) => y = Read(w, p + 3, c) /\ ~y.odd
  <2>1. u = Read(t, p, s[p]) /\ v = Read(u, p + 1, s[p + 1]) /\ w = Read(v, p + 2, s[p + 2])
    BY <1>1, <1>4, OneStep
  <2>2. ASSUME p + 3 <= Len(s) PROVE y = Read(w, p + 3, c) /\ ~y.odd
    <3>1. p + 2 \in 0 .. Len(s) - 1
      BY <1>1, <2>2
    <3>. QED
      BY <1>4, <3>1, OneStep
  <2>. QED
    BY <2>1, <2>2
<1>6. t.mode \in RawModes /\ t.within = name /\ t.tags = TagsAt(s, p)
  BY <1>2 DEF TagsAt
<1> HIDE DEF t, u, v, w, y, c
<1>7. u = RawText(t, "<")
  <2>1. CASE t.mode = "raw"
    BY <1>3, <1>5, <2>1, ReadText
  <2>2. CASE t.mode = "rawOpen"
    BY <1>3, <1>5, <2>2, ReadText
  <2>3. CASE t.mode = "rawEnd"
    <3>1. u = RawEnd(t, p, "<")
      BY <1>3, <1>5, <2>3, ReadText
    <3>. QED
      BY <3>1, BlankApart DEF RawEnd, Letters, TagNameEnds
  <2>. QED
    BY <1>6, <2>1, <2>2, <2>3 DEF RawModes
<1>8. /\ u.mode = "rawOpen" /\ u.within = name /\ u.tags = TagsAt(s, p)
      /\ u.tag = NoTag
  BY <1>6, <1>7 DEF RawText, To
<1>9. v = In(u, "rawEnd")
  BY <1>3, <1>5, <1>8, ReadText
<1>10. /\ v.mode = "rawEnd" /\ v.within = name /\ v.tags = TagsAt(s, p)
       /\ v.tag.name = <<>>
  BY <1>8, <1>9 DEF In, To, NoTag, Tag
<1>11. w = RawEnd(v, p + 2, x)
  BY <1>3, <1>5, <1>10, ReadText
<1>12. w = To(v, "rawEnd", Tag(FALSE, Append(v.tag.name, x), {}, v.tag.attr))
  BY <1>11, BlankApart DEF RawEnd, Letters, TagNameEnds
<1>13. w.mode = "rawEnd" /\ w.within = name /\ w.tags = TagsAt(s, p)
       /\ w.tag.name = Append(v.tag.name, x)
  BY <1>10, <1>12 DEF To, Tag
<1>14. w.tag.name = name
  BY <1>3, <1>10, <1>13
<1>15. PastGt(s, p) = PastGt(s, p + 3)
  <2> DEFINE p1 == p + 1
             p2 == p + 2
             p3 == p + 3
  <2>1. /\ p1 \in 1 .. Len(s) /\ s[p1] # ">" /\ p1 = p + 1
        /\ p2 \in 1 .. Len(s) /\ p2 = p1 + 1 /\ p3 = p2 + 1 /\ s[p] # ">"
    BY <1>1, <1>3, <1>4
  <2>1a. s[p2] # ">"
    BY <1>3 DEF Letters
  <2> HIDE DEF p1, p2, p3
  <2>2. PastGt(s, p) = PastGt(s, p1)
    BY <1>1, <2>1, PastGtLater
  <2>3. PastGt(s, p1) = PastGt(s, p2)
    BY <1>1, <2>1, PastGtLater
  <2>4. PastGt(s, p2) = PastGt(s, p3)
    BY <1>1, <2>1, <2>1a, PastGtLater
  <2>. QED
    BY <2>2, <2>3, <2>4 DEF p3
<1>18. Free(s, p + 1, p + 3)
  <2>1. s[p + 1] # "<" /\ s[p + 2] # "<"
    BY <1>3 DEF Letters
  <2>. QED
    BY <1>3, <2>1, FreePair
<1>16. CASE p + 3 <= Len(s)
  <2> DEFINE k == p + 3
  <2>1. k \in 1 .. Len(s) /\ k \in Nat /\ p < k
    BY <1>1, <1>16
  <2>2. y = RawEnd(w, k, c) /\ c \in TagNameEnds /\ ~y.odd
    BY <1>3, <1>5, <1>13, <1>16, ReadText DEF c
  <2> DEFINE z == To(w, "rawEnd", Tag(TRUE, w.tag.name, {}, w.tag.attr))
  <2>3. y = BeforeAttr(z, k, c)
    <3>1. c \notin Letters
      BY <2>2, BlankApart DEF TagNameEnds, Letters
    <3> HIDE DEF k, z
    <3>. QED
      BY <1>13, <1>14, <2>2, <3>1 DEF RawEnd, z
  <2>4. z.tag.closing /\ z.tags = TagsAt(s, p)
    BY <1>13 DEF To, Tag
  <2> HIDE DEF z, k
  <2>5. y.tags = TagsAt(s, p) /\ (c # ">" => InEndTag(y)) /\ (c = ">" => y.mode = "data")
    BY <2>2, <2>3, <2>4, ClosingBeforeAttr
  <2>6. y = Tokens(s)[k] /\ c = s[k] /\ q = PastGt(s, k)
    BY <1>15 DEF y, c, k
  <2>7. /\ q \in k + 1 .. Len(s) + 1
        /\ q = Len(s) + 1 \/ Tokens(s)[q - 1].mode = "data"
        /\ Tokens(s)[q - 1].tags = y.tags
        /\ Free(s, k + 1, q)
    <3>1. IF s[k] = ">" THEN Tokens(s)[k].mode = "data"
          ELSE Tokens(s)[k].mode = "bogus" \/ InEndTag(Tokens(s)[k])
      BY <2>5, <2>6
    <3>. QED
      BY <2>1, <2>6, <3>1, ToGtFrom
  <2>8. q \in p + 1 .. Len(s) + 1
    BY <1>1, <2>1, <2>7
  <2>9. k + 1 \in Nat /\ p + 1 \in Nat /\ q \in Nat /\ k = p + 3
    BY <1>1, <2>1, <2>8 DEF k
  <2>10. Free(s, k, k + 1)
    <3>1. s[k] # "<"
      BY <2>2, <2>6, BlankApart DEF TagNameEnds
    <3>. QED
      BY <2>1, <3>1, FreeOne DEF Calm
  <2>11. Free(s, k, q)
    BY <2>1, <2>7, <2>9, <2>10, FreeJoin
  <2>12. Free(s, p + 1, q)
    BY <1>18, <2>1, <2>9, <2>11, FreeJoin
  <2>. QED
    BY <2>5, <2>7, <2>8, <2>12, DataAligned
<1>17. CASE p + 3 > Len(s)
  <2>1. p + 3 = Len(s) + 1 /\ Len(s) + 1 \in 1 .. Len(s) + 1 /\ Len(s) = p + 2
    BY <1>1, <1>3, <1>17
  <2>2. FirstOf(s, Len(s) + 1, {">"}) \in Len(s) + 1 .. Len(s) + 1
    BY <1>1, <2>1, FirstOfRange
  <2>3. PastGt(s, Len(s) + 1) = Len(s) + 1
    BY <1>1, <2>2 DEF PastGt
  <2>4. q = Len(s) + 1
    BY <1>15, <2>1, <2>3
  <2>5. q \in p + 1 .. Len(s) + 1 /\ q - 1 = p + 2
    BY <1>1, <2>1, <2>4
  <2>6. Tokens(s)[q - 1].tags = TagsAt(s, p)
    BY <1>13, <2>5 DEF w
  <2>7. q = p + 3
    BY <1>1, <2>1, <2>4
  <2>. QED
    BY <1>18, <2>4, <2>5, <2>6, <2>7, DataAligned
<1>. QED
  BY <1>1, <1>16, <1>17

\* A start tag, and raw text after it.
LEMMA TagGoesTo ==
    ASSUME NEW s, Calm(s), NEW p \in 1 .. Len(s), InText(s, p), s[p] = "<",
           p < Len(s), s[p + 1] \in Letters,
           NEW tag, tag = StartTag(s, p), NEW q, q = PastTag(s, tag)
    PROVE  /\ q \in p + 1 .. Len(s) + 1 /\ Aligned(s, q)
           /\ TagsAt(s, q) =
                TagsAt(s, p) \cup {[name |-> tag.name, attrs |-> AttrsOf(tag)]}
<1> DEFINE e == tag.end
           t == Tokens(s)[e - 1]
           all == TagsAt(s, p) \cup {[name |-> tag.name, attrs |-> AttrsOf(tag)]}
           nameEnd == FirstOf(s, p + 1, TagNameEnds)
<1>1. Len(s) \in Nat /\ p \in Nat /\ p \in 1 .. Len(s) - 1 /\ s \in Seq(STRING)
  BY CalmLen
<1>2. Tokens(s)[p].mode = "open" /\ Tokens(s)[p].tags = TagsAt(s, p)
  BY AtFirst
<1>3. /\ e - 1 \in 1 .. Len(s) /\ t.tags = all
      /\ tag.name \in rawText => t.mode = "raw" /\ t.within = tag.name
      /\ tag.name \notin rawText => t.mode = "data"
      /\ tag.selfClosing => tag.name \notin rawText
  BY <1>1, <1>2, StartTagRead
<1>4. nameEnd \in p + 1 .. Len(s) + 1 /\ TagOrdered(s, tag, nameEnd)
  BY <1>1, StartTagOrdered
<1> HIDE DEF nameEnd
<1>5. e \in p + 1 .. Len(s) + 1
  <2>1. e \in nameEnd .. Len(s) + 1
    BY <1>4 DEF TagOrdered
  <2> HIDE DEF e
  <2>. QED
    BY <1>1, <1>4, <2>1
<1> HIDE DEF e, t, all
<1>6. CASE HoldsRawText(tag)
  <2>1. tag.name \in rawText
    BY <1>6 DEF HoldsRawText
  <2>2. t.mode = "raw" /\ t.within = tag.name
    BY <1>3, <2>1
  <2>3. q = findEndTag(s, tag.name, e) /\ e \in 1 .. Len(s) + 1
    BY <1>1, <1>5, <1>6 DEF PastTag, e
  <2>4. /\ q \in e .. Len(s) + 1
        /\ Tokens(s)[q - 1].mode \in RawModes /\ Tokens(s)[q - 1].within = tag.name
        /\ Tokens(s)[q - 1].tags = t.tags
        /\ q <= Len(s) => EndTagAt(s, tag.name, q)
    BY <2>2, <2>3, ToEndTag DEF t
  <2>5. q \in p + 1 .. Len(s) + 1 /\ (q = Len(s) + 1 \/ q <= Len(s))
    BY <1>1, <1>5, <2>4
  <2>6. Aligned(s, q)
    BY <2>1, <2>4, <2>5 DEF Aligned, InRawText
  <2>. QED
    BY <1>3, <2>4, <2>5, <2>6 DEF TagsAt, all
<1>7. CASE ~HoldsRawText(tag)
  <2>1. tag.name \notin rawText
    BY <1>3, <1>7 DEF HoldsRawText
  <2>2. q = e
    BY <1>7 DEF PastTag, e
  <2>3. t.mode = "data"
    BY <1>3, <2>1
  <2>4. Aligned(s, q)
    BY <2>2, <2>3 DEF Aligned, InText, t
  <2>5. TagsAt(s, q) = all
    BY <1>3, <2>2 DEF TagsAt, t
  <2>. QED
    BY <1>5, <2>2, <2>4, <2>5 DEF all
<1>. QED
  BY <1>6, <1>7

-----------------------------------------------------------------------------
\* What is replaced and left out of the tags passed.
Touching(spans) ==
    {spans[k] : k \in {k \in DOMAIN spans : spans[k].how \in {"replaced", "dropped"}}}

\* What two stretches of output touch, they touch together.
LEMMA TouchingJoin ==
    ASSUME NEW a \in Seq(Spans), NEW b \in Seq(Spans)
    PROVE  Touching(a \o b) = Touching(a) \cup Touching(b)
<1> DEFINE c == a \o b
<1>1. /\ Len(a) \in Nat /\ Len(b) \in Nat /\ Len(c) = Len(a) + Len(b)
      /\ DOMAIN a = 1 .. Len(a) /\ DOMAIN b = 1 .. Len(b) /\ DOMAIN c = 1 .. Len(c)
      /\ \A k \in 1 .. Len(a) : c[k] = a[k]
      /\ \A k \in 1 .. Len(b) : c[Len(a) + k] = b[k]
  OBVIOUS
<1> HIDE DEF c
<1>2. /\ 1 .. Len(a) \subseteq 1 .. Len(c)
      /\ \A k \in 1 .. Len(b) : Len(a) + k \in 1 .. Len(c)
      /\ \A k \in 1 .. Len(c) : k \notin 1 .. Len(a) =>
           k - Len(a) \in 1 .. Len(b) /\ Len(a) + (k - Len(a)) = k
  BY <1>1
<1>3. Touching(c) \subseteq Touching(a) \cup Touching(b)
  <2>1. ASSUME NEW k \in DOMAIN c, c[k].how \in {"replaced", "dropped"}
        PROVE  c[k] \in Touching(a) \cup Touching(b)
    <3>1. CASE k \in 1 .. Len(a)
      BY <1>1, <2>1, <3>1 DEF Touching
    <3>2. CASE k \notin 1 .. Len(a)
      <4> DEFINE m == k - Len(a)
      <4>1. m \in 1 .. Len(b) /\ Len(a) + m = k
        BY <1>1, <1>2, <3>2
      <4> HIDE DEF m
      <4>2. c[k] = b[m]
        BY <1>1, <4>1
      <4>. QED
        BY <1>1, <2>1, <4>1, <4>2 DEF Touching
    <3>. QED
      BY <3>1, <3>2
  <2>. QED
    BY <2>1 DEF Touching
<1>4. Touching(a) \subseteq Touching(c)
  BY <1>1, <1>2 DEF Touching
<1>5. Touching(b) \subseteq Touching(c)
  <2>1. ASSUME NEW k \in DOMAIN b, b[k].how \in {"replaced", "dropped"}
        PROVE  b[k] \in Touching(c)
    <3> DEFINE m == Len(a) + k
    <3>1. m \in DOMAIN c /\ c[m] = b[k]
      BY <1>1, <1>2
    <3> HIDE DEF m
    <3>. QED
      BY <2>1, <3>1 DEF Touching
  <2>. QED
    BY <2>1 DEF Touching
<1>. QED
  BY <1>3, <1>4, <1>5 DEF c

LEMMA TouchingOne ==
    ASSUME NEW x, NEW y
    PROVE  /\ Touching(<<>>) = {}
           /\ x.how \notin {"replaced", "dropped"} => Touching(<<x>>) = {}
           /\ x.how \notin {"replaced", "dropped"} /\ y.how \in {"replaced", "dropped"} =>
                Touching(<<x, y>>) = {y}
<1>1. DOMAIN <<x>> = {1} /\ <<x>>[1] = x
  OBVIOUS
<1>2. DOMAIN <<x, y>> = {1, 2} /\ <<x, y>>[1] = x /\ <<x, y>>[2] = y
  OBVIOUS
<1> DEFINE a == <<x>>
           b == <<x, y>>
<1>3. DOMAIN a = {1} /\ a[1] = x /\ DOMAIN b = {1, 2} /\ b[1] = x /\ b[2] = y
  BY <1>1, <1>2
<1>4. Touching(<<>>) = {}
  BY DEF Touching
<1> HIDE DEF a, b
<1>5. /\ x.how \notin {"replaced", "dropped"} => Touching(a) = {}
      /\ x.how \notin {"replaced", "dropped"} /\ y.how \in {"replaced", "dropped"} =>
           Touching(b) = {y}
  BY <1>3 DEF Touching
<1>. QED
  BY <1>4, <1>5 DEF a, b

LEMMA CopiedSpan ==
    ASSUME NEW tag, tag.start \in Nat, NEW spans \in Seq(Spans), NEW to \in Nat
    PROVE  /\ Copied(tag, spans, to) \in Spans
           /\ Copied(tag, spans, to).how \notin {"replaced", "dropped"}
<1> DEFINE from == IF spans = <<>> THEN tag.start ELSE Last(spans).to
           c == Span(from, to, "copied")
<1>1. from \in Nat
  <2>1. CASE spans = <<>>
    BY <2>1
  <2>2. CASE spans # <<>>
    <3>1. Len(spans) \in 1 .. Len(spans)
      BY <2>2
    <3>2. spans[Len(spans)] \in Spans
      BY <3>1
    <3>. QED
      BY <2>2, <3>2 DEF Last, Spans
  <2>. QED
    BY <2>1, <2>2
<1> HIDE DEF from
<1>2. c \in Spans
  BY <1>1, SpanType, HowsAre
<1>3. c.how = "copied"
  BY DEF Span
<1>4. Copied(tag, spans, to) = c
  BY DEF Copied, from
<1> HIDE DEF c
<1>. QED
  BY <1>2, <1>3, <1>4

LEMMA TouchedHow ==
    ASSUME NEW tag, NEW a
    PROVE  TouchedSpan(tag, a).how \in {"replaced", "dropped"}
BY DEF TouchedSpan, Span

\* writeStartTag replaces and leaves out what is touched of the tag's attributes.
LEMMA WrittenTouches ==
    ASSUME NEW s, NEW tag, tag.start \in Nat, tag.end \in Nat, tag.attrs \in Seq(Attributes),
           \A k \in 1 .. Len(tag.attrs) : InOrder(tag.attrs[k])
    PROVE  /\ Written(s, tag) \in Seq(Spans)
           /\ Touching(Written(s, tag)) =
                {TouchedSpan(tag, a) : a \in {a \in AttrsOf(tag) : IsTouched(s, tag, a)}}
<1> DEFINE n == Len(tag.attrs)
           w == WrittenUpTo(s, tag)
           upTo(m) == {TouchedSpan(tag, tag.attrs[j]) :
                         j \in {j \in 1 .. m : IsTouched(s, tag, tag.attrs[j])}}
           last == Copied(tag, w[n], tag.end)
<1>1. n \in Nat
  OBVIOUS
<1>2. /\ w \in [0 .. n -> Seq(Spans)] /\ w[0] = <<>>
      /\ \A k \in 1 .. n : w[k] = WrittenNext(s, tag, k, w[k - 1])
  BY WrittenSteps
<1>3. Written(s, tag) = Append(w[n], last)
  BY DEF Written
<1> HIDE DEF w, n
<1> DEFINE T == {m \in Nat : m <= n => Touching(w[m]) = upTo(m)}
<1>4. 0 \in T
  <2>1. upTo(0) = {}
    OBVIOUS
  <2>2. Touching(w[0]) = {}
    BY <1>2, TouchingOne
  <2>. QED
    BY <2>1, <2>2
<1>5. ASSUME NEW m \in T \cap Nat PROVE m + 1 \in T
  <2>. SUFFICES ASSUME m + 1 <= n PROVE Touching(w[m + 1]) = upTo(m + 1)
    OBVIOUS
  <2> DEFINE k == m + 1
             a == tag.attrs[k]
             x == TouchedSpan(tag, a)
             c == Copied(tag, w[m], x.from)
  <2>1. k \in 1 .. n /\ k - 1 = m /\ m \in 0 .. n /\ m <= n
    BY <1>1
  <2>2. Touching(w[m]) = upTo(m) /\ w[m] \in Seq(Spans)
    BY <1>2, <1>5, <2>1
  <2>3. w[k] = IF IsTouched(s, tag, a) THEN With(tag, w[m], x) ELSE w[m]
    BY <1>2, <2>1 DEF WrittenNext
  <2>4. upTo(k) = IF IsTouched(s, tag, a) THEN upTo(m) \cup {x} ELSE upTo(m)
    <3>1. 1 .. k = (1 .. m) \cup {k}
      BY <2>1
    <3>. QED
      BY <3>1
  <2>5. InOrder(a)
    BY <2>1 DEF n
  <2> HIDE DEF k, a, upTo
  <2>6. CASE IsTouched(s, tag, a)
    <3>1. x \in Spans /\ x.how \in {"replaced", "dropped"}
      BY <2>5, TouchedSpanRange, TouchedHow
    <3> HIDE DEF x
    <3>2. x.from \in Nat
      BY <3>1 DEF Spans
    <3>3. c \in Spans /\ c.how \notin {"replaced", "dropped"}
      BY <2>2, <3>2, CopiedSpan
    <3>4. w[k] = w[m] \o <<c, x>>
      BY <2>3, <2>6 DEF With
    <3> HIDE DEF c
    <3>7. Touching(<<c, x>>) = {x}
      BY <3>1, <3>3, TouchingOne
    <3>8. <<c, x>> \in Seq(Spans)
      BY <3>1, <3>3
    <3>5. Touching(<<c, x>>) = {x} /\ <<c, x>> \in Seq(Spans)
      BY <3>7, <3>8
    <3>6. Touching(w[m] \o <<c, x>>) = Touching(w[m]) \cup {x}
      BY <2>2, <3>5, TouchingJoin
    <3>. QED
      BY <2>2, <2>4, <2>6, <3>4, <3>6 DEF k, x
  <2>7. CASE ~IsTouched(s, tag, a)
    BY <2>2, <2>3, <2>4, <2>7 DEF k
  <2>. QED
    BY <2>6, <2>7
<1>6. n \in T
  <2>1. Nat \subseteq T
    <3> HIDE DEF T
    <3>. QED
      BY <1>4, <1>5, NatInd
  <2> HIDE DEF T
  <2>. QED
    BY <1>1, <2>1
<1>7. Touching(w[n]) = upTo(n) /\ w[n] \in Seq(Spans)
  BY <1>1, <1>2, <1>6
<1>8. upTo(n) = {TouchedSpan(tag, a) : a \in {a \in AttrsOf(tag) : IsTouched(s, tag, a)}}
  BY DEF AttrsOf, n
<1>9. last \in Spans /\ last.how \notin {"replaced", "dropped"}
  BY <1>7, CopiedSpan
<1> HIDE DEF last, T, upTo
<1>10. Append(w[n], last) = w[n] \o <<last>> /\ <<last>> \in Seq(Spans)
       /\ Append(w[n], last) \in Seq(Spans)
  BY <1>7, <1>9
<1>11. Touching(w[n] \o <<last>>) = Touching(w[n])
  <2>1. Touching(<<last>>) = {}
    BY <1>9, TouchingOne
  <2>2. Touching(w[n] \o <<last>>) = Touching(w[n]) \cup Touching(<<last>>)
    BY <1>7, <1>10, TouchingJoin
  <2>. QED
    BY <2>1, <2>2
<1>. QED
  BY <1>3, <1>7, <1>8, <1>10, <1>11

\* What is to be touched of a tag, by its attributes as a sequence or as a
\* set.
LEMMA TagTouches ==
    ASSUME NEW s, NEW tag
    PROVE  TouchOf(s, [name |-> tag.name, attrs |-> AttrsOf(tag)]) =
             {TouchedSpan(tag, a) : a \in {a \in AttrsOf(tag) : IsTouched(s, tag, a)}}
<1> DEFINE w == [name |-> tag.name, attrs |-> AttrsOf(tag)]
<1>1. w.name = tag.name /\ w.attrs = AttrsOf(tag)
  OBVIOUS
<1> HIDE DEF w
<1>2. \A a : TouchedSpan(w, a) = TouchedSpan(tag, a)
  BY <1>1 DEF TouchedSpan
<1>3. \A a : IsTouched(s, w, a) <=> IsTouched(s, tag, a)
  BY <1>1 DEF IsTouched
<1>4. TouchOf(s, w) = {TouchedSpan(tag, a) : a \in {a \in AttrsOf(tag) : IsTouched(s, tag, a)}}
  BY <1>1, <1>2, <1>3 DEF TouchOf
<1>. QED
  BY <1>4 DEF w

\* One turn brings the scanner to where it agrees with the tokenizer again, and
\* touches what is to be touched of the tags in between.
TouchAt(s, p) == TouchOfAll(s, TagsAt(s, p))
TurnsTo(s, p, spans, q) ==
    /\ q \in p + 1 .. Len(s) + 1 /\ Aligned(s, q)
    /\ spans \in Seq(Spans) /\ spans # <<>> /\ Last(spans).to = q
    /\ TouchAt(s, q) = TouchAt(s, p) \cup Touching(spans)

\* A turn that copies touches nothing.
LEMMA CopiedTurn ==
    ASSUME NEW s, Calm(s), NEW p \in 1 .. Len(s), NEW q, GoesTo(s, p, q)
    PROVE  TurnsTo(s, p, <<Span(p, q, "copied")>>, q)
<1>1. Len(s) \in Nat /\ p \in Nat /\ q \in p + 1 .. Len(s) + 1 /\ q \in Nat
  BY CalmLen DEF GoesTo
<1> DEFINE x == Span(p, q, "copied")
           spans == <<x>>
<1>2. x \in Spans /\ x.how = "copied" /\ x.to = q
  BY <1>1, SpanType, HowsAre DEF Span
<1> HIDE DEF x
<1>3. spans \in Seq(Spans) /\ spans # <<>> /\ Last(spans).to = q
  BY <1>2 DEF Last
<1>4. Touching(spans) = {}
  BY <1>2, TouchingOne
<1> HIDE DEF spans
<1>5. TurnsTo(s, p, spans, q)
  BY <1>3, <1>4 DEF TurnsTo, GoesTo, TouchAt
<1>. QED
  BY <1>5 DEF spans, x

\* What is to be touched with one more tag.
LEMMA TouchMore ==
    ASSUME NEW s, NEW tags, NEW w
    PROVE  TouchOfAll(s, tags \cup {w}) = TouchOfAll(s, tags) \cup TouchOf(s, w)
BY DEF TouchOfAll

\* A turn at a start tag touches what is to be touched of it.
LEMMA TagTurnsTo ==
    ASSUME NEW s, Calm(s), NEW p \in 1 .. Len(s), InText(s, p), s[p] = "<",
           p < Len(s), s[p + 1] \in Letters
    PROVE  TurnsTo(s, p, TagTurn(s, StartTag(s, p)), PastTag(s, StartTag(s, p)))
<1> DEFINE tag == StartTag(s, p)
           q == PastTag(s, tag)
           nameEnd == FirstOf(s, p + 1, TagNameEnds)
           w == Written(s, tag)
           seen == [name |-> tag.name, attrs |-> AttrsOf(tag)]
<1>1. s \in Seq(STRING) /\ Len(s) \in Nat /\ p \in Nat
  BY CalmLen DEF Calm
<1> HIDE DEF tag, nameEnd, q
<1>2. /\ nameEnd \in p + 1 .. Len(s) + 1 /\ tag.start = p
      /\ tag.attrs \in Seq(Attributes) /\ tag.end \in nameEnd .. Len(s) + 1
      /\ \A k \in 1 .. Len(tag.attrs) : InOrder(tag.attrs[k])
  BY <1>1, StartTagOrdered DEF TagOrdered, tag, nameEnd
<1>3. TagOrdered(s, tag, nameEnd)
  BY <1>1, StartTagOrdered DEF tag, nameEnd
<1>4. tag.start \in Nat /\ tag.end \in Nat /\ tag.end \in p + 1 .. Len(s) + 1 /\ tag.end # p
      /\ nameEnd \in 1 .. Len(s) + 1 /\ p <= nameEnd
  BY <1>1, <1>2
<1>5. q \in p + 1 .. Len(s) + 1 /\ Aligned(s, q) /\ TagsAt(s, q) = TagsAt(s, p) \cup {seen}
  BY TagGoesTo DEF tag, q
<1>6. w \in Seq(Spans)
      /\ Touching(w) = {TouchedSpan(tag, a) : a \in {a \in AttrsOf(tag) : IsTouched(s, tag, a)}}
  BY <1>2, <1>4, WrittenTouches
<1>7. TouchOf(s, seen) =
        {TouchedSpan(tag, a) : a \in {a \in AttrsOf(tag) : IsTouched(s, tag, a)}}
  BY TagTouches
<1>8. Runs(w, p, tag.end)
  BY <1>1, <1>2, <1>3, <1>4, WrittenRuns
<1> HIDE DEF w, seen
<1>9. TouchAt(s, q) = TouchAt(s, p) \cup Touching(w)
  BY <1>5, <1>6, <1>7, TouchMore DEF TouchAt
<1>10. w # <<>> /\ w[Len(w)].to = tag.end
  BY <1>4, <1>8 DEF Runs, EndOf
<1> DEFINE u == TagTurn(s, tag)
<1>11. u \in Seq(Spans) /\ u # <<>> /\ Last(u).to = q /\ Touching(u) = Touching(w)
  <2>1. CASE ~HoldsRawText(tag)
    <3>1. u = w \o <<>> /\ q = tag.end
      BY <2>1 DEF TagTurn, PastTag, w, q
    <3>2. u = w
      BY <1>6, <3>1
    <3>. QED
      BY <1>6, <1>10, <3>1, <3>2 DEF Last
  <2>2. CASE HoldsRawText(tag)
    <3> DEFINE how == IF tag.name = Style THEN "css" ELSE "copied"
               x == Span(tag.end, q, how)
    <3>1. u = w \o <<x>>
      BY <2>2 DEF TagTurn, w, q
    <3>2. how \in Hows /\ how \notin {"replaced", "dropped"}
      BY HowsAre
    <3> HIDE DEF how
    <3>3. q \in Nat
      BY <1>1, <1>5
    <3>4. x \in Spans
      BY <1>4, <3>2, <3>3, SpanType
    <3>5. x.how \notin {"replaced", "dropped"} /\ x.to = q
      BY <3>2 DEF Span
    <3> HIDE DEF x, u
    <3>6. <<x>> \in Seq(Spans)
      BY <3>4
    <3>7. Touching(<<x>>) = {}
      BY <3>5, TouchingOne
    <3>8. Touching(w \o <<x>>) = Touching(w) \cup Touching(<<x>>)
      BY <1>6, <3>6, TouchingJoin
    <3>9. w \o <<x>> = Append(w, x)
      BY <1>6, <3>4
    <3> DEFINE v == Append(w, x)
    <3>10. v \in Seq(Spans) /\ Len(v) = Len(w) + 1 /\ v[Len(w) + 1] = x /\ Len(w) \in Nat
      BY <1>6, <3>4
    <3> HIDE DEF v
    <3>11. v # <<>> /\ Last(v) = x
      BY <3>10 DEF Last
    <3>12. u = v
      BY <3>1, <3>9 DEF v
    <3>. QED
      BY <3>1, <3>5, <3>7, <3>8, <3>10, <3>11, <3>12
  <2>. QED
    BY <2>1, <2>2
<1> HIDE DEF u
<1>12. TurnsTo(s, p, u, q)
  BY <1>5, <1>9, <1>11 DEF TurnsTo
<1>. QED
  BY <1>12 DEF u, q, tag

\* htmlScanner.run at a '<',
LEMMA TurnGoesTo ==
    ASSUME NEW s, Calm(s), NEW p \in 1 .. Len(s), Aligned(s, p), s[p] = "<"
    PROVE  \E q : TurnsTo(s, p, Turn(s, p), q)
<1>1. s \in Seq(STRING) /\ Len(s) \in Nat /\ p \in Nat /\ p # Len(s) + 1
  BY CalmLen DEF Calm
<1> DEFINE comment == At(s, p, <<"<", "!", "-", "-">>)
           bang == At(s, p, <<"<", "!">>)
           slash == At(s, p, <<"<", "/">>)
           named == p < Len(s) /\ s[p + 1] \in Letters
           close == Occurs(s, p + 4, <<"-", "-", ">">>)
           past == IF close = 0 THEN Len(s) + 1 ELSE close + 3
           gt == FirstOf(s, p, {">"})
           ends == IF gt > Len(s) THEN gt ELSE gt + 1
           tagTurn == TagTurn(s, StartTag(s, p))
           t == Turn(s, p)
<1>2. Turn(s, p) =
        CASE comment -> <<Span(p, past, "copied")>>
          [] ~comment /\ (bang \/ slash) -> <<Span(p, ends, "copied")>>
          [] named -> tagTurn
          [] OTHER -> <<Span(p, p + 1, "copied")>>
  BY DEF Turn
<1>3. ends = PastGt(s, p)
  BY DEF PastGt
<1>4. bang => p + 1 <= Len(s) /\ s[p + 1] = "!"
  BY <1>1, AtPair
<1>5. slash => p + 1 <= Len(s) /\ s[p + 1] = "/"
  BY <1>1, AtPair
<1>6. comment => bang
  <2>1. comment => p + 3 <= Len(s) /\ s[p] = "<" /\ s[p + 1] = "!"
    BY <1>1, AtQuadruple
  <2>2. p + 1 <= Len(s) /\ s[p] = "<" /\ s[p + 1] = "!" => bang
    BY <1>1, AtPair
  <2>. QED
    BY <1>1, <2>1, <2>2
<1>7. ~bang /\ ~slash => (p + 1 <= Len(s) => s[p + 1] \notin {"/", "!"})
  BY <1>1, AtPair
<1>8. InRawText(s, p) => slash
  BY RawAtLt
<1>9. "!" \notin Letters /\ "/" \notin Letters
  BY DEF Letters
<1>10. ~InRawText(s, p) => InText(s, p)
  BY <1>1 DEF Aligned
<1>11. comment /\ InText(s, p) => GoesTo(s, p, past)
  BY CommentGoesTo
<1>12. ~comment /\ bang /\ InText(s, p) => GoesTo(s, p, ends)
  BY <1>3, BangGoesTo
<1>13. slash /\ InText(s, p) => GoesTo(s, p, ends)
  BY <1>3, EndTagGoesTo
<1>14. InRawText(s, p) => GoesTo(s, p, ends)
  BY <1>3, RawEndGoesTo
<1>15. named /\ InText(s, p) => TurnsTo(s, p, tagTurn, PastTag(s, StartTag(s, p)))
  BY TagTurnsTo
<1>16. ~bang /\ ~slash /\ ~named /\ InText(s, p) => GoesTo(s, p, p + 1)
  <2>. SUFFICES ASSUME ~bang, ~slash, ~named, InText(s, p) PROVE GoesTo(s, p, p + 1)
    OBVIOUS
  <2>1. p + 1 <= Len(s) => s[p + 1] \notin Letters \cup {"/", "!"}
    BY <1>1, <1>7
  <2>. QED
    BY <2>1, BareGoesTo
<1>20. bang \/ slash => ~named
  BY <1>4, <1>5, <1>9
<1> HIDE DEF comment, bang, slash, named, past, ends, tagTurn, t
<1>17. ASSUME NEW q, GoesTo(s, p, q), t = <<Span(p, q, "copied")>>
       PROVE  \E x : TurnsTo(s, p, t, x)
  BY <1>17, CopiedTurn
<1>18. t = CASE comment -> <<Span(p, past, "copied")>>
             [] ~comment /\ (bang \/ slash) -> <<Span(p, ends, "copied")>>
             [] named -> tagTurn
             [] OTHER -> <<Span(p, p + 1, "copied")>>
  BY <1>2 DEF t
<1>19. \E x : TurnsTo(s, p, t, x)
  <2>1. CASE comment
    <3>1. InText(s, p)
      <4>1. ~slash
        BY <1>4, <1>5, <1>6, <2>1
      <4>. QED
        BY <1>8, <1>10, <4>1
    <3>. QED
      <4>1. t = <<Span(p, past, "copied")>>
        BY <1>6, <1>18, <1>20, <2>1
      <4>. QED
        BY <1>11, <1>17, <2>1, <3>1, <4>1
  <2>2. CASE ~comment /\ (bang \/ slash)
    <3>1. GoesTo(s, p, ends)
      BY <1>10, <1>12, <1>13, <1>14, <2>2
    <3>2. t = <<Span(p, ends, "copied")>>
      BY <1>18, <1>20, <2>2
    <3>. QED
      BY <1>17, <3>1, <3>2
  <2>3. CASE ~comment /\ ~bang /\ ~slash /\ named
    BY <1>8, <1>10, <1>15, <1>18, <2>3
  <2>4. CASE ~comment /\ ~bang /\ ~slash /\ ~named
    <3>1. GoesTo(s, p, p + 1)
      BY <1>8, <1>10, <1>16, <2>4
    <3>2. t = <<Span(p, p + 1, "copied")>>
      BY <1>18, <2>4
    <3>. QED
      BY <1>17, <3>1, <3>2
  <2>. QED
    BY <2>1, <2>2, <2>3, <2>4
<1>. QED
  BY <1>19 DEF t

-----------------------------------------------------------------------------
\* Exchange.  What has been touched is what is to be touched of what has been
\* passed,
MarkupInv ==
    Ordinary(doc) => Aligned(doc, pos) /\ Touching(out) = TouchAt(doc, pos)
\* and the scan ends with the document.
EndInv == pc \in {"inject", "respond", "done"} => pos > Len(doc)

LEMMA InitMarkup == Init /\ GivenInv => MarkupInv /\ EndInv
<1>. SUFFICES ASSUME Init, GivenInv PROVE MarkupInv /\ EndInv
  OBVIOUS
<1>1. pos = 1 /\ out = <<>> /\ pc = "request" /\ doc \in Seq(STRING)
  BY DEF Init, GivenInv
<1>2. EndInv
  BY <1>1 DEF EndInv
<1>3. Tokens(doc)[0] = Fresh
  BY <1>1, TokensSteps
<1>4. Tokens(doc)[pos - 1] = Fresh
  BY <1>1, <1>3
<1>5. Fresh.mode = "data" /\ Fresh.tags = {}
  BY DEF Fresh
<1>6. Aligned(doc, pos)
  BY <1>4, <1>5 DEF Aligned, InText
<1>7. TouchAt(doc, pos) = {}
  BY <1>4, <1>5 DEF TouchAt, TagsAt, TouchOfAll
<1>8. Touching(out) = {}
  BY <1>1, TouchingOne
<1>. QED
  BY <1>2, <1>6, <1>7, <1>8 DEF MarkupInv

\* A turn keeps what has been touched in step with what is to be.
LEMMA WritesTurn ==
    ASSUME GivenInv, ScanInv, Ordinary(doc), MarkupInv, NEW spans, Writes(spans),
           NEW q, TurnsTo(doc, pos, spans, q)
    PROVE  MarkupInv'
<1>1. doc' = doc /\ pos' = q /\ out' = out \o spans
  BY DEF Writes, given, TurnsTo
<1>2. out \in Seq(Spans) /\ spans \in Seq(Spans)
  BY DEF ScanInv, Runs, TurnsTo
<1>3. Touching(out \o spans) = Touching(out) \cup Touching(spans)
  BY <1>2, TouchingJoin
<1>4. Touching(out \o spans) = TouchAt(doc, q) /\ Aligned(doc, q)
  BY <1>3 DEF MarkupInv, TurnsTo
<1>. QED
  BY <1>1, <1>4 DEF MarkupInv

\* Every step does.
LEMMA NextMarkup ==
    GivenInv /\ ScanInv /\ MarkupInv /\ EndInv /\ [Next]_vars => (MarkupInv /\ EndInv)'
<1>. SUFFICES ASSUME GivenInv, ScanInv, MarkupInv, EndInv, [Next]_vars
              PROVE  MarkupInv' /\ EndInv'
  OBVIOUS
<1>1. Len(doc) \in Nat /\ doc \in Seq(STRING) /\ pos \in 1 .. Len(doc) + 1
  BY DEF GivenInv, ScanInv
<1>2. ASSUME UNCHANGED <<doc, pos, out>> PROVE MarkupInv'
  BY <1>2 DEF MarkupInv
<1>3. CASE ScanText
  <2> DEFINE q == FirstOf(doc, pos, {"<"})
  <2>1. pos \in 1 .. Len(doc) /\ doc[pos] # "<" /\ Writes(<<Span(pos, q, "copied")>>)
        /\ pc = "scan"
    BY <1>1, <1>3 DEF ScanText
  <2>2. Ordinary(doc) => MarkupInv'
    <3>. SUFFICES ASSUME Ordinary(doc) PROVE MarkupInv'
      OBVIOUS
    <3>1. Calm(doc) /\ Aligned(doc, pos)
      BY <1>1 DEF Calm, MarkupInv
    <3>2. GoesTo(doc, pos, q)
      BY <2>1, <3>1, TextGoesTo
    <3> HIDE DEF q
    <3>3. TurnsTo(doc, pos, <<Span(pos, q, "copied")>>, q)
      BY <2>1, <3>1, <3>2, CopiedTurn
    <3>. QED
      BY <2>1, <3>3, WritesTurn
  <2>3. doc' = doc /\ pc' = "scan"
    BY <2>1 DEF Writes, given
  <2>. QED
    BY <2>2, <2>3 DEF MarkupInv, EndInv
<1>4. CASE ScanMarkup
  <2>1. pos \in 1 .. Len(doc) /\ doc[pos] = "<" /\ Writes(Turn(doc, pos)) /\ pc = "scan"
    BY <1>1, <1>4 DEF ScanMarkup
  <2>2. Ordinary(doc) => MarkupInv'
    <3>. SUFFICES ASSUME Ordinary(doc) PROVE MarkupInv'
      OBVIOUS
    <3>1. Calm(doc) /\ Aligned(doc, pos)
      BY <1>1 DEF Calm, MarkupInv
    <3>2. PICK q : TurnsTo(doc, pos, Turn(doc, pos), q)
      BY <2>1, <3>1, TurnGoesTo
    <3>. QED
      BY <2>1, <3>2, WritesTurn
  <2>3. doc' = doc /\ pc' = "scan"
    BY <2>1 DEF Writes, given
  <2>. QED
    BY <2>2, <2>3 DEF MarkupInv, EndInv
<1>5. CASE ScanEnds
  BY <1>1, <1>2, <1>5 DEF ScanEnds, given, EndInv
<1>6. CASE Ask \/ Answered \/ Inject \/ Respond \/ UNCHANGED vars
  BY <1>2, <1>6 DEF Ask, Answered, Inject, Respond, vars, given, EndInv
<1>. QED
  BY <1>3, <1>4, <1>5, <1>6 DEF Next

\* Exactly the values a browser takes for attributes are replaced.
LEMMA TouchesAll ==
    ASSUME GivenInv, ScanInv, MarkupInv, EndInv, pc = "inject", Ordinary(doc)
    PROVE  Touches = ToTouch(doc)
<1>1. Len(doc) \in Nat /\ pos \in 1 .. Len(doc) + 1 /\ pos > Len(doc)
  BY DEF GivenInv, ScanInv, EndInv
<1>2. pos - 1 = Len(doc)
  BY <1>1
<1>3. Touching(out) = TouchAt(doc, pos)
  BY DEF MarkupInv
<1>4. Touches = Touching(out)
  BY DEF Touches, Touching
<1>5. TouchAt(doc, pos) = ToTouch(doc)
  BY <1>2 DEF TouchAt, TagsAt, ToTouch, Tokenized
<1>. QED
  BY <1>3, <1>4, <1>5

-----------------------------------------------------------------------------
\* documentBase.  What it finds at a '<':
OpensComment(s, lt) == At(s, lt, <<"<", "!", "-", "-">>)
OpensTag(s, lt) == lt < Len(s) /\ s[lt + 1] \in Letters
ClosesHead(s, lt) == At(s, lt, <<"<", "/">>) /\ hasTagNameAt(s, lt + 2, HeadTag)
AfterComment(s, f, lt) ==
    LET close == Occurs(s, lt + 4, <<"-", "-", ">">>)
    IN  IF close = 0 THEN <<>> ELSE f[close + 3]

\* The ways documentBase goes on from a '<',
LEMMA BaseCases ==
    ASSUME NEW s \in Seq(STRING), NEW lt \in 1 .. Len(s) + 1, NEW f
    PROVE  \/ lt = Len(s) + 1 /\ BaseAt(s, f, lt) = <<>>
           \/ /\ lt <= Len(s) /\ OpensComment(s, lt) /\ ~OpensTag(s, lt)
              /\ BaseAt(s, f, lt) = AfterComment(s, f, lt)
           \/ /\ lt <= Len(s) /\ OpensTag(s, lt) /\ ~OpensComment(s, lt)
              /\ BaseAt(s, f, lt) = BaseAtTag(s, f, StartTag(s, lt))
           \/ /\ lt <= Len(s) /\ ~OpensComment(s, lt) /\ ~OpensTag(s, lt)
              /\ BaseAt(s, f, lt) = IF ClosesHead(s, lt) THEN <<>> ELSE f[lt + 1]
<1>1. Len(s) \in Nat /\ lt \in Nat
  OBVIOUS
<1> DEFINE comment == OpensComment(s, lt)
           opens == OpensTag(s, lt)
           closes == ClosesHead(s, lt)
           after == AfterComment(s, f, lt)
           atTag == BaseAtTag(s, f, StartTag(s, lt))
           t == BaseAt(s, f, lt)
<1>2. t = CASE lt > Len(s) -> <<>>
            [] comment -> after
            [] opens -> atTag
            [] closes -> <<>>
            [] OTHER -> f[lt + 1]
  BY DEF BaseAt, OpensComment, OpensTag, ClosesHead, AfterComment
<1>3. comment => lt + 3 <= Len(s) /\ s[lt + 1] = "!"
  BY <1>1, AtQuadruple DEF OpensComment
<1>4. closes => lt + 1 <= Len(s) /\ s[lt + 1] = "/"
  BY <1>1, AtPair DEF ClosesHead
<1>5. opens => lt < Len(s) /\ s[lt + 1] # "!" /\ s[lt + 1] # "/"
  BY DEF OpensTag, Letters
<1> HIDE DEF comment, opens, closes, after, atTag, t
<1>6. CASE lt > Len(s)
  <2>1. lt = Len(s) + 1 /\ ~comment /\ ~opens /\ ~closes
    BY <1>1, <1>3, <1>4, <1>5, <1>6
  <2>2. t = <<>>
    BY <1>2, <1>6, <2>1
  <2>. QED
    BY <2>1, <2>2 DEF t
<1>7. CASE lt <= Len(s) /\ comment
  <2>1. ~opens /\ ~closes /\ ~(lt > Len(s))
    BY <1>1, <1>3, <1>4, <1>5, <1>7
  <2>2. t = after
    BY <1>2, <1>7, <2>1
  <2>. QED
    BY <1>7, <2>1, <2>2 DEF t, after, comment, opens
<1>8. CASE lt <= Len(s) /\ ~comment /\ opens
  <2>1. ~closes /\ ~(lt > Len(s))
    BY <1>1, <1>4, <1>5, <1>8
  <2>2. t = atTag
    BY <1>2, <1>8, <2>1
  <2>. QED
    BY <1>8, <2>1, <2>2 DEF t, atTag, comment, opens
<1>9. CASE lt <= Len(s) /\ ~comment /\ ~opens
  <2>1. ~(lt > Len(s))
    BY <1>1, <1>9
  <2>2. t = IF closes THEN <<>> ELSE f[lt + 1]
    BY <1>2, <1>9, <2>1
  <2>. QED
    BY <1>9, <2>2 DEF t, closes, comment, opens
<1>10. lt > Len(s) \/ lt <= Len(s)
  BY <1>1
<1>. QED
  BY <1>6, <1>7, <1>8, <1>9, <1>10, Zenon

\* and from a start tag.
LEMMA BaseTagCases ==
    ASSUME NEW s, NEW f, NEW tag
    PROVE  \/ /\ tag.name = Base /\ FirstHref(s, tag) > 0
              /\ BaseAtTag(s, f, tag) = BaseSpan(tag.attrs[FirstHref(s, tag)])
           \/ /\ ~(tag.name = Base /\ FirstHref(s, tag) > 0)
              /\ BaseAtTag(s, f, tag) =
                   IF tag.name \notin headContent THEN <<>> ELSE f[PastTag(s, tag)]
<1> DEFINE found == tag.name = Base /\ FirstHref(s, tag) > 0
           span == BaseSpan(tag.attrs[FirstHref(s, tag)])
           on == f[PastTag(s, tag)]
           t == BaseAtTag(s, f, tag)
           ends == tag.name \notin headContent
<1>1. t = CASE found -> span [] ends -> <<>> [] OTHER -> on
  BY DEF BaseAtTag
<1>2. found => ~ends
  BY DEF headContent
<1> HIDE DEF found, span, on, t, ends
<1>3. CASE found
  BY <1>1, <1>2, <1>3 DEF found, span, t
<1>4. CASE ~found
  <2>1. t = IF ends THEN <<>> ELSE on
    BY <1>1, <1>4
  <2>. QED
    BY <1>4, <2>1 DEF found, on, t, ends
<1>. QED
  BY <1>3, <1>4

\* The href it takes is one of the tag's.
LEMMA FirstHrefRange ==
    ASSUME NEW s, NEW tag, Len(tag.attrs) \in Nat, FirstHref(s, tag) > 0
    PROVE  /\ FirstHref(s, tag) \in 1 .. Len(tag.attrs)
           /\ tag.attrs[FirstHref(s, tag)].name = Href
<1> DEFINE I == {i \in 1 .. Len(tag.attrs) :
                   tag.attrs[i].name = Href /\ HasText(s, tag.attrs[i])}
<1>1. FirstHref(s, tag) = IF I # {} THEN CHOOSE x \in I : \A y \in I : x =< y ELSE 0
  BY DEF FirstHref, SelectInSeq, Min
<1>2. I # {} /\ I \in SUBSET Nat
  BY <1>1
<1>3. \E x \in I : \A y \in I : x =< y
  BY <1>2, NatMin
<1>4. FirstHref(s, tag) \in I
  BY <1>1, <1>2, <1>3
<1>. QED
  BY <1>4

\* It goes on past a tag,
LEMMA PastTagRange ==
    ASSUME NEW s \in Seq(STRING), NEW i \in 1 .. Len(s)
    PROVE  PastTag(s, StartTag(s, i)) \in i + 1 .. Len(s) + 1
<1> DEFINE tag == StartTag(s, i)
           nameEnd == FirstOf(s, i + 1, TagNameEnds)
<1>1. Len(s) \in Nat /\ i \in Nat
  OBVIOUS
<1>2. nameEnd \in i + 1 .. Len(s) + 1 /\ tag.end \in nameEnd .. Len(s) + 1
  BY StartTagOrdered DEF TagOrdered
<1> HIDE DEF tag, nameEnd
<1>3. tag.end \in i + 1 .. Len(s) + 1 /\ tag.end \in 1 .. Len(s) + 1
  BY <1>1, <1>2
<1>4. findEndTag(s, tag.name, tag.end) \in tag.end .. Len(s) + 1
  BY <1>3, EndTagRange
<1>5. PastTag(s, tag) \in i + 1 .. Len(s) + 1
  BY <1>1, <1>3, <1>4 DEF PastTag
<1>. QED
  BY <1>5 DEF tag

\* and past a comment.
LEMMA PastCommentRange ==
    ASSUME NEW s \in Seq(STRING), NEW i \in 1 .. Len(s), OpensComment(s, i),
           NEW close, close = Occurs(s, i + 4, <<"-", "-", ">">>), close # 0
    PROVE  close + 3 \in i + 1 .. Len(s) + 1
<1>1. Len(s) \in Nat /\ i \in Nat /\ i + 3 <= Len(s)
  BY AtQuadruple DEF OpensComment
<1>2. i + 4 \in 1 .. Len(s) + 1
  BY <1>1
<1>3. close \in i + 4 .. Len(s) /\ At(s, close, <<"-", "-", ">">>)
  BY <1>2, OccursRange
<1>4. close \in Nat /\ close + 2 <= Len(s)
  BY <1>1, <1>3, AtTriple
<1>. QED
  BY <1>1, <1>3, <1>4

\* It looks at later positions only,
LEMMA BaseAtSame ==
    ASSUME NEW s \in Seq(STRING), NEW lt \in 1 .. Len(s) + 1, NEW f, NEW g,
           \A k \in lt + 1 .. Len(s) + 1 : f[k] = g[k]
    PROVE  BaseAt(s, f, lt) = BaseAt(s, g, lt)
<1>1. Len(s) \in Nat /\ lt \in Nat
  OBVIOUS
<1>2. ASSUME lt <= Len(s), OpensComment(s, lt)
      PROVE  AfterComment(s, f, lt) = AfterComment(s, g, lt)
  <2> DEFINE close == Occurs(s, lt + 4, <<"-", "-", ">">>)
  <2>1. lt \in 1 .. Len(s)
    BY <1>1, <1>2
  <2>2. close # 0 => close + 3 \in lt + 1 .. Len(s) + 1
    BY <1>2, <2>1, PastCommentRange
  <2> HIDE DEF close
  <2>3. close # 0 => f[close + 3] = g[close + 3]
    BY <2>2
  <2>. QED
    BY <2>3 DEF AfterComment, close
<1>3. ASSUME lt <= Len(s)
      PROVE  BaseAtTag(s, f, StartTag(s, lt)) = BaseAtTag(s, g, StartTag(s, lt))
  <2> DEFINE tag == StartTag(s, lt)
             q == PastTag(s, tag)
  <2>1. lt \in 1 .. Len(s)
    BY <1>1, <1>3
  <2>2. q \in lt + 1 .. Len(s) + 1
    BY <2>1, PastTagRange
  <2> HIDE DEF tag, q
  <2>3. f[q] = g[q]
    BY <2>2
  <2>4. BaseAtTag(s, f, tag) = BaseAtTag(s, g, tag)
    BY <2>3, BaseTagCases DEF q
  <2>. QED
    BY <2>4 DEF tag
<1>4. lt <= Len(s) => f[lt + 1] = g[lt + 1]
  BY <1>1
<1> DEFINE cf == AfterComment(s, f, lt)
           cg == AfterComment(s, g, lt)
           tf == BaseAtTag(s, f, StartTag(s, lt))
           tg == BaseAtTag(s, g, StartTag(s, lt))
           x == BaseAt(s, f, lt)
           y == BaseAt(s, g, lt)
           comment == OpensComment(s, lt)
           opens == OpensTag(s, lt)
           closes == ClosesHead(s, lt)
<1>5. \/ lt = Len(s) + 1 /\ x = <<>>
      \/ lt <= Len(s) /\ comment /\ ~opens /\ x = cf
      \/ lt <= Len(s) /\ opens /\ ~comment /\ x = tf
      \/ /\ lt <= Len(s) /\ ~comment /\ ~opens
         /\ x = IF closes THEN <<>> ELSE f[lt + 1]
  BY BaseCases
<1>6. \/ lt = Len(s) + 1 /\ y = <<>>
      \/ lt <= Len(s) /\ comment /\ ~opens /\ y = cg
      \/ lt <= Len(s) /\ opens /\ ~comment /\ y = tg
      \/ /\ lt <= Len(s) /\ ~comment /\ ~opens
         /\ y = IF closes THEN <<>> ELSE g[lt + 1]
  BY BaseCases
<1>7. (lt <= Len(s) /\ comment => cf = cg) /\ (lt <= Len(s) => tf = tg)
  BY <1>2, <1>3
<1> HIDE DEF cf, cg, tf, tg, x, y, comment, opens, closes
<1>8. x = y
  BY <1>1, <1>4, <1>5, <1>6, <1>7
<1>. QED
  BY <1>8 DEF x, y

\* and yields spans,
LEMMA BaseAtType ==
    ASSUME NEW s \in Seq(STRING), NEW lt \in 1 .. Len(s) + 1,
           NEW f \in [1 .. Len(s) + 1 -> Seq(Spans)]
    PROVE  BaseAt(s, f, lt) \in Seq(Spans)
<1>1. Len(s) \in Nat /\ lt \in Nat /\ <<>> \in Seq(Spans)
  OBVIOUS
<1>2. \A k \in lt + 1 .. Len(s) + 1 : f[k] \in Seq(Spans)
  BY <1>1
<1>3. ASSUME lt <= Len(s), OpensComment(s, lt) PROVE AfterComment(s, f, lt) \in Seq(Spans)
  <2> DEFINE close == Occurs(s, lt + 4, <<"-", "-", ">">>)
  <2>1. lt \in 1 .. Len(s)
    BY <1>1, <1>3
  <2>2. close # 0 => close + 3 \in lt + 1 .. Len(s) + 1
    BY <1>3, <2>1, PastCommentRange
  <2> HIDE DEF close
  <2>3. close # 0 => f[close + 3] \in Seq(Spans)
    BY <1>2, <2>2
  <2>. QED
    BY <1>1, <2>3 DEF AfterComment, close
<1>4. ASSUME lt <= Len(s) PROVE BaseAtTag(s, f, StartTag(s, lt)) \in Seq(Spans)
  <2> DEFINE tag == StartTag(s, lt)
             q == PastTag(s, tag)
             k == FirstHref(s, tag)
             a == tag.attrs[k]
  <2>1. lt \in 1 .. Len(s)
    BY <1>1, <1>4
  <2>2. q \in lt + 1 .. Len(s) + 1
    BY <2>1, PastTagRange
  <2>3. tag.attrs \in Seq(Attributes) /\ \A j \in 1 .. Len(tag.attrs) : InOrder(tag.attrs[j])
    BY <2>1, StartTagOrdered DEF TagOrdered
  <2> HIDE DEF tag, q
  <2>4. f[q] \in Seq(Spans)
    BY <1>2, <2>2
  <2>5. k > 0 => BaseSpan(a) \in Seq(Spans)
    <3>. SUFFICES ASSUME k > 0 PROVE BaseSpan(a) \in Seq(Spans)
      OBVIOUS
    <3>1. k \in 1 .. Len(tag.attrs)
      BY <2>3, FirstHrefRange
    <3> HIDE DEF k
    <3>2. InOrder(a)
      BY <2>3, <3>1
    <3> HIDE DEF a
    <3>3. Span(a.start, a.end, "dropped") \in Spans
      BY <3>2, SpanType, HowsAre DEF InOrder, Attributes
    <3>. QED
      BY <3>3 DEF BaseSpan
  <2> DEFINE t == BaseAtTag(s, f, tag)
  <2>6. \/ k > 0 /\ t = BaseSpan(a)
        \/ t = <<>>
        \/ t = f[q]
    BY BaseTagCases DEF q
  <2> HIDE DEF k, a, t
  <2>7. t \in Seq(Spans)
    BY <1>1, <2>4, <2>5, <2>6
  <2>. QED
    BY <2>7 DEF t, tag
<1>5. lt <= Len(s) => f[lt + 1] \in Seq(Spans)
  BY <1>1, <1>2
<1> DEFINE t == BaseAt(s, f, lt)
           c == AfterComment(s, f, lt)
           b == BaseAtTag(s, f, StartTag(s, lt))
<1>6. \/ t = <<>>
      \/ lt <= Len(s) /\ OpensComment(s, lt) /\ t = c
      \/ lt <= Len(s) /\ t = b
      \/ lt <= Len(s) /\ t = IF ClosesHead(s, lt) THEN <<>> ELSE f[lt + 1]
  BY BaseCases
<1>7. (lt <= Len(s) /\ OpensComment(s, lt) => c \in Seq(Spans))
      /\ (lt <= Len(s) => b \in Seq(Spans))
  BY <1>3, <1>4
<1> HIDE DEF t, c, b
<1>8. t \in Seq(Spans)
  BY <1>1, <1>5, <1>6, <1>7
<1>. QED
  BY <1>8 DEF t

\* so that there is such a function.
LEMMA BaseSteps ==
    ASSUME NEW s \in Seq(STRING)
    PROVE  \E f : /\ documentBase(s) = f[1]
                  /\ \A j \in 1 .. Len(s) + 1 : f[j] = BaseAt(s, f, FirstOf(s, j, {"<"}))
<1> DEFINE n == Len(s) + 1
           D == 1 .. n
           S == Seq(Spans)
           lt(j) == FirstOf(s, j, {"<"})
           step == [j \in D |-> [f \in [D -> S] |-> BaseAt(s, f, lt(j))]]
           w == CHOOSE w : w = [j \in D |-> BaseAt(s, w, lt(j))]
<1>1. documentBase(s) = w[1]
  BY DEF documentBase
<1>2. Len(s) \in Nat /\ n \in Nat /\ 1 \in Nat /\ n = Len(s) + 1
  OBVIOUS
<1>3. ASSUME NEW j \in D PROVE lt(j) \in j .. n /\ lt(j) \in 1 .. Len(s) + 1 /\ j \in Nat
  <2>1. j \in 1 .. Len(s) + 1 /\ j \in Nat
    OBVIOUS
  <2>2. lt(j) \in j .. Len(s) + 1
    BY <1>2, <2>1, FirstOfRange
  <2> HIDE DEF lt
  <2>. QED
    BY <1>2, <2>1, <2>2
<1>4. \A j \in D : \A f \in [D -> S] : BaseAt(s, f, lt(j)) \in S
  BY <1>3, BaseAtType
<1>5. ASSUME NEW j \in D, NEW f, NEW g, \A k \in j + 1 .. n : f[k] = g[k]
      PROVE  BaseAt(s, f, lt(j)) = BaseAt(s, g, lt(j))
  <2> DEFINE i == lt(j)
  <2>1. i \in j .. n /\ i \in 1 .. Len(s) + 1 /\ j \in Nat
    BY <1>3
  <2> HIDE DEF i, lt
  <2>2. \A k \in i + 1 .. Len(s) + 1 : f[k] = g[k]
    BY <1>2, <1>5, <2>1
  <2>3. BaseAt(s, f, i) = BaseAt(s, g, i)
    BY <2>1, <2>2, BaseAtSame
  <2>. QED
    BY <2>3 DEF i
<1> HIDE DEF lt, D, S, n
<1>6. step \in DownSteps(1, n, S)
  <2>1. step \in [D -> [[D -> S] -> S]]
    BY <1>4
  <2>2. \A j \in D : \A f \in [D -> S] : step[j][f] = BaseAt(s, f, lt(j))
    OBVIOUS
  <2> HIDE DEF step
  <2>3. \A j \in D : \A f, g \in [D -> S] :
          (\A k \in j + 1 .. n : f[k] = g[k]) => step[j][f] = step[j][g]
    BY <1>5, <2>2
  <2>. QED
    BY <2>1, <2>3 DEF DownSteps, D
<1>7. S # {}
  <2>1. <<>> \in S
    BY DEF S
  <2>. QED
    BY <2>1
<1>8. \A j \in D : \A f \in [D -> S] : step[j][f] = BaseAt(s, f, lt(j))
  OBVIOUS
<1> HIDE DEF step
<1>9. PICK f : DownTo(f, 1, n, S, step)
  BY <1>2, <1>6, <1>7, DownwardRecursion
<1>10. f \in [D -> S] /\ \A j \in D : f[j] = BaseAt(s, f, lt(j))
  BY <1>8, <1>9 DEF DownTo, D
<1>11. f = [j \in D |-> BaseAt(s, f, lt(j))]
  BY <1>10
<1>12. w = [j \in D |-> BaseAt(s, w, lt(j))]
  BY <1>11
<1> HIDE DEF w
<1>13. \A j \in D : w[j] = BaseAt(s, w, lt(j))
  BY <1>12
<1>. QED
  BY <1>1, <1>13 DEF lt, D, n

\* Where the scanner would be aligned with the tokenizer at the next '<'.
Ready(s, j) == FirstOf(s, j, {"<"}) <= Len(s) => Aligned(s, FirstOf(s, j, {"<"}))

\* Where scanner and browser are in step, they are so at the next '<';
LEMMA AlignedReady ==
    ASSUME NEW s, Calm(s), NEW j \in 1 .. Len(s) + 1, Aligned(s, j)
    PROVE  Ready(s, j)
<1> DEFINE lt == FirstOf(s, j, {"<"})
<1>1. Len(s) \in Nat /\ j \in Nat
  BY CalmLen
<1>2. lt \in j .. Len(s) + 1
  BY <1>1, FirstOfRange
<1>3. CASE j = Len(s) + 1
  <2> HIDE DEF lt
  <2>1. ~(lt <= Len(s))
    BY <1>1, <1>2, <1>3
  <2>. QED
    BY <2>1 DEF Ready, lt
<1>4. CASE j # Len(s) + 1 /\ s[j] = "<"
  <2>1. j \in 1 .. Len(s)
    BY <1>1, <1>4
  <2>2. lt = j
    BY <1>1, <1>4, <2>1, FirstOfLater
  <2>. QED
    BY <2>2 DEF Ready
<1>5. CASE j # Len(s) + 1 /\ s[j] # "<"
  <2>1. j \in 1 .. Len(s)
    BY <1>1, <1>5
  <2>2. GoesTo(s, j, lt)
    BY <1>5, <2>1, TextGoesTo
  <2>. QED
    BY <2>2 DEF GoesTo, Ready
<1>. QED
  BY <1>3, <1>4, <1>5

\* so they are if documentBase goes on one character at a time through what
\* holds no '<'.
LEMMA FreeReady ==
    ASSUME NEW s, Calm(s), ClosesPlainly(s), NEW p \in 1 .. Len(s), NEW q, GoesTo(s, p, q),
           Free(s, p + 1, q)
    PROVE  Ready(s, p + 1)
<1> DEFINE x == FirstOf(s, p + 1, {"<"})
           y == FirstOf(s, q, {"<"})
<1>1. /\ Len(s) \in Nat /\ p \in Nat /\ q \in p + 1 .. Len(s) + 1 /\ q \in Nat
      /\ p + 1 \in 1 .. Len(s) + 1 /\ q \in 1 .. Len(s) + 1 /\ Aligned(s, q)
  BY CalmLen DEF GoesTo
<1>2. \A k \in p + 1 .. q - 1 : s[k] # "<"
  BY DEF Free
<1>3. x \in p + 1 .. Len(s) + 1
  BY <1>1, FirstOfRange
<1>4. \A k \in p + 1 .. x - 1 : s[k] \notin {"<"}
  BY <1>1, FirstOfRange
<1>5. x <= Len(s) => s[x] \in {"<"}
  BY <1>1, FirstOfRange
<1>6. y \in q .. Len(s) + 1
  BY <1>1, FirstOfRange
<1>7. \A k \in q .. y - 1 : s[k] \notin {"<"}
  BY <1>1, FirstOfRange
<1>8. y <= Len(s) => s[y] \in {"<"}
  BY <1>1, FirstOfRange
<1> HIDE DEF x, y
<1>9. ~(x < q)
  BY <1>1, <1>2, <1>3, <1>5
<1>10. ~(x < y)
  BY <1>1, <1>3, <1>5, <1>6, <1>7, <1>9
<1>11. ~(y < x)
  BY <1>1, <1>3, <1>4, <1>6, <1>8
<1>12. x = y
  BY <1>1, <1>3, <1>6, <1>10, <1>11
<1>13. Ready(s, q)
  BY <1>1, AlignedReady
<1>. QED
  BY <1>12, <1>13 DEF Ready, x, y

\* What the base is taken from is an attribute of a <base> element of the document.
LEMMA BaseTouched ==
    ASSUME NEW s, Calm(s), NEW p \in 1 .. Len(s), InText(s, p), s[p] = "<", OpensTag(s, p),
           StartTag(s, p).name = Base, FirstHref(s, StartTag(s, p)) > 0,
           NEW b, b = BaseSpan(StartTag(s, p).attrs[FirstHref(s, StartTag(s, p))])
    PROVE  b[1] \in ToTouch(s)
<1> DEFINE tag == StartTag(s, p)
           q == PastTag(s, tag)
           a == tag.attrs[FirstHref(s, tag)]
           seen == [name |-> tag.name, attrs |-> AttrsOf(tag)]
<1>1. Len(s) \in Nat /\ p \in Nat /\ s \in Seq(STRING)
  BY CalmLen DEF Calm
<1>2. q \in p + 1 .. Len(s) + 1 /\ TagsAt(s, q) = TagsAt(s, p) \cup {seen}
  BY TagGoesTo DEF OpensTag
<1>3. Len(tag.attrs) \in Nat
  BY <1>1, StartTagOrdered DEF TagOrdered
<1> HIDE DEF tag, q
<1>4. tag.name = Base /\ FirstHref(s, tag) > 0 /\ b = BaseSpan(a)
  BY DEF tag
<1>5. a \in AttrsOf(tag) /\ a.name = Href
  BY <1>3, <1>4, FirstHrefRange DEF AttrsOf
<1> HIDE DEF a
<1>6. IsTouched(s, tag, a) /\ b[1] = TouchedSpan(tag, a)
  BY <1>4, <1>5 DEF IsTouched, BaseSpan, TouchedSpan
<1>7. b[1] \in TouchOf(s, seen)
  BY <1>5, <1>6, TagTouches
<1> HIDE DEF seen
<1>8. q - 1 \in 0 .. Len(s) /\ Len(s) \in q - 1 .. Len(s)
  BY <1>1, <1>2
<1>9. Tokens(s)[q - 1].tags \subseteq Tokens(s)[Len(s)].tags
  BY <1>1, <1>8, TokensFollow DEF Follows
<1>10. seen \in Tokenized(s).tags
  BY <1>2, <1>9 DEF TagsAt, Tokenized
<1>. QED
  BY <1>7, <1>10 DEF ToTouch, TouchOfAll

\* A turn of documentBase takes the base from a tag the browser sees, if
\* later ones do,
LEMMA BaseAtFound ==
    ASSUME NEW s, Calm(s), ClosesPlainly(s), NEW p \in 1 .. Len(s) + 1, NEW f,
           p <= Len(s) => s[p] = "<" /\ Aligned(s, p),
           \A j \in p + 1 .. Len(s) + 1 : Ready(s, j) /\ f[j] # <<>> => f[j][1] \in ToTouch(s),
           NEW b, b = BaseAt(s, f, p), b # <<>>
    PROVE  b[1] \in ToTouch(s)
<1>1. Len(s) \in Nat /\ p \in Nat /\ s \in Seq(STRING)
  BY CalmLen DEF Calm
<1> DEFINE c == AfterComment(s, f, p)
           tag == StartTag(s, p)
           t == BaseAtTag(s, f, tag)
<1>2. \/ p = Len(s) + 1 /\ b = <<>>
      \/ p <= Len(s) /\ OpensComment(s, p) /\ ~OpensTag(s, p) /\ b = c
      \/ p <= Len(s) /\ OpensTag(s, p) /\ ~OpensComment(s, p) /\ b = t
      \/ /\ p <= Len(s) /\ ~OpensComment(s, p) /\ ~OpensTag(s, p)
         /\ b = IF ClosesHead(s, p) THEN <<>> ELSE f[p + 1]
  BY <1>1, BaseCases
<1>3. p \in 1 .. Len(s) /\ s[p] = "<" /\ Aligned(s, p) /\ p # Len(s) + 1
  BY <1>1, <1>2
<1>4. InRawText(s, p) => At(s, p, <<"<", "/">>)
  BY <1>3, RawAtLt
<1>5. InText(s, p) \/ InRawText(s, p)
  BY <1>3 DEF Aligned
<1>6. At(s, p, <<"<", "/">>) => p + 1 <= Len(s) /\ s[p + 1] = "/"
  BY <1>1, AtPair
<1>7. OpensComment(s, p) \/ OpensTag(s, p) => InText(s, p)
  <2>1. OpensComment(s, p) => s[p + 1] = "!"
    BY <1>1, AtQuadruple DEF OpensComment
  <2>2. OpensTag(s, p) => s[p + 1] # "/"
    BY DEF OpensTag, Letters
  <2>. QED
    BY <1>4, <1>5, <1>6, <2>1, <2>2
<1> HIDE DEF c, tag, t
<1>8. CASE OpensComment(s, p) /\ b = c
  <2> DEFINE close == Occurs(s, p + 4, <<"-", "-", ">">>)
             past == IF close = 0 THEN Len(s) + 1 ELSE close + 3
             q == close + 3
  <2>1. GoesTo(s, p, past)
    BY <1>3, <1>7, <1>8, CommentGoesTo DEF OpensComment
  <2>2. close # 0 /\ b = f[q]
    BY <1>8 DEF c, AfterComment
  <2>3. q \in p + 1 .. Len(s) + 1 /\ Aligned(s, q)
    BY <2>1, <2>2 DEF GoesTo
  <2> HIDE DEF q
  <2>4. q \in 1 .. Len(s) + 1
    BY <1>1, <2>3
  <2>5. Ready(s, q)
    BY <2>3, <2>4, AlignedReady
  <2>. QED
    BY <2>2, <2>3, <2>5
<1>9. CASE OpensTag(s, p) /\ b = t
  <2> DEFINE q == PastTag(s, tag)
  <2>1. \/ /\ tag.name = Base /\ FirstHref(s, tag) > 0
           /\ b = BaseSpan(tag.attrs[FirstHref(s, tag)])
        \/ b = <<>>
        \/ b = f[q]
    BY <1>9, BaseTagCases DEF t
  <2>2. CASE /\ tag.name = Base /\ FirstHref(s, tag) > 0
             /\ b = BaseSpan(tag.attrs[FirstHref(s, tag)])
    BY <1>3, <1>7, <1>9, <2>2, BaseTouched DEF tag
  <2>3. CASE b = f[q]
    <3>1. q \in p + 1 .. Len(s) + 1 /\ Aligned(s, q)
      BY <1>3, <1>7, <1>9, TagGoesTo DEF OpensTag, tag
    <3> HIDE DEF q
    <3>2. q \in 1 .. Len(s) + 1
      BY <1>1, <3>1
    <3>3. Ready(s, q)
      BY <3>1, <3>2, AlignedReady
    <3>. QED
      BY <2>3, <3>1, <3>3
  <2>. QED
    BY <2>1, <2>2, <2>3
<1>10. CASE ~OpensComment(s, p) /\ ~OpensTag(s, p) /\ b = f[p + 1]
  <2> DEFINE bang == At(s, p, <<"<", "!">>)
             slash == At(s, p, <<"<", "/">>)
             q == PastGt(s, p)
  <2>1. p + 1 \in 1 .. Len(s) + 1 /\ p + 1 \in p + 1 .. Len(s) + 1
    BY <1>1, <1>3
  <2>2. CASE InRawText(s, p)
    <3>1. GoesTo(s, p, q) /\ Free(s, p + 1, q)
      BY <1>3, <2>2, RawEndGoesTo
    <3> HIDE DEF q
    <3>2. Ready(s, p + 1)
      BY <1>3, <3>1, FreeReady
    <3>. QED
      BY <1>10, <2>1, <3>2
  <2>3. CASE InText(s, p) /\ slash
    <3>1. GoesTo(s, p, q) /\ Free(s, p + 1, q)
      BY <1>3, <2>3, EndTagGoesTo
    <3> HIDE DEF q
    <3>2. Ready(s, p + 1)
      BY <1>3, <3>1, FreeReady
    <3>. QED
      BY <1>10, <2>1, <3>2
  <2>4. CASE InText(s, p) /\ bang
    <3>1. GoesTo(s, p, q) /\ Free(s, p + 1, q)
      BY <1>3, <1>10, <2>4, BangGoesTo DEF OpensComment
    <3> HIDE DEF q
    <3>2. Ready(s, p + 1)
      BY <1>3, <3>1, FreeReady
    <3>. QED
      BY <1>10, <2>1, <3>2
  <2>5. CASE InText(s, p) /\ ~slash /\ ~bang
    <3>1. p + 1 <= Len(s) => s[p + 1] \notin {"/", "!"}
      BY <1>1, <1>3, <2>5, AtPair
    <3>2. p + 1 <= Len(s) => s[p + 1] \notin Letters \cup {"/", "!"}
      BY <1>1, <1>10, <3>1 DEF OpensTag
    <3>3. GoesTo(s, p, p + 1)
      BY <1>3, <2>5, <3>2, BareGoesTo
    <3>4. Aligned(s, p + 1)
      BY <3>3 DEF GoesTo
    <3>5. Ready(s, p + 1)
      BY <2>1, <3>4, AlignedReady
    <3>. QED
      BY <1>10, <2>1, <3>5
  <2>. QED
    BY <1>5, <2>2, <2>3, <2>4, <2>5
<1>. QED
  BY <1>2, <1>8, <1>9, <1>10

\* and so does documentBase.
LEMMA BaseFound ==
    ASSUME NEW s, Calm(s), ClosesPlainly(s), documentBase(s) # <<>>
    PROVE  documentBase(s)[1] \in ToTouch(s)
<1> DEFINE n == Len(s) + 1
<1>1. s \in Seq(STRING) /\ Len(s) \in Nat /\ n \in Nat
  BY CalmLen DEF Calm
<1>2. PICK f : /\ documentBase(s) = f[1]
               /\ \A j \in 1 .. n : f[j] = BaseAt(s, f, FirstOf(s, j, {"<"}))
  BY <1>1, BaseSteps
<1> DEFINE Holds(j) == Ready(s, j) /\ f[j] # <<>> => f[j][1] \in ToTouch(s)
           T == {m \in Nat : \A j \in 1 .. n : j > n - m => Holds(j)}
<1>3. 0 \in T
  OBVIOUS
<1>4. ASSUME NEW m \in T \cap Nat PROVE m + 1 \in T
  <2>. SUFFICES ASSUME NEW j \in 1 .. n, j > n - (m + 1), Ready(s, j), f[j] # <<>>
                PROVE  f[j][1] \in ToTouch(s)
    OBVIOUS
  <2> DEFINE lt == FirstOf(s, j, {"<"})
             b == f[j]
  <2>1. lt \in j .. n
    BY <1>1, FirstOfRange
  <2>2. lt <= Len(s) => s[lt] \in {"<"}
    BY <1>1, FirstOfRange
  <2>3. lt <= Len(s) => Aligned(s, lt)
    BY DEF Ready
  <2>4. b = BaseAt(s, f, lt)
    BY <1>2
  <2> HIDE DEF lt, b, Holds
  <2>5. lt \in 1 .. Len(s) + 1 /\ \A k \in lt + 1 .. Len(s) + 1 : k \in 1 .. n /\ k > n - m
    BY <1>1, <2>1
  <2>6. \A k \in lt + 1 .. Len(s) + 1 : Holds(k)
    BY <1>4, <2>5
  <2>7. b # <<>>
    BY DEF b
  <2>8. b[1] \in ToTouch(s)
    BY <2>2, <2>3, <2>4, <2>5, <2>6, <2>7, BaseAtFound DEF Holds
  <2>. QED
    BY <2>8 DEF b
<1>5. n \in T
  <2> HIDE DEF T
  <2>. QED
    BY <1>1, <1>3, <1>4, NatInd
<1>6. 1 \in 1 .. n /\ 1 > n - n
  BY <1>1
<1> HIDE DEF n
<1>7. Holds(1)
  BY <1>5, <1>6
<1>8. InText(s, 1)
  <2>1. Tokens(s)[1 - 1] = Fresh
    BY <1>1, TokensSteps
  <2>. QED
    BY <2>1 DEF InText, Fresh
<1>9. Ready(s, 1)
  BY <1>1, <1>8, AlignedReady DEF Aligned, n
<1>. QED
  BY <1>2, <1>7, <1>9

\* Exchange.
BaseInv == pc \notin {"request", "answer"} => base = documentBase(doc)

LEMMA InitBase == Init => BaseInv
BY DEF Init, BaseInv

LEMMA NextBase == BaseInv /\ [Next]_vars => BaseInv'
BY DEF BaseInv, Next, Ask, Answered, ScanText, ScanMarkup, ScanEnds, Inject, Respond, Writes,
       vars, given

\* Whatever the document, as long as it is ordinary: what is touched of it is what
\* a browser takes for the attributes that are to be touched, all of them and
\* nothing else, and the base is one of those.
THEOREM MarkupUnderstood == Spec => []MarkupIsUnderstood
<1>1. ASSUME GivenInv, ScanInv, MarkupInv, EndInv, BaseInv PROVE MarkupIsUnderstood
  <2>. SUFFICES ASSUME pc = "inject", Ordinary(doc)
                PROVE  /\ Touches = ToTouch(doc)
                       /\ base # <<>> /\ ClosesPlainly(doc) => base[1] \in Touches
    BY DEF MarkupIsUnderstood
  <2>1. Touches = ToTouch(doc)
    BY <1>1, TouchesAll
  <2>2. base = documentBase(doc) /\ Calm(doc)
    BY <1>1 DEF BaseInv, GivenInv, Calm
  <2>. QED
    BY <2>1, <2>2, BaseFound
<1>2. Init => MarkupInv /\ EndInv /\ BaseInv
  BY InitAnswer, InitMarkup, InitBase DEF AnswerInv
<1>3. /\ GivenInv /\ ScanInv /\ MarkupInv /\ EndInv /\ BaseInv /\ [Next]_vars
      => (MarkupInv /\ EndInv /\ BaseInv)'
  BY NextMarkup, NextBase
<1>4. AnswerInv => GivenInv
  BY DEF AnswerInv
<1>5. Spec => [](MarkupInv /\ EndInv /\ BaseInv)
  BY <1>2, <1>3, <1>4, AnswerInductive, ScanInductive, PTL DEF Spec
<1>. QED
  BY <1>1, <1>4, <1>5, AnswerInductive, ScanInductive, PTL

-----------------------------------------------------------------------------
\* No '>' but a quoted one is part of an attribute.  Of those in G, a complete
\* attribute has none, and one that is under way after position k has had none.
Whole(a, G) ==
    /\ a.start <= a.nameEnd /\ a.start <= a.valStart /\ a.valEnd <= a.end
    /\ \A m \in G : m < a.start \/ m >= a.end
UnderWay(a, k, G) ==
    /\ a.start <= a.nameEnd /\ a.start <= a.valStart /\ a.nameEnd <= k + 1
    /\ \A m \in G : m < a.start \/ m > k
Spared(t, G) ==
    /\ \A w \in t.tags : \A a \in w.attrs : Whole(a, G)
    /\ \A a \in t.tag.attrs : Whole(a, G)
AttrModes == {"attrName", "afterName", "beforeValue", "unquoted"} \cup Quotes
Sparing(t, k, G) == Spared(t, G) /\ (t.mode \in AttrModes => UnderWay(t.tag.attr, k, G))

LEMMA NotAttrModes ==
    ASSUME NEW m \in PlainModes \ {"attrName", "afterName", "beforeValue", "unquoted"}
    PROVE  m \notin AttrModes
BY QuotesApart DEF AttrModes

\* A value completed earlier stays one that holds no '>' of G.
LEMMA SparedSame ==
    ASSUME NEW t, NEW G, Spared(t, G), NEW mode, NEW attr, NEW closing, NEW name
    PROVE  /\ Spared(In(t, mode), G) /\ Spared(Odd(t), G) /\ Spared(Under(t, mode, attr), G)
           /\ Spared(To(t, mode, NoTag), G)
           /\ Spared(To(t, mode, Tag(closing, name, {}, attr)), G)
           /\ Spared(Emits(t), G) /\ Spared(EmitsSlashed(t), G)
<1>1. /\ Spared(In(t, mode), G) /\ Spared(Odd(t), G) /\ Spared(Under(t, mode, attr), G)
  BY DEF Spared, In, Odd, Under, To, Tag
<1>2. /\ Spared(To(t, mode, NoTag), G)
      /\ Spared(To(t, mode, Tag(closing, name, {}, attr)), G)
  BY DEF Spared, To, Tag, NoTag
<1>3. ASSUME NEW u, Spared(u, G) PROVE Spared(Emits(u), G)
  <2> DEFINE w == [name |-> u.tag.name, attrs |-> u.tag.attrs]
             v == Emits(u)
  <2>1. v.tag = u.tag /\ v.tags = IF u.tag.closing THEN u.tags ELSE u.tags \cup {w}
    BY DEF Emits
  <2>2. w.attrs = u.tag.attrs
    OBVIOUS
  <2> HIDE DEF w, v
  <2>3. Spared(v, G)
    BY <1>3, <2>1, <2>2 DEF Spared
  <2>. QED
    BY <2>3 DEF v
<1>4. Spared(EmitsSlashed(t), G)
  BY <1>1, <1>3 DEF EmitsSlashed
<1>. QED
  BY <1>1, <1>2, <1>3, <1>4

LEMMA EmitsPlainly ==
    ASSUME NEW t
    PROVE  /\ Emits(t).mode = (IF IsRaw(t) THEN "raw" ELSE "data")
           /\ Emits(t).mode \notin AttrModes /\ EmitsSlashed(t).mode \notin AttrModes
<1>1. "raw" \notin AttrModes /\ "data" \notin AttrModes
  BY NotAttrModes DEF PlainModes
<1>. QED
  BY <1>1 DEF Emits, EmitsSlashed

\* An attribute that holds none is added.
LEMMA SparedHas ==
    ASSUME NEW t, NEW G, Spared(t, G), NEW attr, Whole(attr, G)
    PROVE  Spared(Has(t, attr), G)
BY DEF Spared, Has, To, Tag

\* The attribute under way goes on past a character that is not one of G.
LEMMA WayOn ==
    ASSUME NEW a \in TokenAttrs, NEW k \in Nat, NEW G \in SUBSET Nat, UnderWay(a, k, G),
           k + 1 \notin G
    PROVE  UnderWay(a, k + 1, G)
<1>1. a.nameEnd \in Nat /\ a.start \in Nat /\ a.valStart \in Nat
  BY DEF TokenAttrs
<1>2. \A m \in G : m \in Nat /\ m # k + 1
  OBVIOUS
<1>. QED
  BY <1>1, <1>2 DEF UnderWay

\* Once it is complete it holds none.
LEMMA SparedComplete ==
    ASSUME NEW t \in TokenStates, NEW k \in Nat, NEW G \in SUBSET Nat, Spared(t, G),
           UnderWay(t.tag.attr, k, G), NEW i, i = k + 1
    PROVE  /\ Spared(Bare(t), G) /\ Spared(Valued(t, i), G)
           /\ i \notin G => Spared(Quoted(t, i), G)
<1> DEFINE a == t.tag.attr
<1>1. a \in TokenAttrs /\ a.nameEnd \in Nat /\ a.start \in Nat /\ a.valStart \in Nat
  BY StateParts
<1> HIDE DEF a
<1>2. ASSUME NEW has, NEW quoted, NEW end \in Nat, NEW valEnd \in Nat, valEnd <= end,
             \A m \in G : m < a.start \/ m >= end
      PROVE  Whole(Complete(a, has, quoted, valEnd, end), G)
  BY <1>1, <1>2 DEF Whole, Complete, UnderWay, a
<1>3. /\ a.nameEnd <= k + 1 /\ \A m \in G : m < a.start \/ m > k
  BY DEF UnderWay, a
<1>4. /\ \A m \in G : m < a.start \/ m >= a.nameEnd
      /\ \A m \in G : m < a.start \/ m >= i
      /\ i \notin G => \A m \in G : m < a.start \/ m >= i + 1
  BY <1>1, <1>3
<1> DEFINE yes == TRUE
           no == FALSE
<1>5. /\ Bare(t) = Has(t, Complete(a, no, no, a.nameEnd, a.nameEnd))
      /\ Valued(t, i) = Has(t, Complete(a, yes, no, i, i))
      /\ Quoted(t, i) = Has(t, Complete(a, yes, yes, i, i + 1))
  BY DEF Bare, Valued, Quoted, a
<1> HIDE DEF yes, no
<1>6. i \in Nat /\ i + 1 \in Nat /\ i <= i + 1 /\ i <= i /\ a.nameEnd <= a.nameEnd
  BY <1>1
<1>7. Whole(Complete(a, no, no, a.nameEnd, a.nameEnd), G)
  BY <1>1, <1>2, <1>4, <1>6
<1>8. Whole(Complete(a, yes, no, i, i), G)
  BY <1>2, <1>4, <1>6
<1>9. i \notin G => Whole(Complete(a, yes, yes, i, i + 1), G)
  BY <1>2, <1>4, <1>6
<1>. QED
  BY <1>5, <1>7, <1>8, <1>9, SparedHas

LEMMA BeforeAttrSpares ==
    ASSUME NEW t, NEW G \in SUBSET Nat, Spared(t, G), NEW i \in Nat, NEW c,
           c # ">" => i \notin G
    PROVE  Sparing(BeforeAttr(t, i, c), i, G)
<1>1. "beforeAttr" \notin AttrModes /\ "slash" \notin AttrModes
  BY NotAttrModes DEF PlainModes
<1>2. Sparing(In(t, "beforeAttr"), i, G) /\ Sparing(In(t, "slash"), i, G)
  <2>1. Spared(In(t, "beforeAttr"), G) /\ Spared(In(t, "slash"), G)
    BY SparedSame
  <2>2. In(t, "beforeAttr").mode = "beforeAttr" /\ In(t, "slash").mode = "slash"
    BY DEF In, To
  <2>. QED
    BY <1>1, <2>1, <2>2 DEF Sparing
<1>3. Sparing(Emits(t), i, G)
  BY SparedSame, EmitsPlainly DEF Sparing
<1>4. ASSUME i \notin G PROVE Sparing(Begins(t, i, c), i, G)
  <2> DEFINE a == Attr(<<c>>, i, i, i)
             u == Under(t, "attrName", a)
             v == Begins(t, i, c)
  <2>1. a.start = i /\ a.nameEnd = i /\ a.valStart = i
    BY DEF Attr
  <2> HIDE DEF a
  <2>2. \A m \in G : m < i \/ m > i
    BY <1>4
  <2>3. UnderWay(a, i, G)
    BY <2>1, <2>2 DEF UnderWay
  <2>4. u.tag.attr = a /\ Odd(u).tag.attr = a
    BY DEF Under, To, Tag, Odd
  <2>5. Spared(u, G)
    BY SparedSame
  <2>6. v = u \/ v = Odd(u)
    BY DEF Begins, a
  <2> HIDE DEF u, v
  <2>7. Spared(Odd(u), G)
    BY <2>5, SparedSame
  <2>8. Sparing(v, i, G)
    BY <2>3, <2>4, <2>5, <2>6, <2>7 DEF Sparing
  <2>. QED
    BY <2>8 DEF v
<1> DEFINE u == BeforeAttr(t, i, c)
<1>5. \/ u = In(t, "beforeAttr") \/ u = In(t, "slash") \/ u = Emits(t)
      \/ c # ">" /\ u = Begins(t, i, c)
  BY DEF BeforeAttr
<1> HIDE DEF u
<1>6. Sparing(u, i, G)
  BY <1>2, <1>3, <1>4, <1>5
<1>. QED
  BY <1>6 DEF u

LEMMA AfterNameSpares ==
    ASSUME NEW t \in TokenStates, NEW k \in Nat, NEW G \in SUBSET Nat, Spared(t, G),
           UnderWay(t.tag.attr, k, G), NEW i, i = k + 1, NEW c, c # ">" => i \notin G
    PROVE  Sparing(AfterName(t, i, c), i, G)
<1>1. i \in Nat
  OBVIOUS
<1>2. ASSUME i \notin G, NEW mode PROVE Sparing(In(t, mode), i, G)
  <2>1. UnderWay(t.tag.attr, i, G)
    BY <1>2, StateParts, WayOn
  <2>2. In(t, mode).tag.attr = t.tag.attr
    BY DEF In, To
  <2>. QED
    BY <2>1, <2>2, SparedSame DEF Sparing
<1>3. Spared(Bare(t), G)
  BY SparedComplete
<1>4. Sparing(BeforeAttr(Bare(t), i, c), i, G)
  BY <1>1, <1>3, BeforeAttrSpares
<1> DEFINE u == AfterName(t, i, c)
<1>5. \/ c # ">" /\ u = In(t, "afterName")
      \/ c # ">" /\ u = In(t, "beforeValue")
      \/ u = BeforeAttr(Bare(t), i, c)
  <2>1. Blank # ">" /\ "=" # ">"
    BY BlankApart
  <2>. QED
    BY <2>1 DEF AfterName
<1> HIDE DEF u
<1>6. Sparing(u, i, G)
  BY <1>2, <1>4, <1>5
<1>. QED
  BY <1>6 DEF u

LEMMA AttrNameSpares ==
    ASSUME NEW t \in TokenStates, NEW k \in Nat, NEW G \in SUBSET Nat, Spared(t, G),
           UnderWay(t.tag.attr, k, G), NEW i, i = k + 1, NEW c \in STRING, c # ">" => i \notin G
    PROVE  Sparing(AttrName(t, i, c), i, G)
<1> DEFINE a == t.tag.attr
           name == Append(a.name, c)
           b == Attr(a.name, a.start, i, i)
           d == Attr(name, a.start, i, i)
           u == Named(t, i)
           v == Under(t, "attrName", d)
<1>1. i \in Nat /\ a.nameEnd \in Nat /\ a.start \in Nat /\ a.valStart \in Nat
      /\ a.name \in Seq(STRING) /\ a.start <= a.nameEnd /\ a.nameEnd <= k + 1
      /\ \A m \in G : m < a.start \/ m > k
  BY StateParts DEF UnderWay
<1>2. b.start = a.start /\ b.nameEnd = i /\ b.valStart = i /\ b \in TokenAttrs
  BY <1>1, AttrType DEF Attr
<1>3. d.start = a.start /\ d.nameEnd = i /\ d.valStart = i
  BY DEF Attr
<1>4. a.start <= i
  BY <1>1
<1> HIDE DEF name, b, d, a
<1>5. UnderWay(b, k, G)
  BY <1>1, <1>2, <1>4 DEF UnderWay
<1>6. i \notin G => UnderWay(d, i, G)
  <2>1. i \notin G => \A m \in G : m < a.start \/ m > i
    BY <1>1
  <2>. QED
    BY <1>1, <1>3, <1>4, <2>1 DEF UnderWay
<1>7. u = Under(t, "afterName", b)
  BY DEF Named, b, a
<1>8. u \in TokenStates
  <2>1. "afterName" \in TokenModes
    BY DEF TokenModes, PlainModes
  <2>. QED
    BY <1>2, <1>7, <2>1, UnderFollows DEF Follows
<1>9. u.tag.attr = b /\ Spared(u, G)
  <2>1. u.tag.attr = b
    BY <1>7 DEF Under, To, Tag
  <2>2. Spared(Under(t, "afterName", b), G)
    BY SparedSame
  <2>. QED
    BY <1>7, <2>1, <2>2
<1> HIDE DEF u
<1>10. Sparing(AfterName(u, i, c), i, G)
  BY <1>5, <1>8, <1>9, AfterNameSpares
<1>11. v.tag.attr = d /\ Spared(v, G)
  BY SparedSame DEF Under, To, Tag
<1>12. i \notin G => Sparing(v, i, G)
  BY <1>6, <1>11 DEF Sparing
<1> DEFINE w == AttrName(t, i, c)
<1>13. w = AfterName(u, i, c) \/ (c # ">" /\ w = v)
  <2>1. CASE c \in AttrNameEnds
    BY <2>1 DEF AttrName, u
  <2>2. CASE c \notin AttrNameEnds
    <3>1. c # ">"
      BY <2>2 DEF AttrNameEnds, TagNameEnds
    <3>2. w = v
      BY <2>2 DEF AttrName, d, name, a
    <3>. QED
      BY <3>1, <3>2
  <2>. QED
    BY <2>1, <2>2
<1> HIDE DEF v, w
<1>14. Sparing(w, i, G)
  BY <1>10, <1>12, <1>13
<1>. QED
  BY <1>14 DEF w

LEMMA BeforeValueSpares ==
    ASSUME NEW t \in TokenStates, NEW k \in Nat, NEW G \in SUBSET Nat, Spared(t, G),
           UnderWay(t.tag.attr, k, G), NEW i, i = k + 1, NEW c \in STRING, c # ">" => i \notin G
    PROVE  Sparing(BeforeValue(t, i, c), i, G)
<1> DEFINE a == t.tag.attr
<1>1. i \in Nat /\ a.nameEnd \in Nat /\ a.start \in Nat /\ a.valStart \in Nat
      /\ a.name \in Seq(STRING) /\ a.start <= a.nameEnd /\ a.nameEnd <= k + 1
      /\ \A m \in G : m < a.start \/ m > k
  BY StateParts DEF UnderWay
<1>2. ASSUME NEW mode \in TokenModes, NEW j \in Nat, i <= j
      PROVE  /\ ValueAt(t, mode, j) \in TokenStates /\ Spared(ValueAt(t, mode, j), G)
             /\ UnderWay(ValueAt(t, mode, j).tag.attr, k, G)
             /\ i \notin G => Sparing(ValueAt(t, mode, j), i, G)
  <2> DEFINE b == Attr(a.name, a.start, a.nameEnd, j)
             v == ValueAt(t, mode, j)
  <2>1. b.start = a.start /\ b.nameEnd = a.nameEnd /\ b.valStart = j /\ b \in TokenAttrs
    BY <1>1, AttrType DEF Attr
  <2>2. a.start <= j
    BY <1>1, <1>2
  <2> HIDE DEF a, b
  <2>3. UnderWay(b, k, G)
    BY <1>1, <2>1, <2>2 DEF UnderWay
  <2>4. i \notin G => UnderWay(b, i, G)
    BY <2>1, <2>3, WayOn
  <2>5. v = Under(t, mode, b)
    BY DEF ValueAt, a, b
  <2>6. v \in TokenStates
    BY <1>2, <2>1, <2>5, UnderFollows DEF Follows
  <2>9. v.tag.attr = b
    BY <2>5 DEF Under, To, Tag
  <2>10. Spared(Under(t, mode, b), G)
    BY SparedSame
  <2>7. v.tag.attr = b /\ Spared(v, G)
    BY <2>5, <2>9, <2>10
  <2> HIDE DEF v
  <2>8. /\ v \in TokenStates /\ Spared(v, G) /\ UnderWay(v.tag.attr, k, G)
        /\ i \notin G => Sparing(v, i, G)
    BY <2>3, <2>4, <2>6, <2>7 DEF Sparing
  <2>. QED
    BY <2>8 DEF v
<1>3. "unquoted" \in TokenModes /\ (c \in Quotes => c \in TokenModes) /\ i + 1 \in Nat
      /\ i <= i + 1 /\ i <= i
  BY <1>1 DEF TokenModes, PlainModes
<1>4. ASSUME i \notin G PROVE Sparing(t, i, G)
  BY <1>4, StateParts, WayOn DEF Sparing
<1> DEFINE u == ValueAt(t, "unquoted", i)
           q == ValueAt(t, c, i + 1)
<1>5. u \in TokenStates /\ Spared(u, G) /\ UnderWay(u.tag.attr, k, G)
      /\ (i \notin G => Sparing(u, i, G))
  BY <1>1, <1>2, <1>3
<1>6. c \in Quotes /\ i \notin G => Sparing(q, i, G)
  BY <1>2, <1>3
<1> HIDE DEF u, q, a
<1>7. Spared(Valued(u, i), G)
  BY <1>5, SparedComplete
<1>8. Sparing(Emits(Valued(u, i)), i, G)
  BY <1>7, SparedSame, EmitsPlainly DEF Sparing
<1> DEFINE w == BeforeValue(t, i, c)
<1>9. \/ c # ">" /\ w = t
      \/ c \in Quotes /\ w = q
      \/ w = Emits(Valued(u, i))
      \/ c # ">" /\ w = u
  <2>1. CASE c = Blank
    BY <2>1, BlankApart, BeforeValueReads
  <2>2. CASE c \in Quotes
    BY <2>2, BeforeValueReads DEF q
  <2>3. CASE c = ">"
    BY <2>3, BeforeValueReads DEF u
  <2>4. CASE c # Blank /\ c \notin Quotes /\ c # ">"
    <3>1. c \notin Quotes \cup UnquotedEnds
      BY <2>4 DEF UnquotedEnds
    <3>. QED
      BY <2>4, <3>1, BeforeValueReads DEF u
  <2>. QED
    BY <2>1, <2>2, <2>3, <2>4
<1>10. c \in Quotes => c # ">"
  BY QuotesApart
<1> HIDE DEF w
<1>11. Sparing(w, i, G)
  BY <1>4, <1>5, <1>6, <1>8, <1>9, <1>10
<1>. QED
  BY <1>11 DEF w

LEMMA UnquotedSpares ==
    ASSUME NEW t \in TokenStates, NEW k \in Nat, NEW G \in SUBSET Nat, Spared(t, G),
           UnderWay(t.tag.attr, k, G), NEW i, i = k + 1, NEW c \in STRING, c # ">" => i \notin G
    PROVE  Sparing(Unquoted(t, i, c), i, G)
<1>1. i \in Nat
  OBVIOUS
<1>2. Spared(Valued(t, i), G)
  BY SparedComplete
<1>3. Sparing(BeforeAttr(Valued(t, i), i, c), i, G)
  BY <1>1, <1>2, BeforeAttrSpares
<1>4. ASSUME i \notin G PROVE Sparing(t, i, G)
  BY <1>4, StateParts, WayOn DEF Sparing
<1> DEFINE w == Unquoted(t, i, c)
<1>5. w = BeforeAttr(Valued(t, i), i, c) \/ (c # ">" /\ w = t)
  <2>1. CASE c \in UnquotedEnds
    BY <2>1 DEF Unquoted
  <2>2. CASE c \notin UnquotedEnds
    <3>1. c # ">"
      BY <2>2 DEF UnquotedEnds
    <3>. QED
      BY <2>2, <3>1 DEF Unquoted
  <2>. QED
    BY <2>1, <2>2
<1> HIDE DEF w
<1>6. Sparing(w, i, G)
  BY <1>3, <1>4, <1>5
<1>. QED
  BY <1>6 DEF w

\* The tokenizer's every step.
LEMMA ReadSpares ==
    ASSUME NEW t \in TokenStates, NEW k \in Nat, NEW G \in SUBSET Nat, Sparing(t, k, G),
           NEW i, i = k + 1, NEW c \in STRING, NEW u, u = Read(t, i, c),
           c # ">" => i \notin G, u.mode \in Quotes => i \notin G
    PROVE  Sparing(u, i, G)
<1>1. i \in Nat /\ Spared(t, G) /\ t.mode \in TokenModes
  BY StateParts DEF Sparing
<1>2. ASSUME t.mode \in AttrModes PROVE UnderWay(t.tag.attr, k, G)
  BY <1>2 DEF Sparing
<1>3. ASSUME NEW mode \in PlainModes \ {"attrName", "afterName", "beforeValue", "unquoted"},
             NEW closing, NEW name, NEW attr
      PROVE  /\ Sparing(In(t, mode), i, G) /\ Sparing(Odd(In(t, mode)), i, G)
             /\ Sparing(To(t, mode, NoTag), i, G)
             /\ Sparing(To(t, mode, Tag(closing, name, {}, attr)), i, G)
  <2>1. mode \notin AttrModes
    BY NotAttrModes
  <2>2. Spared(In(t, mode), G)
    BY <1>1, SparedSame
  <2>3. Spared(Odd(In(t, mode)), G)
    BY <2>2, SparedSame
  <2>4. Spared(To(t, mode, NoTag), G) /\ Spared(To(t, mode, Tag(closing, name, {}, attr)), G)
    BY <1>1, SparedSame
  <2>5. /\ In(t, mode).mode = mode /\ Odd(In(t, mode)).mode = mode
        /\ To(t, mode, NoTag).mode = mode
        /\ To(t, mode, Tag(closing, name, {}, attr)).mode = mode
    BY DEF In, To, Odd
  <2>. QED
    BY <2>1, <2>2, <2>3, <2>4, <2>5 DEF Sparing
<1> DEFINE Calmly == {"data", "open", "endOpen", "raw", "rawOpen", "rawEnd", "tagName",
                      "markup", "markupDash", "bogus", "commentStart", "commentStartDash",
                      "comment", "commentDash", "commentEnd", "commentBang"}
<1>4. \A mode \in Calmly : /\ Sparing(In(t, mode), i, G) /\ Sparing(Odd(In(t, mode)), i, G)
                           /\ Sparing(To(t, mode, NoTag), i, G)
  BY <1>3 DEF PlainModes
<1>5. Sparing(Data(t, c), i, G) /\ Sparing(Bogus(t, c), i, G) /\ Sparing(Comment(t, c), i, G)
      /\ Sparing(RawText(t, c), i, G)
  BY <1>4 DEF Data, Bogus, Comment, RawText
<1>6. Sparing(OpensStart(t, c), i, G) /\ Sparing(OpensEnd(t, c), i, G)
  <2> DEFINE no == FALSE
             yes == TRUE
  <2>1. OpensStart(t, c) = To(t, "tagName", Tag(no, <<c>>, {}, NoTag.attr))
        /\ OpensEnd(t, c) = To(t, "tagName", Tag(yes, <<c>>, {}, NoTag.attr))
    BY DEF OpensStart, OpensEnd
  <2> HIDE DEF no, yes
  <2>. QED
    BY <1>3, <2>1 DEF PlainModes
<1>7. Sparing(BeforeAttr(t, i, c), i, G)
  BY <1>1, BeforeAttrSpares
<1>8. Sparing(TagName(t, i, c), i, G)
  <2> DEFINE v == To(t, "tagName", Tag(t.tag.closing, Append(t.tag.name, c), {}, t.tag.attr))
  <2>1. Sparing(v, i, G)
    BY <1>3 DEF PlainModes
  <2> HIDE DEF v
  <2>2. TagName(t, i, c) = BeforeAttr(t, i, c) \/ TagName(t, i, c) = v
    BY DEF TagName, v
  <2>. QED
    BY <1>7, <2>1, <2>2
<1>9. Sparing(RawEnd(t, i, c), i, G)
  <2> DEFINE no == FALSE
             yes == TRUE
             v == To(t, "rawEnd", Tag(no, Append(t.tag.name, c), {}, t.tag.attr))
             w == To(t, "rawEnd", Tag(yes, t.tag.name, {}, t.tag.attr))
  <2>1. \/ RawEnd(t, i, c) = v \/ RawEnd(t, i, c) = BeforeAttr(w, i, c)
        \/ RawEnd(t, i, c) = RawText(t, c)
    <3> DEFINE b == BeforeAttr(w, i, c)
               r == RawText(t, c)
               named == c \in TagNameEnds /\ t.tag.name = t.within
               x == RawEnd(t, i, c)
    <3>1. x = CASE c \in Letters -> v [] named -> b [] OTHER -> r
      BY DEF RawEnd
    <3> HIDE DEF v, b, r, named, x
    <3>2. x = v \/ x = b \/ x = r
      BY <3>1 DEF Letters
    <3>. QED
      BY <3>2 DEF x, b, r
  <2> HIDE DEF no, yes
  <2>2. Sparing(v, i, G) /\ Sparing(w, i, G)
    BY <1>3 DEF PlainModes
  <2> HIDE DEF v, w
  <2>3. Sparing(BeforeAttr(w, i, c), i, G)
    BY <1>1, <2>2, BeforeAttrSpares DEF Sparing
  <2>. QED
    BY <1>5, <2>1, <2>2, <2>3
<1>10. CASE t.mode \in {"data", "open", "endOpen", "raw", "rawOpen", "rawEnd"}
  <2>1. CASE t.mode = "data"
    BY <1>5, <2>1, ReadText
  <2>2. CASE t.mode = "open"
    <3>1. u = OpensStart(t, c) \/ u = In(t, "endOpen") \/ u = In(t, "markup") \/ u = Data(t, c)
      BY <2>2, ReadText
    <3>. QED
      BY <1>4, <1>5, <1>6, <3>1
  <2>3. CASE t.mode = "endOpen"
    BY <1>5, <1>6, <2>3, ReadText
  <2>4. CASE t.mode = "raw"
    BY <1>5, <2>4, ReadText
  <2>5. CASE t.mode = "rawOpen"
    <3>1. u = In(t, "rawEnd") \/ u = RawText(t, c)
      BY <2>5, ReadText
    <3>. QED
      BY <1>4, <1>5, <3>1
  <2>6. CASE t.mode = "rawEnd"
    BY <1>9, <2>6, ReadText
  <2>. QED
    BY <1>10, <2>1, <2>2, <2>3, <2>4, <2>5, <2>6
<1>11. CASE t.mode \in {"tagName", "beforeAttr", "afterQuoted", "slash"}
  <2>1. Sparing(EmitsSlashed(t), i, G)
    BY <1>1, SparedSame, EmitsPlainly DEF Sparing
  <2>2. CASE t.mode = "tagName"
    BY <1>8, <2>2, ReadTag
  <2>3. CASE t.mode \in {"beforeAttr", "afterQuoted"}
    BY <1>7, <2>3, ReadTag
  <2>4. CASE t.mode = "slash"
    <3>1. u = EmitsSlashed(t) \/ u = BeforeAttr(t, i, c)
      BY <2>4, ReadTag
    <3>. QED
      BY <1>7, <2>1, <3>1
  <2>. QED
    BY <1>11, <2>2, <2>3, <2>4
<1>12. CASE t.mode \in {"attrName", "afterName", "beforeValue", "unquoted"}
  <2>1. UnderWay(t.tag.attr, k, G)
    BY <1>2, <1>12 DEF AttrModes
  <2>2. CASE t.mode = "attrName"
    BY <1>1, <2>1, <2>2, ReadTag, AttrNameSpares
  <2>3. CASE t.mode = "afterName"
    BY <1>1, <2>1, <2>3, ReadTag, AfterNameSpares
  <2>4. CASE t.mode = "beforeValue"
    BY <1>1, <2>1, <2>4, ReadTag, BeforeValueSpares
  <2>5. CASE t.mode = "unquoted"
    BY <1>1, <2>1, <2>5, ReadTag, UnquotedSpares
  <2>. QED
    BY <1>12, <2>2, <2>3, <2>4, <2>5
<1>13. CASE t.mode \in Quotes
  <2>1. UnderWay(t.tag.attr, k, G)
    BY <1>2, <1>13 DEF AttrModes
  <2>2. CASE c = t.mode
    <3>1. u = In(Quoted(t, i), "afterQuoted") /\ i \notin G
      BY <1>13, <2>2, ReadTag, QuotesApart
    <3>2. Spared(Quoted(t, i), G)
      BY <1>1, <2>1, <3>1, SparedComplete
    <3>3. Spared(u, G)
      BY <3>1, <3>2, SparedSame
    <3>4. u.mode = "afterQuoted" /\ "afterQuoted" \notin AttrModes
      BY <3>1, NotAttrModes DEF In, To, PlainModes
    <3>. QED
      BY <3>3, <3>4 DEF Sparing
  <2>3. CASE c # t.mode
    <3>1. u = t /\ i \notin G
      BY <1>13, <2>3, ReadTag
    <3>2. UnderWay(t.tag.attr, i, G)
      BY <2>1, <3>1, StateParts, WayOn
    <3>. QED
      BY <1>1, <3>1, <3>2 DEF Sparing
  <2>. QED
    BY <2>2, <2>3
<1>14. CASE t.mode \in {"markup", "markupDash", "bogus", "commentStart", "commentStartDash",
                        "comment", "commentDash", "commentEnd", "commentBang"}
  <2>1. \/ u = Bogus(t, c) \/ u = Comment(t, c)
        \/ \E mode \in Calmly : u = In(t, mode) \/ u = Odd(In(t, mode))
    <3>1. CASE t.mode \in {"markup", "markupDash", "bogus"}
      BY <3>1, ReadMarkup
    <3>2. CASE t.mode \in {"commentStart", "commentStartDash", "comment", "commentBang"}
      BY <3>2, ReadMarkup
    <3>3. CASE t.mode \in {"commentDash", "commentEnd"}
      BY <3>3, ReadMarkup
    <3>. QED
      BY <1>14, <3>1, <3>2, <3>3
  <2>. QED
    BY <1>4, <1>5, <2>1
<1>. QED
  BY <1>1, <1>10, <1>11, <1>12, <1>13, <1>14 DEF TokenModes, PlainModes

\* So that of a document only quoted ones are,
Gts(s) == {m \in 1 .. Len(s) : s[m] = ">" /\ Tokens(s)[m].mode \notin Quotes}

\* No tag's attribute holds a '>' that was read outside of quotes.
LEMMA TokensSpare ==
    ASSUME NEW s \in Seq(STRING)
    PROVE  Spared(Tokenized(s), Gts(s))
<1> DEFINE G == Gts(s)
           P == {k \in Nat : Sparing(Tokens(s)[k], k, G)}
<1>1. Len(s) \in Nat /\ Len(s) \in 0 .. Len(s) /\ G \in SUBSET Nat
  BY DEF Gts
<1>2. 0 \in P
  <2>1. Tokens(s)[0] = Fresh
    BY TokensSteps
  <2>2. Spared(Fresh, G)
    BY DEF Spared, Fresh, NoTag, Tag
  <2>3. Fresh.mode \notin AttrModes
    BY NotAttrModes DEF Fresh, PlainModes
  <2>. QED
    BY <2>1, <2>2, <2>3 DEF Sparing
<1>3. ASSUME NEW k \in 0 .. Len(s) - 1, k \in P PROVE k + 1 \in P
  <2> DEFINE i == k + 1
  <2>1. i \in 1 .. Len(s) /\ i - 1 = k /\ i \in Nat /\ k \in Nat /\ i = k + 1
    BY <1>1
  <2> HIDE DEF i
  <2>2. /\ Tokens(s)[k] \in TokenStates /\ Tokens(s)[i] = Read(Tokens(s)[k], i, s[i])
        /\ s[i] \in STRING
    BY <2>1, OneRead
  <2>3. (s[i] # ">" => i \notin G) /\ (Tokens(s)[i].mode \in Quotes => i \notin G)
    BY DEF Gts
  <2>4. Sparing(Tokens(s)[k], k, G)
    BY <1>3
  <2> HIDE DEF G
  <2>5. Sparing(Tokens(s)[i], i, G)
    BY <1>1, <2>1, <2>2, <2>3, <2>4, ReadSpares
  <2>. QED
    BY <2>1, <2>5 DEF i
<1>4. \A k \in 0 .. Len(s) : k \in P
  <2> HIDE DEF P
  <2>. QED
    BY <1>1, <1>2, <1>3, Along
<1>. QED
  BY <1>1, <1>4 DEF Sparing, Tokenized

\* and what is touched has none but those.
LEMMA TouchSpares ==
    ASSUME NEW s \in Seq(STRING), NEW x \in ToTouch(s), NEW i \in 1 .. Len(s),
           i \in x.from .. x.to - 1, s[i] = ">"
    PROVE  Tokens(s)[i].mode \in Quotes
<1>1. PICK w \in Tokenized(s).tags : x \in TouchOf(s, w)
  BY DEF ToTouch, TouchOfAll
<1>2. PICK a \in w.attrs : x = TouchedSpan(w, a)
  BY <1>1 DEF TouchOf
<1>3. Len(s) \in Nat /\ Len(s) \in 0 .. Len(s) /\ i \in Nat
  OBVIOUS
<1>4. Tokenized(s) \in TokenStates
  BY <1>3, TokensSteps DEF Tokenized
<1>5. w \in WholeTags
  BY <1>4, StateParts
<1>6. a \in Attributes
  BY <1>2, <1>5 DEF WholeTags
<1>7. Whole(a, Gts(s))
  BY <1>2, TokensSpare DEF Spared
<1>8. /\ a.start \in Nat /\ a.nameEnd \in Nat /\ a.valStart \in Nat /\ a.valEnd \in Nat
      /\ a.end \in Nat
  BY <1>6 DEF Attributes
<1>9. \/ x.from = a.start /\ x.to = a.end
      \/ x.from = a.valStart /\ x.to = a.valEnd
      \/ x.from = a.nameEnd /\ x.to = a.end
  BY <1>2 DEF TouchedSpan, Span
<1>10. i >= a.start /\ i < a.end
  BY <1>3, <1>7, <1>8, <1>9 DEF Whole
<1>11. i \notin Gts(s)
  BY <1>3, <1>7, <1>8, <1>10 DEF Whole
<1>. QED
  BY <1>11 DEF Gts

-----------------------------------------------------------------------------
\* Inside of a start tag, whose name has been read, a '>' that is not quoted ends it.
TagModes == {"beforeAttr", "afterQuoted", "slash"} \cup AttrModes
InTag(t, name) == t.mode \in TagModes /\ ~t.tag.closing /\ t.tag.name = name
EndMode(name) == IF name \in rawText THEN "raw" ELSE "data"

LEMMA EmitsMode ==
    ASSUME NEW t, NEW name, ~t.tag.closing, t.tag.name = name
    PROVE  Emits(t).mode = EndMode(name) /\ EmitsSlashed(t).mode = EndMode(name)
<1>1. Odd(t).tag = t.tag
  BY DEF Odd
<1>2. EmitsSlashed(t) = Emits(Odd(t)) \/ EmitsSlashed(t) = Emits(t)
  BY DEF EmitsSlashed
<1>3. ASSUME NEW u, u.tag = t.tag PROVE Emits(u).mode = EndMode(name)
  BY <1>3 DEF Emits, IsRaw, EndMode
<1>. QED
  BY <1>1, <1>2, <1>3

\* A tag with a given name goes on until its '>',
LEMMA BeforeAttrIn ==
    ASSUME NEW t, NEW i, NEW c, NEW name, ~t.tag.closing, t.tag.name = name
    PROVE  IF c = ">" THEN BeforeAttr(t, i, c).mode = EndMode(name)
           ELSE InTag(BeforeAttr(t, i, c), name)
<1> DEFINE u == BeforeAttr(t, i, c)
<1>1. CASE c = ">"
  BY <1>1, BeforeAttrReads, EmitsMode
<1>2. CASE c = Blank
  <2>1. u = In(t, "beforeAttr") /\ c # ">"
    BY <1>2, BeforeAttrReads, BlankApart
  <2>. QED
    BY <2>1 DEF InTag, TagModes, In, To
<1>3. CASE c = "/"
  <2>1. u = In(t, "slash") /\ c # ">"
    BY <1>3, BeforeAttrReads
  <2>. QED
    BY <2>1 DEF InTag, TagModes, In, To
<1>4. CASE c # ">" /\ c # Blank /\ c # "/"
  <2> DEFINE v == Under(t, "attrName", Attr(<<c>>, i, i, i))
  <2>1. c \notin TagNameEnds
    BY <1>4 DEF TagNameEnds
  <2>2. u = Begins(t, i, c)
    BY <2>1, BeforeAttrReads
  <2>3. u = v \/ u = Odd(v)
    BY <2>2 DEF Begins
  <2>4. v.mode = "attrName" /\ ~v.tag.closing /\ v.tag.name = name
    BY DEF Under, To, Tag
  <2> HIDE DEF u, v
  <2>5. InTag(u, name)
    BY <2>3, <2>4 DEF InTag, TagModes, AttrModes, Odd
  <2>. QED
    BY <1>4, <2>5 DEF u
<1>. QED
  BY <1>1, <1>2, <1>3, <1>4

\* after the name of an attribute too,
LEMMA AfterNameIn ==
    ASSUME NEW t, NEW i, NEW c, NEW name, ~t.tag.closing, t.tag.name = name
    PROVE  IF c = ">" THEN AfterName(t, i, c).mode = EndMode(name)
           ELSE InTag(AfterName(t, i, c), name)
<1> DEFINE u == AfterName(t, i, c)
<1>1. CASE c = Blank
  <2>1. u = In(t, "afterName") /\ c # ">"
    BY <1>1, AfterNameReads, BlankApart
  <2>. QED
    BY <2>1 DEF InTag, TagModes, AttrModes, In, To
<1>2. CASE c = "="
  <2>1. u = In(t, "beforeValue") /\ c # ">"
    BY <1>2, AfterNameReads
  <2>. QED
    BY <2>1 DEF InTag, TagModes, AttrModes, In, To
<1>3. CASE c # Blank /\ c # "="
  <2>1. u = BeforeAttr(Bare(t), i, c)
    BY <1>3, AfterNameReads
  <2>2. ~Bare(t).tag.closing /\ Bare(t).tag.name = name
    BY DEF Bare, Has, To, Tag
  <2>. QED
    BY <2>1, <2>2, BeforeAttrIn
<1>. QED
  BY <1>1, <1>2, <1>3

\* in every mode: it ends at a '>' that is not in quotes.
LEMMA TagReads ==
    ASSUME NEW t, NEW i, NEW c, NEW name, ~t.tag.closing, t.tag.name = name,
           t.mode \in TagModes \/ (t.mode = "tagName" /\ c \in TagNameEnds),
           NEW u, u = Read(t, i, c)
    PROVE  \/ InTag(u, name) /\ (c = ">" => u.mode \in Quotes)
           \/ c = ">" /\ u.mode = EndMode(name)
<1>1. CASE t.mode = "tagName" /\ c \in TagNameEnds
  <2>1. u = BeforeAttr(t, i, c)
    BY <1>1, ReadTag DEF TagName
  <2>. QED
    BY <2>1, BeforeAttrIn
<1>2. CASE t.mode \in {"beforeAttr", "afterQuoted"}
  <2>1. u = BeforeAttr(t, i, c)
    BY <1>2, ReadTag
  <2>. QED
    BY <2>1, BeforeAttrIn
<1>3. CASE t.mode = "slash"
  <2>1. u = IF c = ">" THEN EmitsSlashed(t) ELSE BeforeAttr(t, i, c)
    BY <1>3, ReadTag
  <2>. QED
    BY <2>1, BeforeAttrIn, EmitsMode
<1>4. CASE t.mode = "attrName"
  <2>1. u = AttrName(t, i, c)
    BY <1>4, ReadTag
  <2>2. CASE c \in AttrNameEnds
    <3>1. u = AfterName(Named(t, i), i, c)
      BY <2>1, <2>2 DEF AttrName
    <3>2. ~Named(t, i).tag.closing /\ Named(t, i).tag.name = name
      BY DEF Named, Under, To, Tag
    <3>. QED
      BY <3>1, <3>2, AfterNameIn
  <2>3. CASE c \notin AttrNameEnds
    <3>1. c # ">"
      BY <2>3 DEF AttrNameEnds, TagNameEnds
    <3>2. u = Under(t, "attrName", Attr(Append(t.tag.attr.name, c), t.tag.attr.start, i, i))
      BY <2>1, <2>3 DEF AttrName
    <3>3. InTag(u, name)
      BY <3>2 DEF InTag, TagModes, AttrModes, Under, To, Tag
    <3>. QED
      BY <3>1, <3>3
  <2>. QED
    BY <2>2, <2>3
<1>5. CASE t.mode = "afterName"
  <2>1. u = AfterName(t, i, c)
    BY <1>5, ReadTag
  <2>. QED
    BY <2>1, AfterNameIn
<1>6. CASE t.mode = "beforeValue"
  <2>1. u = BeforeValue(t, i, c)
    BY <1>6, ReadTag
  <2>2. ASSUME NEW mode, NEW k PROVE ~ValueAt(t, mode, k).tag.closing
                                     /\ ValueAt(t, mode, k).tag.name = name
                                     /\ ValueAt(t, mode, k).mode = mode
    BY DEF ValueAt, Under, To, Tag
  <2>3. CASE c = Blank
    <3>1. u = t /\ c # ">"
      BY <2>1, <2>3, BeforeValueReads, BlankApart
    <3>. QED
      BY <1>6, <3>1 DEF InTag, TagModes, AttrModes
  <2>4. CASE c \in Quotes
    <3>1. u = ValueAt(t, c, i + 1)
      BY <2>1, <2>4, BeforeValueReads
    <3>2. c \in TagModes
      BY <2>4 DEF TagModes, AttrModes
    <3>. QED
      BY <2>2, <2>4, <3>1, <3>2 DEF InTag
  <2>5. CASE c = ">"
    <3> DEFINE v == Valued(ValueAt(t, "unquoted", i), i)
    <3>1. u = Emits(v)
      BY <2>1, <2>5, BeforeValueReads
    <3>2. v.tag.closing = ValueAt(t, "unquoted", i).tag.closing
          /\ v.tag.name = ValueAt(t, "unquoted", i).tag.name
      BY DEF Valued, Has, To, Tag
    <3> HIDE DEF v
    <3>. QED
      BY <2>2, <2>5, <3>1, <3>2, EmitsMode
  <2>6. CASE c # Blank /\ c \notin Quotes /\ c # ">"
    <3>1. c \notin Quotes \cup UnquotedEnds
      BY <2>6 DEF UnquotedEnds
    <3>2. u = ValueAt(t, "unquoted", i)
      BY <2>1, <3>1, BeforeValueReads
    <3>. QED
      BY <2>2, <2>6, <3>2 DEF InTag, TagModes, AttrModes
  <2>. QED
    BY <2>3, <2>4, <2>5, <2>6
<1>7. CASE t.mode = "unquoted"
  <2>1. u = Unquoted(t, i, c)
    BY <1>7, ReadTag
  <2>2. CASE c \in UnquotedEnds
    <3>1. u = BeforeAttr(Valued(t, i), i, c)
      BY <2>1, <2>2 DEF Unquoted
    <3>2. ~Valued(t, i).tag.closing /\ Valued(t, i).tag.name = name
      BY DEF Valued, Has, To, Tag
    <3>. QED
      BY <3>1, <3>2, BeforeAttrIn
  <2>3. CASE c \notin UnquotedEnds
    <3>1. u = t /\ c # ">"
      BY <2>1, <2>3 DEF Unquoted, UnquotedEnds
    <3>. QED
      BY <1>7, <3>1 DEF InTag, TagModes, AttrModes
  <2>. QED
    BY <2>2, <2>3
<1>8. CASE t.mode \in Quotes
  <2>1. CASE c = t.mode
    <3>1. u = In(Quoted(t, i), "afterQuoted") /\ c # ">"
      BY <1>8, <2>1, ReadTag, QuotesApart
    <3>2. InTag(u, name)
      BY <3>1 DEF InTag, TagModes, In, Quoted, Has, To, Tag
    <3>. QED
      BY <3>1, <3>2
  <2>2. CASE c # t.mode
    <3>1. u = t
      BY <1>8, <2>2, ReadTag
    <3>. QED
      BY <1>8, <3>1 DEF InTag, TagModes, AttrModes
  <2>. QED
    BY <2>1, <2>2
<1>. QED
  BY <1>1, <1>2, <1>3, <1>4, <1>5, <1>6, <1>7, <1>8 DEF TagModes, AttrModes

-----------------------------------------------------------------------------
\* A <head> read where the browser reads markup ends at the first '>' that is not
\* in a value, as long as those before it are.
LEMMA HeadRun ==
    ASSUME NEW s, Calm(s), NEW h \in 1 .. Len(s), Tokens(s)[h - 1].mode = "data",
           s[h] = "<", h + 2 <= Len(s), s[h + 1] = "d", s[h + 2] \in TagNameEnds,
           NEW g \in h .. Len(s), s[g] = ">", Tokens(s)[g].mode \notin Quotes,
           \A k \in h .. g - 1 : s[k] = ">" => Tokens(s)[k].mode \in Quotes
    PROVE  Tokens(s)[g].mode = "data"
<1>1. /\ Len(s) \in Nat /\ h \in Nat /\ h - 1 \in 0 .. Len(s) - 1 /\ h - 1 + 1 = h
      /\ h \in 0 .. Len(s) - 1 /\ h + 1 \in Nat /\ g \in Nat
  BY CalmLen
<1> DEFINE t == Tokens(s)[h - 1]
           u == Tokens(s)[h]
           v == Tokens(s)[h + 1]
<1>2. u = Read(t, h, s[h]) /\ v = Read(u, h + 1, s[h + 1])
  BY <1>1, OneStep
<1>3. t.mode = "data"
  OBVIOUS
<1> HIDE DEF t, u, v
<1>4. u.mode = "open"
  <2>1. u = Data(t, "<")
    BY <1>2, <1>3, ReadText
  <2>. QED
    BY <2>1 DEF Data, In, To
<1>5. v.mode = "tagName" /\ ~v.tag.closing /\ v.tag.name = HeadTag
  <2>1. "d" \in Letters
    BY DEF Letters
  <2>2. v = OpensStart(u, "d")
    BY <1>2, <1>4, <2>1, ReadText DEF Letters
  <2>. QED
    BY <2>2 DEF OpensStart, To, Tag, HeadTag
<1>6. g \in h + 2 .. Len(s)
  BY <1>1
<1> DEFINE P == {k \in Nat : /\ ~Tokens(s)[k].tag.closing /\ Tokens(s)[k].tag.name = HeadTag
                             /\ \/ Tokens(s)[k].mode \in TagModes
                                \/ k = h + 1 /\ Tokens(s)[k].mode = "tagName"}
<1>7. h + 1 \in P
  BY <1>1, <1>5 DEF v
<1>8. HeadTag \notin rawText
  BY DEF HeadTag, rawText, Raw, Style
<1>9. EndMode(HeadTag) = "data" /\ "data" \notin Quotes
  <2>1. "data" \in PlainModes
    BY DEF PlainModes
  <2>. QED
    BY <1>8, <2>1, QuotesApart DEF EndMode
<1>10. ASSUME NEW k \in h + 1 .. Len(s) - 1, k \in P
       PROVE  \/ /\ InTag(Tokens(s)[k + 1], HeadTag)
                 /\ s[k + 1] = ">" => Tokens(s)[k + 1].mode \in Quotes
              \/ s[k + 1] = ">" /\ Tokens(s)[k + 1].mode = "data"
  <2> DEFINE i == k + 1
             x == Tokens(s)[k]
             y == Tokens(s)[i]
             c == s[i]
  <2>1. k \in 0 .. Len(s) - 1 /\ k \in Nat /\ (k = h + 1 => i = h + 2)
    BY <1>1
  <2>2. y = Read(x, i, c)
    BY <2>1, OneStep
  <2>3. ~x.tag.closing /\ x.tag.name = HeadTag
        /\ (x.mode \in TagModes \/ (x.mode = "tagName" /\ c \in TagNameEnds))
    BY <1>10, <2>1
  <2> HIDE DEF i, x, y, c
  <2>4. \/ InTag(y, HeadTag) /\ (c = ">" => y.mode \in Quotes)
        \/ c = ">" /\ y.mode = EndMode(HeadTag)
    BY <2>2, <2>3, TagReads
  <2>. QED
    BY <1>9, <2>4 DEF i, y, c
<1>11. ASSUME NEW k \in h + 1 .. g - 1 - 1, k \in P PROVE k + 1 \in P
  <2>1. k \in h + 1 .. Len(s) - 1 /\ k + 1 \in h .. g - 1 /\ k + 1 \in Nat
    BY <1>1, <1>6
  <2>2. InTag(Tokens(s)[k + 1], HeadTag)
    BY <1>9, <1>10, <1>11, <2>1
  <2>. QED
    BY <2>1, <2>2 DEF InTag
<1>12. g - 1 \in P
  <2>1. g - 1 \in Nat /\ g - 1 \in h + 1 .. g - 1
    BY <1>1, <1>6
  <2>2. \A k \in h + 1 .. g - 1 : k \in P
    <3> DEFINE m == h + 1
               n == g - 1
    <3>1. m \in Nat /\ n \in Nat /\ m \in P
      BY <1>1, <1>7, <2>1
    <3> HIDE DEF P
    <3>2. \A k \in m .. n - 1 : k \in P => k + 1 \in P
      BY <1>11
    <3> HIDE DEF m, n
    <3>3. \A k \in m .. n : k \in P
      BY <3>1, <3>2, Along
    <3>. QED
      BY <3>3 DEF m, n
  <2>. QED
    BY <2>1, <2>2
<1>13. g - 1 \in h + 1 .. Len(s) - 1 /\ g - 1 + 1 = g
  BY <1>1, <1>6
<1> HIDE DEF P
<1>. QED
  BY <1>10, <1>12, <1>13

\* One character after another are two.
LEMMA Pair ==
    ASSUME NEW x, NEW y
    PROVE  <<x>> \o <<y>> = <<x, y>>
<1> DEFINE S == {x, y}
           p == <<x>> \o <<y>>
           q == <<x, y>>
<1>1. <<x>> \in Seq(S) /\ <<y>> \in Seq(S) /\ Len(<<x>>) = 1 /\ Len(<<y>>) = 1
  OBVIOUS
<1>2. q \in Seq(S) /\ Len(q) = 2 /\ q[1] = x /\ q[2] = y
  OBVIOUS
<1>3. p \in Seq(S) /\ Len(p) = 2 /\ p[1] = x /\ p[2] = y
  BY <1>1, ConcatProperties
<1> HIDE DEF p, q, S
<1>4. \A i \in 1 .. Len(p) : p[i] = q[i]
  BY <1>2, <1>3
<1>5. p = q
  BY <1>2, <1>3, <1>4, SeqEqual
<1>. QED
  BY <1>5 DEF p, q

\* Where headOpenTag finds a <head>.
LEMMA HeadRange ==
    ASSUME doc \in Seq(STRING), NEW h, h = headOpenTag, h # 0
    PROVE  /\ h \in 1 .. Len(doc) /\ doc[h] = "<" /\ doc[h + 1] = "d" /\ h + 2 <= Len(doc)
           /\ doc[h + 2] \in TagNameEnds
<1> DEFINE Here(i) == /\ At(doc, i, <<"<">> \o HeadTag) /\ ~Replaced(i)
                      /\ i + (1 + Len(HeadTag)) <= Len(doc)
                      /\ doc[i + (1 + Len(HeadTag))] \in TagNameEnds
           f == [i \in DOMAIN doc |-> Here(i)]
           I == {i \in 1 .. Len(f) : f[i]}
<1>1. h = IF I # {} THEN CHOOSE x \in I : \A y \in I : x =< y ELSE 0
  BY DEF headOpenTag, SelectInSeq, Min
<1>2. Len(doc) \in Nat /\ DOMAIN doc = 1 .. Len(doc)
  OBVIOUS
<1>3. Len(f) = Len(doc)
  BY <1>2
<1> HIDE DEF f
<1>4. I # {} /\ I \in SUBSET Nat
  <2>1. I \in SUBSET Nat
    BY <1>2, <1>3
  <2> HIDE DEF I
  <2>. QED
    BY <1>1, <2>1
<1>5. \E x \in I : \A y \in I : x =< y
  BY <1>4, NatMin
<1>6. h \in I
  BY <1>1, <1>4, <1>5
<1>7. h \in 1 .. Len(doc) /\ Here(h)
  <2>1. h \in 1 .. Len(doc) /\ f[h]
    BY <1>2, <1>3, <1>6
  <2> HIDE DEF Here
  <2>. QED
    BY <1>2, <2>1 DEF f
<1> DEFINE x == "<"
           y == "d"
           pair == <<x, y>>
<1>8. HeadTag = <<y>> /\ Len(HeadTag) = 1
  BY DEF HeadTag
<1> HIDE DEF x, y
<1>9. <<x>> \o <<y>> = pair
  BY Pair
<1>10. Here(h) => At(doc, h, pair) /\ h + 2 <= Len(doc) /\ doc[h + 2] \in TagNameEnds
  <2>1. <<"<">> \o HeadTag = pair
    BY <1>8, <1>9 DEF x
  <2>2. 1 + Len(HeadTag) = 2
    BY <1>8
  <2> HIDE DEF pair
  <2>. QED
    BY <2>1, <2>2
<1> HIDE DEF Here
<1>11. h \in Nat /\ Len(doc) \in Nat
  BY <1>2, <1>7
<1>12. doc[h] = x /\ doc[h + 1] = y
  BY <1>7, <1>10, <1>11, AtPair
<1>. QED
  BY <1>7, <1>10, <1>12 DEF x, y

\* Where Inject finds the end of the head's tag: at the first '>' that was
\* not replaced.
LEMMA PastHeadRange ==
    ASSUME doc \in Seq(STRING), PastHead # 0, NEW h, h = headOpenTag
    PROVE  /\ h # 0 /\ PastHead \in h .. Len(doc) /\ doc[PastHead] = ">"
           /\ \A i \in h .. PastHead - 1 : doc[i] = ">" => Replaced(i)
<1> DEFINE f == [i \in DOMAIN doc |-> doc[i] = ">" /\ ~Replaced(i)]
           I == {i \in h .. Len(doc) : f[i]}
           g == PastHead
<1>1. h # 0 /\ g = IF I # {} THEN CHOOSE x \in I : \A y \in I : x =< y ELSE 0
  BY DEF PastHead, SelectInSubSeq, Min
<1>2. Len(doc) \in Nat /\ DOMAIN doc = 1 .. Len(doc) /\ h \in 1 .. Len(doc)
  BY <1>1, HeadRange
<1>3. I = {i \in h .. Len(doc) : doc[i] = ">" /\ ~Replaced(i)}
  <2>1. \A i \in h .. Len(doc) : i \in DOMAIN doc
    BY <1>2
  <2>. QED
    BY <2>1
<1> HIDE DEF f, I, g
<1>4. I # {} /\ I \in SUBSET Nat
  BY <1>1, <1>2, <1>3 DEF g
<1>5. \E x \in I : \A y \in I : x =< y
  BY <1>4, NatMin
<1>6. g \in I /\ \A y \in I : g <= y
  BY <1>1, <1>4, <1>5
<1>7. g \in h .. Len(doc) /\ doc[g] = ">" /\ g \in Nat
  BY <1>2, <1>3, <1>6
<1>8. ASSUME NEW i \in h .. g - 1, doc[i] = ">" PROVE Replaced(i)
  <2>1. i \in h .. Len(doc) /\ ~(g <= i)
    BY <1>2, <1>7
  <2>. QED
    BY <1>3, <1>6, <1>8, <2>1
<1>. QED
  BY <1>1, <1>7, <1>8 DEF g

\* Exchange.  The runtime goes where it was found to go.
PlaceInv == pc \in {"respond", "done"} => bootstrap \in {0, InjectAt}

LEMMA InitPlace == Init => PlaceInv
BY DEF Init, PlaceInv

\* No step moves it.
LEMMA NextPlace == PlaceInv /\ [Next]_vars => PlaceInv'
<1>. SUFFICES ASSUME PlaceInv, [Next]_vars PROVE PlaceInv'
  OBVIOUS
<1>1. ASSUME doc' = doc, out' = out PROVE InjectAt' = InjectAt
  <2> DEFINE f == [i \in DOMAIN doc |-> doc[i] = ">" /\ ~Replaced(i)]
             h == headOpenTag
             I == {i \in h .. Len(doc) : f[i]}
             G == IF h = 0 THEN 0 ELSE IF I # {} THEN CHOOSE x \in I : \A y \in I : x =< y ELSE 0
  <2>1. PastHead = G
    BY DEF PastHead, SelectInSubSeq, Min
  <2>2. PastHead' = G'
    BY DEF PastHead, SelectInSubSeq, Min
  <2>3. f' = f
    BY <1>1 DEF Replaced
  <2>4. h' = h
    <3> DEFINE n == 1 + Len(HeadTag)
               H == [i \in DOMAIN doc |->
                       /\ At(doc, i, <<"<">> \o HeadTag) /\ ~Replaced(i)
                       /\ i + n <= Len(doc) /\ doc[i + n] \in TagNameEnds]
               J == {i \in 1 .. Len(H) : H[i]}
    <3>1. /\ h = IF J # {} THEN CHOOSE x \in J : \A y \in J : x =< y ELSE 0
          /\ h' = IF J' # {} THEN CHOOSE x \in J' : \A y \in J' : x =< y ELSE 0
      BY DEF headOpenTag, SelectInSeq, Min
    <3>2. H' = H
      BY <1>1 DEF Replaced
    <3>3. J' = J
      <4> HIDE DEF H
      <4>. QED
        BY <3>2
    <3> HIDE DEF J, h
    <3>. QED
      BY <3>1, <3>3
  <2>5. I' = I
    <3> HIDE DEF f, h
    <3>. QED
      BY <1>1, <2>3, <2>4
  <2>6. PastHead' = PastHead
    <3> HIDE DEF I, h
    <3>. QED
      BY <2>1, <2>2, <2>4, <2>5
  <2>. QED
    BY <2>6 DEF InjectAt
<1>2. CASE Inject
  <2>1. InjectAt' = InjectAt /\ bootstrap' \in {0, InjectAt}
    BY <1>1, <1>2 DEF Inject, given
  <2>. QED
    BY <2>1 DEF PlaceInv
<1>3. CASE Respond \/ UNCHANGED vars
  <2>1. InjectAt' = InjectAt /\ bootstrap' = bootstrap
    BY <1>1, <1>3 DEF Respond, vars, given
  <2>2. pc' \in {"respond", "done"} => pc \in {"respond", "done"}
    BY <1>3 DEF Respond, vars
  <2>. QED
    BY <2>1, <2>2 DEF PlaceInv
<1>4. CASE Ask \/ Answered \/ ScanText \/ ScanMarkup \/ ScanEnds
  BY <1>4 DEF Ask, Answered, ScanText, ScanMarkup, ScanEnds, Writes, PlaceInv
<1>. QED
  BY <1>2, <1>3, <1>4 DEF Next

\* What has been replaced by the end is in a value of the document's.
LEMMA ReplacedQuoted ==
    ASSUME GivenInv, ScanInv, MarkupInv, EndInv, pc = "respond", Ordinary(doc),
           NEW i \in 1 .. Len(doc), doc[i] = ">", Replaced(i)
    PROVE  Tokens(doc)[i].mode \in Quotes
<1>1. Len(doc) \in Nat /\ pos \in 1 .. Len(doc) + 1 /\ pos > Len(doc) /\ doc \in Seq(STRING)
  BY DEF GivenInv, ScanInv, EndInv
<1>2. pos - 1 = Len(doc)
  BY <1>1
<1>3. Touching(out) = ToTouch(doc)
  BY <1>2 DEF MarkupInv, TouchAt, TagsAt, ToTouch, Tokenized
<1>4. PICK k \in DOMAIN out : /\ out[k].how # "copied" /\ out[k].how # "css"
                              /\ i \in out[k].from .. out[k].to - 1
  BY DEF Replaced
<1>5. out[k] \in Spans
  BY DEF ScanInv, Runs
<1>6. out[k].how \in Hows
  BY <1>5 DEF Spans
<1>7. out[k].how \in {"replaced", "dropped"}
  BY <1>4, <1>6 DEF Hows
<1>8. out[k] \in ToTouch(doc)
  BY <1>3, <1>7 DEF Touching
<1>. QED
  BY <1>1, <1>4, <1>8, TouchSpares

\* Where the <head that is found begins a tag, and the '>' found from there on is
\* in none of its quoted values, the runtime is injected at a place where the
\* browser reads markup: a value that is replaced never misleads the search.
THEOREM RuntimeGoesToMarkup == Spec => []RuntimeIsMarkup
<1>1. ASSUME GivenInv, ScanInv, MarkupInv, EndInv, PlaceInv PROVE RuntimeIsMarkup
  <2>. SUFFICES ASSUME pc = "respond", bootstrap > 0, Ordinary(doc), HeadIsPlain
                PROVE  Tokens(doc)[bootstrap - 1].mode = "data"
    BY DEF RuntimeIsMarkup
  <2> DEFINE h == headOpenTag
             g == PastHead
  <2>1. Calm(doc) /\ doc \in Seq(STRING) /\ Len(doc) \in Nat
    BY <1>1 DEF Calm, GivenInv
  <2>2. bootstrap = InjectAt
    BY <1>1 DEF PlaceInv
  <2>3. CASE g = 0
    <3>1. bootstrap = 1
      BY <2>2, <2>3 DEF InjectAt
    <3>2. Tokens(doc)[0] = Fresh /\ Fresh.mode = "data"
      BY <2>1, TokensSteps DEF Fresh
    <3>. QED
      BY <3>1, <3>2
  <2>4. CASE g # 0
    <3>1. /\ h # 0 /\ g \in h .. Len(doc) /\ doc[g] = ">"
          /\ \A i \in h .. g - 1 : doc[i] = ">" => Replaced(i)
      BY <2>1, <2>4, PastHeadRange
    <3>2. /\ h \in 1 .. Len(doc) /\ doc[h] = "<" /\ doc[h + 1] = "d" /\ h + 2 <= Len(doc)
          /\ doc[h + 2] \in TagNameEnds
      BY <2>1, <3>1, HeadRange
    <3>3. bootstrap - 1 = g /\ InjectAt - 1 = g
      BY <2>2, <2>4, <3>1, <3>2 DEF InjectAt
    <3>4. Tokens(doc)[h - 1].mode = "data" /\ Tokens(doc)[g].mode \notin Quotes
      BY <3>1, <3>3 DEF HeadIsPlain
    <3>5. ASSUME NEW i \in h .. g - 1, doc[i] = ">" PROVE Tokens(doc)[i].mode \in Quotes
      <4>1. i \in 1 .. Len(doc)
        BY <2>1, <3>1, <3>2
      <4>. QED
        BY <1>1, <3>1, <3>5, <4>1, ReplacedQuoted
    <3> HIDE DEF h, g
    <3>6. Tokens(doc)[g].mode = "data"
      BY <2>1, <3>1, <3>2, <3>4, <3>5, HeadRun
    <3>. QED
      BY <3>3, <3>6
  <2>. QED
    BY <2>3, <2>4
<1>2. Init => MarkupInv /\ EndInv /\ PlaceInv
  BY InitAnswer, InitMarkup, InitPlace DEF AnswerInv
<1>3. /\ GivenInv /\ ScanInv /\ MarkupInv /\ EndInv /\ PlaceInv /\ [Next]_vars
      => (MarkupInv /\ EndInv /\ PlaceInv)'
  BY NextMarkup, NextPlace
<1>4. AnswerInv => GivenInv
  BY DEF AnswerInv
<1>5. Spec => [](MarkupInv /\ EndInv /\ PlaceInv)
  BY <1>2, <1>3, <1>4, AnswerInductive, ScanInductive, PTL DEF Spec
<1>. QED
  BY <1>1, <1>4, <1>5, AnswerInductive, ScanInductive, PTL
=============================================================================
