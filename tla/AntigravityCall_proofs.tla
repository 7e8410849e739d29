------------------------ MODULE AntigravityCall_proofs ------------------------
(***************************************************************************)
(* Proofs about ProviderAnswers and AntigravityCall: of an answer of any   *)
(* length, every parser lets through exactly the one agreed on with its    *)
(* provider; what a call leaves behind is told; a cancelled request never  *)
(* comes back as done.                                                     *)
(*                                                                         *)
(* A parser is a sequence of checks (Stop), which is "ok" when each of     *)
(* them is (StopOk, Stop2 to Stop7).  For each provider, ...Shape says     *)
(* item by item what the sound answer is, and ...Sound that the checks     *)
(* come to the same.                                                       *)
(***************************************************************************)
EXTENDS AntigravityCall, FiniteSetTheorems, SequenceTheorems, TLAPS

\* Min of FiniteSetsExt is the least element: a set of numbers has one, because the
\* intervals 0..n with n in it have a smallest one.
LEMMA MinIs ==
  ASSUME NEW S, S \subseteq Nat, S # {}
  PROVE  Min(S) \in S /\ \A y \in S : Min(S) <= y
<1> DEFINE T == {0..n : n \in S}
<1>1. IsWellFoundedOn(StrictSubsetOrdering(Nat), FiniteSubsetsOf(Nat))
  BY FS_StrictSubsetOrderingWellFounded
<1>2. T \subseteq FiniteSubsetsOf(Nat)
  <2>1. \A n \in S : n \in Nat /\ 0 \in Int /\ n \in Int OBVIOUS
  <2>2. \A n \in S : IsFiniteSet(0..n) BY <2>1, FS_Interval
  <2>3. \A n \in S : 0..n \subseteq Nat OBVIOUS
  <2> QED BY <2>2, <2>3 DEF FiniteSubsetsOf
<1>3. T # {} OBVIOUS
<1>4. PICK X \in T : \A Y \in T : ~(<<Y, X>> \in StrictSubsetOrdering(Nat))
  <2> HIDE DEF T
  <2> QED BY <1>1, <1>2, <1>3, WFMin
<1>5. PICK x \in S : X = 0..x OBVIOUS
<1>6. ASSUME NEW y \in S PROVE x <= y
  <2>1. SUFFICES ASSUME y < x PROVE FALSE OBVIOUS
  <2>2. 0..y \subseteq 0..x /\ x \in 0..x /\ x \notin 0..y BY <2>1
  <2>3. 0..y \subseteq Nat /\ 0..x \subseteq Nat OBVIOUS
  <2>4. <<0..y, 0..x>> \in StrictSubsetOrdering(Nat) BY <2>2, <2>3 DEF StrictSubsetOrdering
  <2> QED BY <1>4, <1>5, <2>4
<1> QED BY <1>6 DEF Min

\* The checks let an answer through when each of them does.
LEMMA StopOk ==
  ASSUME NEW D, D \subseteq Nat, NEW says, DOMAIN says = D
  PROVE  Stop(says) = "ok" <=> \A n \in D : says[n] = "ok"
<1> DEFINE bad == {n \in DOMAIN says : says[n] # "ok"}
<1>1. CASE bad = {} BY <1>1 DEF Stop
<1>2. CASE bad # {}
  <2>1. Min(bad) \in bad
    <3> HIDE DEF bad
    <3>1. bad \subseteq Nat BY DEF bad
    <3> QED BY <3>1, <1>2, MinIs
  <2> QED BY <2>1, <1>2 DEF Stop
<1> QED BY <1>1, <1>2

\* The same for so many checks written one by one.
LEMMA Stop2 ==
  ASSUME NEW a, NEW b
  PROVE  Stop(<<a, b>>) = "ok" <=> a = "ok" /\ b = "ok"
<1> DEFINE says == <<a, b>>
<1>1. DOMAIN says = 1..2 /\ says[1] = a /\ says[2] = b OBVIOUS
<1>2. 1..2 \subseteq Nat /\ \A n : n \in 1..2 <=> n \in {1, 2} OBVIOUS
<1> HIDE DEF says
<1>3. Stop(says) = "ok" <=> \A n \in 1..2 : says[n] = "ok" BY <1>1, <1>2, StopOk
<1> QED BY <1>1, <1>2, <1>3 DEF says

LEMMA Stop3 ==
  ASSUME NEW a, NEW b, NEW c
  PROVE  Stop(<<a, b, c>>) = "ok" <=> a = "ok" /\ b = "ok" /\ c = "ok"
<1> DEFINE says == <<a, b, c>>
<1>1. DOMAIN says = 1..3 /\ says[1] = a /\ says[2] = b /\ says[3] = c OBVIOUS
<1>2. 1..3 \subseteq Nat /\ \A n : n \in 1..3 <=> n \in {1, 2, 3} OBVIOUS
<1> HIDE DEF says
<1>3. Stop(says) = "ok" <=> \A n \in 1..3 : says[n] = "ok" BY <1>1, <1>2, StopOk
<1> QED BY <1>1, <1>2, <1>3 DEF says

LEMMA Stop4 ==
  ASSUME NEW a, NEW b, NEW c, NEW d
  PROVE  Stop(<<a, b, c, d>>) = "ok" <=> a = "ok" /\ b = "ok" /\ c = "ok" /\ d = "ok"
<1> DEFINE says == <<a, b, c, d>>
<1>1. DOMAIN says = 1..4 /\ says[1] = a /\ says[2] = b /\ says[3] = c /\ says[4] = d OBVIOUS
<1>2. 1..4 \subseteq Nat /\ \A n : n \in 1..4 <=> n \in {1, 2, 3, 4} OBVIOUS
<1> HIDE DEF says
<1>3. Stop(says) = "ok" <=> \A n \in 1..4 : says[n] = "ok" BY <1>1, <1>2, StopOk
<1> QED BY <1>1, <1>2, <1>3 DEF says

LEMMA Stop5 ==
  ASSUME NEW a, NEW b, NEW c, NEW d, NEW e
  PROVE  Stop(<<a, b, c, d, e>>) = "ok"
           <=> a = "ok" /\ b = "ok" /\ c = "ok" /\ d = "ok" /\ e = "ok"
<1> DEFINE says == <<a, b, c, d, e>>
<1>1. /\ DOMAIN says = 1..5 /\ says[1] = a /\ says[2] = b /\ says[3] = c /\ says[4] = d
      /\ says[5] = e
  OBVIOUS
<1>2. 1..5 \subseteq Nat /\ \A n : n \in 1..5 <=> n \in {1, 2, 3, 4, 5} OBVIOUS
<1> HIDE DEF says
<1>3. Stop(says) = "ok" <=> \A n \in 1..5 : says[n] = "ok" BY <1>1, <1>2, StopOk
<1> QED BY <1>1, <1>2, <1>3 DEF says

LEMMA Stop7 ==
  ASSUME NEW a, NEW b, NEW c, NEW d, NEW e, NEW f, NEW g
  PROVE  Stop(<<a, b, c, d, e, f, g>>) = "ok"
           <=> /\ a = "ok" /\ b = "ok" /\ c = "ok" /\ d = "ok" /\ e = "ok"
               /\ f = "ok" /\ g = "ok"
<1> DEFINE says == <<a, b, c, d, e, f, g>>
<1>1. /\ DOMAIN says = 1..7 /\ says[1] = a /\ says[2] = b /\ says[3] = c /\ says[4] = d
      /\ says[5] = e /\ says[6] = f /\ says[7] = g
  OBVIOUS
<1>2. 1..7 \subseteq Nat /\ \A n : n \in 1..7 <=> n \in {1, 2, 3, 4, 5, 6, 7} OBVIOUS
<1> HIDE DEF says
<1>3. Stop(says) = "ok" <=> \A n \in 1..7 : says[n] = "ok" BY <1>1, <1>2, StopOk
<1> QED BY <1>1, <1>2, <1>3 DEF says

\* What Repeat writes.
LEMMA RepeatIs ==
  ASSUME NEW k, NEW n \in Nat
  PROVE  /\ \A Y : k \in Y => Repeat(k, n) \in Seq(Y)
         /\ Len(Repeat(k, n)) = n
         /\ \A i \in 1..n : Repeat(k, n)[i] = k
BY DEF Repeat

\* Two sequences with the same items are the same.
LEMMA SameItems ==
  ASSUME NEW X, NEW Y, NEW s \in Seq(X), NEW t \in Seq(Y), Len(s) = Len(t),
         \A i \in 1..Len(s) : s[i] = t[i]
  PROVE  s = t
<1>1. DOMAIN s = DOMAIN t /\ \A i \in DOMAIN s : s[i] = t[i] OBVIOUS
<1> QED BY <1>1

\* A sequence with a beginning, n times the same item, and an end.
Framing(s, a, k, n, b) ==
  /\ Len(s) = Len(a) + n + Len(b)
  /\ \A i \in 1..Len(a) : s[i] = a[i]
  /\ \A i \in 1..n : s[Len(a) + i] = k
  /\ \A i \in 1..Len(b) : s[Len(a) + n + i] = b[i]

\* A sequence is written with a beginning, repetitions and an end when it has their items.
LEMMA Framed ==
  ASSUME NEW Y, NEW X, NEW a \in Seq(Y), NEW b \in Seq(Y), NEW s \in Seq(X),
         NEW k \in Y, NEW n \in Nat
  PROVE  s = a \o Repeat(k, n) \o b <=> Framing(s, a, k, n, b)
<1> DEFINE r == Repeat(k, n)
           t == a \o r \o b
<1>1. r \in Seq(Y) /\ Len(r) = n /\ \A i \in 1..n : r[i] = k
  BY RepeatIs
<1> HIDE DEF r
<1>2. /\ t \in Seq(Y) /\ Len(t) = Len(a) + n + Len(b)
      /\ \A i \in 1..Len(a) : t[i] = a[i]
      /\ \A i \in 1..n : t[Len(a) + i] = k
      /\ \A i \in 1..Len(b) : t[Len(a) + n + i] = b[i]
  <2> DEFINE h == a \o r
  <2>1. /\ h \in Seq(Y) /\ Len(h) = Len(a) + n
        /\ \A i \in 1..Len(h) : h[i] = IF i <= Len(a) THEN a[i] ELSE r[i - Len(a)]
    BY <1>1, ConcatProperties
  <2>2. (\A i \in 1..Len(a) : h[i] = a[i]) /\ (\A i \in 1..n : h[Len(a) + i] = k)
    <3> HIDE DEF h
    <3>1. \A i \in 1..n : /\ Len(a) + i \in 1..Len(h) /\ ~(Len(a) + i <= Len(a))
                          /\ Len(a) + i - Len(a) = i
      BY <2>1
    <3>2. \A i \in 1..Len(a) : i \in 1..Len(h) /\ i <= Len(a) BY <2>1
    <3>3. \A i \in 1..Len(a) : h[i] = a[i] BY <2>1, <3>2
    <3>4. ASSUME NEW i \in 1..n PROVE h[Len(a) + i] = k
      <4>1. h[Len(a) + i] = r[Len(a) + i - Len(a)] BY <2>1, <3>1
      <4> QED BY <1>1, <3>1, <4>1
    <3> QED BY <3>3, <3>4
  <2> HIDE DEF h
  <2>3. /\ h \o b \in Seq(Y) /\ Len(h \o b) = Len(h) + Len(b)
        /\ \A i \in 1..(Len(h) + Len(b)) : (h \o b)[i] = IF i <= Len(h) THEN h[i] ELSE b[i - Len(h)]
    BY <2>1, ConcatProperties
  <2>4. t = h \o b BY DEF h
  <2> HIDE DEF t
  <2>5. \A i \in 1..Len(h) : t[i] = h[i]
    <3>1. \A i \in 1..Len(h) : i \in 1..(Len(h) + Len(b)) /\ i <= Len(h) BY <2>1
    <3> QED BY <2>3, <2>4, <3>1
  <2>6. \A i \in 1..Len(b) : t[Len(h) + i] = b[i]
    <3>1. \A i \in 1..Len(b) : /\ Len(h) + i \in 1..(Len(h) + Len(b)) /\ ~(Len(h) + i <= Len(h))
                               /\ Len(h) + i - Len(h) = i
      BY <2>1
    <3> QED BY <2>3, <2>4, <3>1
  <2>7. \A i \in 1..n : Len(a) + i \in 1..Len(h) BY <2>1
  <2>8. \A i \in 1..Len(a) : i \in 1..Len(h) BY <2>1
  <2> QED BY <2>1, <2>2, <2>3, <2>4, <2>5, <2>6, <2>7, <2>8
<1>3. ASSUME /\ Len(s) = Len(a) + n + Len(b)
             /\ \A i \in 1..Len(a) : s[i] = a[i]
             /\ \A i \in 1..n : s[Len(a) + i] = k
             /\ \A i \in 1..Len(b) : s[Len(a) + n + i] = b[i]
      PROVE  s = t
  <2> HIDE DEF t
  <2>1. ASSUME NEW i \in 1..Len(s) PROVE s[i] = t[i]
    <3>1. CASE i \in 1..Len(a) BY <3>1, <1>2, <1>3
    <3>2. CASE i - Len(a) \in 1..n
      <4>1. i = Len(a) + (i - Len(a)) OBVIOUS
      <4> QED BY <3>2, <4>1, <1>2, <1>3
    <3>3. CASE i - Len(a) - n \in 1..Len(b)
      <4>1. i = Len(a) + n + (i - Len(a) - n) OBVIOUS
      <4> QED BY <3>3, <4>1, <1>2, <1>3
    <3> QED BY <3>1, <3>2, <3>3, <1>3
  <2> QED BY <2>1, <1>2, <1>3, SameItems
<1>4. s = t => /\ Len(s) = Len(a) + n + Len(b)
               /\ \A i \in 1..Len(a) : s[i] = a[i]
               /\ \A i \in 1..n : s[Len(a) + i] = k
               /\ \A i \in 1..Len(b) : s[Len(a) + n + i] = b[i]
  <2> HIDE DEF t
  <2> QED BY <1>2
<1> QED BY <1>3, <1>4 DEF r, Framing

\* The sound answer of the Codex command line, item by item.
LEMMA CodexShape ==
  ASSUME NEW X, NEW s \in Seq(X), NEW n \in Nat
  PROVE  s = Shape("codex_cli", n)
           <=> /\ Len(s) = n + 4 /\ s[1] = "thread" /\ s[2] = "turn"
               /\ \A i \in 3..(n + 2) : s[i] = "reasoning"
               /\ s[n + 3] = "message" /\ s[n + 4] = "completed"
<1> DEFINE a == <<"thread", "turn">>
           b == <<"message", "completed">>
           Y == {"thread", "turn", "reasoning", "message", "completed"}
<1>0. 1..2 = {1, 2} /\ 1..2 = {1, 2} OBVIOUS
<1>1. /\ a \in Seq(Y) /\ Len(a) = 2 /\ a[1] = "thread" /\ a[2] = "turn"
      /\ b \in Seq(Y) /\ Len(b) = 2 /\ b[1] = "message" /\ b[2] = "completed"
  OBVIOUS
<1>2. Shape("codex_cli", n) = a \o Repeat("reasoning", n) \o b BY DEF Shape
<1> HIDE DEF a, b
<1>3. s = Shape("codex_cli", n) <=> Framing(s, a, "reasoning", n, b)
  <2>1. "reasoning" \in Y OBVIOUS
  <2>2. a \in Seq(Y) /\ b \in Seq(Y) BY <1>1
  <2> HIDE DEF Y
  <2>3. ASSUME NEW k \in Y
        PROVE  s = a \o Repeat(k, n) \o b <=> Framing(s, a, k, n, b)
    BY <2>2, Framed
  <2>4. s = a \o Repeat("reasoning", n) \o b <=> Framing(s, a, "reasoning", n, b)
    BY <2>1, <2>3
  <2> QED BY <1>2, <2>4
<1>4. (\A i \in 1..n : s[2 + i] = "reasoning") <=> (\A i \in 3..(n + 2) : s[i] = "reasoning")
  <2>1. \A i \in 3..(n + 2) : i - 2 \in 1..n /\ 2 + (i - 2) = i OBVIOUS
  <2>2. \A i \in 1..n : 2 + i \in 3..(n + 2) OBVIOUS
  <2> QED BY <2>1, <2>2
<1>5. (\A i \in 1..2 : s[i] = a[i]) <=> s[1] = "thread" /\ s[2] = "turn" BY <1>0, <1>1
<1>6. (\A i \in 1..2 : s[2 + n + i] = b[i]) <=> s[n + 3] = "message" /\ s[n + 4] = "completed"
  <2>1. 2 + n + 1 = n + 3 /\ 2 + n + 2 = n + 4 OBVIOUS
  <2> QED BY <1>0, <1>1, <2>1
<1>7. 2 + n + 2 = n + 4 OBVIOUS
<1> QED BY <1>1, <1>3, <1>4, <1>5, <1>6, <1>7 DEF Framing

\* The checks of parseCodexJsonl (codexCliProtocol.ts).
LEMMA CodexSound ==
  ASSUME NEW X, NEW s \in Seq(X)
  PROVE  Codex(s) = "ok" <=> \E n \in 0..Len(s) : s = Shape("codex_cli", n)
<1> DEFINE tools == [n \in DOMAIN s |->
                       CASE s[n] = "tool" -> "TOOL_ACTIVITY"
                         [] s[n] = "untyped" -> "OUTPUT_INVALID"
                         [] OTHER -> "ok"]
           fits(n) == CASE s[n] = "reasoning" -> ~Before(s, n, Texts)
                        [] s[n] \in {"message", "misfit"} -> ~Before(s, n, Texts)
                        [] OTHER -> FALSE
           loop == [n \in 3..(Len(s) - 1) |-> Must(fits(n), "OUTPUT_INVALID")]
<1>1. CodexTools(s) = "ok" <=> \A n \in 1..Len(s) : s[n] # "tool" /\ s[n] # "untyped"
  <2>1. DOMAIN tools = 1..Len(s) /\ 1..Len(s) \subseteq Nat OBVIOUS
  <2>2. \A n \in 1..Len(s) : tools[n] = "ok" <=> s[n] # "tool" /\ s[n] # "untyped" OBVIOUS
  <2>3. CodexTools(s) = Stop(tools) BY DEF CodexTools
  <2> HIDE DEF tools
  <2> QED BY <2>1, <2>2, <2>3, StopOk
<1>2. CodexItems(s) = "ok"
        <=> \A n \in 3..(Len(s) - 1) :
              s[n] \in {"reasoning", "message", "misfit"} /\ ~Before(s, n, Texts)
  <2>1. DOMAIN loop = 3..(Len(s) - 1) /\ 3..(Len(s) - 1) \subseteq Nat OBVIOUS
  <2>2. \A n \in 3..(Len(s) - 1) :
          loop[n] = "ok" <=> s[n] \in {"reasoning", "message", "misfit"} /\ ~Before(s, n, Texts)
    BY DEF Must
  <2>3. CodexItems(s) = Stop(loop) BY DEF CodexItems
  <2> HIDE DEF loop
  <2> QED BY <2>1, <2>2, <2>3, StopOk
<1>3. Lines(s, 4) = "ok" <=> Len(s) >= 4 /\ \A n \in 1..Len(s) : s[n] # "broken"
  BY DEF Lines, Must
<1>4. Codex(s) = "ok"
        <=> /\ Lines(s, 4) = "ok" /\ CodexTools(s) = "ok"
            /\ Item(s, 1) = "thread" /\ Item(s, 2) = "turn" /\ Ends(s) = "completed"
            /\ CodexItems(s) = "ok"
            /\ \E n \in DOMAIN s : s[n] = "message"
  BY Stop5 DEF Codex, Must
<1>5. ASSUME Codex(s) = "ok"
      PROVE  \E n \in 0..Len(s) : s = Shape("codex_cli", n)
  <2>1. /\ Len(s) >= 4 /\ s[1] = "thread" /\ s[2] = "turn" /\ s[Len(s)] = "completed"
        /\ \A n \in 3..(Len(s) - 1) :
              s[n] \in {"reasoning", "message", "misfit"} /\ ~Before(s, n, Texts)
    BY <1>2, <1>3, <1>4, <1>5 DEF Item, Ends
  <2>2. PICK m \in 1..Len(s) : s[m] = "message" BY <1>4, <1>5
  <2>3. m \in 3..(Len(s) - 1) BY <2>1, <2>2
  <2>4. m = Len(s) - 1
    <3>1. SUFFICES ASSUME m + 1 \in 3..(Len(s) - 1) PROVE FALSE BY <2>3
    <3>2. ~Before(s, m + 1, Texts) BY <2>1, <3>1
    <3>3. m \in 1..((m + 1) - 1) /\ s[m] \in Texts BY <2>2, <2>3 DEF Texts
    <3> QED BY <3>2, <3>3 DEF Before
  <2>5. ASSUME NEW i \in 3..(Len(s) - 2) PROVE s[i] = "reasoning"
    <3>1. ~Before(s, m, Texts) /\ i \in 1..(m - 1) BY <2>1, <2>3, <2>4, <2>5
    <3>2. s[i] \notin Texts BY <3>1 DEF Before
    <3> QED BY <3>2, <2>1, <2>5 DEF Texts
  <2> DEFINE n == Len(s) - 4
  <2>6. n \in 0..Len(s) /\ n \in Nat BY <2>1
  <2>7. /\ Len(s) = n + 4 /\ \A i \in 3..(n + 2) : s[i] = "reasoning"
        /\ s[n + 3] = "message" /\ s[n + 4] = "completed"
    <3>1. n + 4 = Len(s) /\ n + 3 = Len(s) - 1 /\ n + 2 = Len(s) - 2 OBVIOUS
    <3> QED BY <3>1, <2>1, <2>2, <2>4, <2>5
  <2> HIDE DEF n
  <2> QED BY <2>1, <2>6, <2>7, CodexShape
<1>6. ASSUME NEW n \in 0..Len(s), s = Shape("codex_cli", n)
      PROVE  Codex(s) = "ok"
  <2>1. /\ Len(s) = n + 4 /\ s[1] = "thread" /\ s[2] = "turn"
        /\ \A i \in 3..(n + 2) : s[i] = "reasoning"
        /\ s[n + 3] = "message" /\ s[n + 4] = "completed"
    BY <1>6, CodexShape
  <2>2. \A i \in 1..Len(s) :
          s[i] \in {"thread", "turn", "reasoning", "message", "completed"}
             /\ (s[i] = "message" => i = n + 3)
    <3>1. \A i \in 1..Len(s) : i \in {1, 2, n + 3, n + 4} \/ i \in 3..(n + 2) BY <2>1
    <3> QED BY <2>1, <3>1
  <2>3. CodexTools(s) = "ok" /\ Lines(s, 4) = "ok" BY <1>1, <1>3, <2>1, <2>2
  <2>4. Item(s, 1) = "thread" /\ Item(s, 2) = "turn" /\ Ends(s) = "completed"
    BY <2>1 DEF Item, Ends
  <2>5. CodexItems(s) = "ok"
    <3>1. ASSUME NEW i \in 3..(Len(s) - 1)
          PROVE  s[i] \in {"reasoning", "message", "misfit"} /\ ~Before(s, i, Texts)
      <4>1. s[i] \in {"reasoning", "message"}
        <5>1. i \in 3..(n + 2) \/ i = n + 3 BY <2>1
        <5> QED BY <5>1, <2>1
      <4>2. \A j \in 1..(i - 1) : s[j] \notin Texts
        <5>1. \A j \in 1..(i - 1) : j \in 1..Len(s) /\ j # n + 3 BY <2>1
        <5> QED BY <5>1, <2>2 DEF Texts
      <4> QED BY <4>1, <4>2 DEF Before
    <3> QED BY <1>2, <3>1
  <2>6. \E i \in DOMAIN s : s[i] = "message"
    <3>1. n + 3 \in DOMAIN s BY <2>1
    <3> QED BY <3>1, <2>1
  <2> QED BY <1>4, <2>3, <2>4, <2>5, <2>6
<1> QED BY <1>5, <1>6

\* The sound answer of the Antigravity command line, item by item.
LEMMA AntigravityShape ==
  ASSUME NEW X, NEW s \in Seq(X), NEW n \in Nat
  PROVE  s = Shape("antigravity_cli", n)
           <=> /\ Len(s) = n + 2 /\ s[1] = "init"
               /\ \A i \in 2..(n + 1) : s[i] = "step"
               /\ s[n + 2] = "result"
<1> DEFINE a == <<"init">>
           b == <<"result">>
           Y == {"init", "step", "result"}
<1>0. 1..1 = {1} /\ 1..1 = {1} OBVIOUS
<1>1. /\ a \in Seq(Y) /\ Len(a) = 1 /\ a[1] = "init"
      /\ b \in Seq(Y) /\ Len(b) = 1 /\ b[1] = "result"
  OBVIOUS
<1>2. Shape("antigravity_cli", n) = a \o Repeat("step", n) \o b BY DEF Shape
<1> HIDE DEF a, b
<1>3. s = Shape("antigravity_cli", n) <=> Framing(s, a, "step", n, b)
  <2>1. "step" \in Y OBVIOUS
  <2>2. a \in Seq(Y) /\ b \in Seq(Y) BY <1>1
  <2> HIDE DEF Y
  <2>3. ASSUME NEW k \in Y
        PROVE  s = a \o Repeat(k, n) \o b <=> Framing(s, a, k, n, b)
    BY <2>2, Framed
  <2>4. s = a \o Repeat("step", n) \o b <=> Framing(s, a, "step", n, b)
    BY <2>1, <2>3
  <2> QED BY <1>2, <2>4
<1>4. (\A i \in 1..n : s[1 + i] = "step") <=> (\A i \in 2..(n + 1) : s[i] = "step")
  <2>1. \A i \in 2..(n + 1) : i - 1 \in 1..n /\ 1 + (i - 1) = i OBVIOUS
  <2>2. \A i \in 1..n : 1 + i \in 2..(n + 1) OBVIOUS
  <2> QED BY <2>1, <2>2
<1>5. (\A i \in 1..1 : s[i] = a[i]) <=> s[1] = "init" BY <1>0, <1>1
<1>6. (\A i \in 1..1 : s[1 + n + i] = b[i]) <=> s[n + 2] = "result"
  <2>1. 1 + n + 1 = n + 2 OBVIOUS
  <2> QED BY <1>0, <1>1, <2>1
<1>7. 1 + n + 1 = n + 2 OBVIOUS
<1> QED BY <1>1, <1>3, <1>4, <1>5, <1>6, <1>7 DEF Framing

\* The checks of parseAntigravityStream (antigravityCliProtocol.ts).
LEMMA AntigravitySound ==
  ASSUME NEW X, NEW s \in Seq(X)
  PROVE  Antigravity(s) = "ok" <=> \E n \in 0..Len(s) : s = Shape("antigravity_cli", n)
<1> DEFINE loop == [n \in 2..(Len(s) - 1) |->
                      CASE s[n] = "step" -> "ok"
                        [] s[n] = "unknown" -> "TOOL_ACTIVITY"
                        [] OTHER -> "OUTPUT_INVALID"]
<1>1. AntigravitySteps(s) = "ok" <=> \A n \in 2..(Len(s) - 1) : s[n] = "step"
  <2>1. DOMAIN loop = 2..(Len(s) - 1) /\ 2..(Len(s) - 1) \subseteq Nat OBVIOUS
  <2>2. \A n \in 2..(Len(s) - 1) : loop[n] = "ok" <=> s[n] = "step" OBVIOUS
  <2>3. AntigravitySteps(s) = Stop(loop) BY DEF AntigravitySteps
  <2> HIDE DEF loop
  <2>4. Stop(loop) = "ok" <=> \A n \in 2..(Len(s) - 1) : loop[n] = "ok" BY <2>1, StopOk
  <2> QED BY <2>2, <2>3, <2>4
<1>2. AntigravityInit(s) = "ok" <=> Item(s, 1) = "init"
  BY Stop2 DEF AntigravityInit, Must
<1>3. Antigravity(s) = "ok"
        <=> /\ Len(s) >= 2 /\ \A n \in 1..Len(s) : s[n] # "broken" /\ s[n] # "tool"
            /\ Item(s, 1) = "init" /\ \A n \in 2..(Len(s) - 1) : s[n] = "step"
            /\ Ends(s) = "result"
  <2>1. Antigravity(s) = "ok"
          <=> /\ Lines(s, 2) = "ok" /\ AntigravityTools(s) = "ok" /\ AntigravityInit(s) = "ok"
              /\ AntigravitySteps(s) = "ok" /\ Ends(s) = "result"
    BY Stop5 DEF Antigravity, Must
  <2>2. DOMAIN s = 1..Len(s) OBVIOUS
  <2>3. /\ Lines(s, 2) = "ok" <=> Len(s) >= 2 /\ \A n \in 1..Len(s) : s[n] # "broken"
        /\ AntigravityTools(s) = "ok" <=> \A n \in 1..Len(s) : s[n] # "tool"
    BY <2>2 DEF Lines, AntigravityTools, Must
  <2> QED BY <1>1, <1>2, <2>1, <2>3
<1>4. ASSUME Antigravity(s) = "ok"
      PROVE  \E n \in 0..Len(s) : s = Shape("antigravity_cli", n)
  <2>1. /\ Len(s) >= 2 /\ s[1] = "init" /\ s[Len(s)] = "result"
        /\ \A n \in 2..(Len(s) - 1) : s[n] = "step"
    BY <1>3, <1>4 DEF Item, Ends
  <2> DEFINE n == Len(s) - 2
  <2>2. n \in 0..Len(s) /\ n \in Nat /\ Len(s) = n + 2 /\ n + 1 = Len(s) - 1 BY <2>1
  <2> HIDE DEF n
  <2>3. s[n + 2] = "result" /\ \A i \in 2..(n + 1) : s[i] = "step" BY <2>1, <2>2
  <2>4. s = Shape("antigravity_cli", n) BY <2>1, <2>2, <2>3, AntigravityShape
  <2> QED BY <2>2, <2>4
<1>5. ASSUME NEW n \in 0..Len(s), s = Shape("antigravity_cli", n)
      PROVE  Antigravity(s) = "ok"
  <2>1. /\ Len(s) = n + 2 /\ s[1] = "init" /\ \A i \in 2..(n + 1) : s[i] = "step"
        /\ s[n + 2] = "result"
    BY <1>5, AntigravityShape
  <2>2. \A i \in 1..Len(s) : i \in {1, n + 2} \/ i \in 2..(n + 1) BY <2>1
  <2>3. \A i \in 1..Len(s) : s[i] \in {"init", "step", "result"} BY <2>1, <2>2
  <2> QED BY <1>3, <2>1, <2>3 DEF Item, Ends
<1> QED BY <1>4, <1>5

\* The sound answer of the Gemini command line, item by item.
LEMMA GeminiShape ==
  ASSUME NEW X, NEW s \in Seq(X), NEW n \in Nat
  PROVE  s = Shape("gemini_cli", n)
           <=> /\ Len(s) = n + 4 /\ s[1] = "init" /\ s[2] = "echo" /\ s[3] = "delta"
               /\ \A i \in 4..(n + 3) : s[i] = "delta"
               /\ s[n + 4] = "result"
<1> DEFINE a == <<"init", "echo", "delta">>
           b == <<"result">>
           Y == {"init", "echo", "delta", "result"}
<1>0. 1..3 = {1, 2, 3} /\ 1..1 = {1} OBVIOUS
<1>1. /\ a \in Seq(Y) /\ Len(a) = 3 /\ a[1] = "init" /\ a[2] = "echo" /\ a[3] = "delta"
      /\ b \in Seq(Y) /\ Len(b) = 1 /\ b[1] = "result"
  OBVIOUS
<1>2. Shape("gemini_cli", n) = a \o Repeat("delta", n) \o b BY DEF Shape
<1> HIDE DEF a, b
<1>3. s = Shape("gemini_cli", n) <=> Framing(s, a, "delta", n, b)
  <2>1. "delta" \in Y OBVIOUS
  <2>2. a \in Seq(Y) /\ b \in Seq(Y) BY <1>1
  <2> HIDE DEF Y
  <2>3. ASSUME NEW k \in Y
        PROVE  s = a \o Repeat(k, n) \o b <=> Framing(s, a, k, n, b)
    BY <2>2, Framed
  <2>4. s = a \o Repeat("delta", n) \o b <=> Framing(s, a, "delta", n, b)
    BY <2>1, <2>3
  <2> QED BY <1>2, <2>4
<1>4. (\A i \in 1..n : s[3 + i] = "delta") <=> (\A i \in 4..(n + 3) : s[i] = "delta")
  <2>1. \A i \in 4..(n + 3) : i - 3 \in 1..n /\ 3 + (i - 3) = i OBVIOUS
  <2>2. \A i \in 1..n : 3 + i \in 4..(n + 3) OBVIOUS
  <2> QED BY <2>1, <2>2
<1>5. (\A i \in 1..3 : s[i] = a[i]) <=> s[1] = "init" /\ s[2] = "echo" /\ s[3] = "delta" BY <1>0, <1>1
<1>6. (\A i \in 1..1 : s[3 + n + i] = b[i]) <=> s[n + 4] = "result"
  <2>1. 3 + n + 1 = n + 4 OBVIOUS
  <2> QED BY <1>0, <1>1, <2>1
<1>7. 3 + n + 1 = n + 4 OBVIOUS
<1> QED BY <1>1, <1>3, <1>4, <1>5, <1>6, <1>7 DEF Framing

\* The checks of parseGeminiStream (geminiCliProtocol.ts).
LEMMA GeminiSound ==
  ASSUME NEW X, NEW s \in Seq(X)
  PROVE  Gemini(s) = "ok" <=> \E n \in 0..Len(s) : s = Shape("gemini_cli", n)
<1> DEFINE tools == [n \in DOMAIN s |->
                       CASE s[n] = "tool" -> "TOOL_ACTIVITY"
                         [] s[n] = "untimed" -> "OUTPUT_INVALID"
                         [] OTHER -> "ok"]
<1>0. DOMAIN s = 1..Len(s) OBVIOUS
<1>1. GeminiTools(s) = "ok" <=> \A n \in 1..Len(s) : s[n] # "tool" /\ s[n] # "untimed"
  <2>1. DOMAIN tools = 1..Len(s) /\ 1..Len(s) \subseteq Nat OBVIOUS
  <2>2. \A n \in 1..Len(s) : tools[n] = "ok" <=> s[n] # "tool" /\ s[n] # "untimed" OBVIOUS
  <2>3. GeminiTools(s) = Stop(tools) BY DEF GeminiTools
  <2> HIDE DEF tools
  <2> QED BY <2>1, <2>2, <2>3, StopOk
<1>2. GeminiInit(s) = "ok" <=> Item(s, 1) = "init" /\ Item(s, 2) = "echo"
  BY Stop3 DEF GeminiInit, Must
<1>3. GeminiStats(s) = "ok" <=> Ends(s) = "result" BY DEF GeminiStats
<1>4. GeminiDeltas(s) = "ok" <=> \A n \in 3..(Len(s) - 1) : s[n] \in {"delta", "misfit"}
  BY DEF GeminiDeltas, Must
<1>5. Gemini(s) = "ok"
        <=> /\ Lines(s, 2) = "ok" /\ GeminiTools(s) = "ok" /\ Len(s) >= 4
            /\ GeminiInit(s) = "ok" /\ GeminiDeltas(s) = "ok" /\ GeminiStats(s) = "ok"
            /\ \A n \in 1..Len(s) : s[n] # "misfit"
  BY <1>0, Stop7 DEF Gemini, Must
<1>6. Lines(s, 2) = "ok" <=> Len(s) >= 2 /\ \A n \in 1..Len(s) : s[n] # "broken"
  BY <1>0 DEF Lines, Must
<1>7. ASSUME Gemini(s) = "ok"
      PROVE  \E n \in 0..Len(s) : s = Shape("gemini_cli", n)
  <2>1. /\ Len(s) >= 4 /\ s[1] = "init" /\ s[2] = "echo" /\ s[Len(s)] = "result"
        /\ \A n \in 3..(Len(s) - 1) : s[n] \in {"delta", "misfit"}
        /\ \A n \in 1..Len(s) : s[n] # "misfit"
    BY <1>2, <1>3, <1>4, <1>5, <1>7 DEF Item, Ends
  <2>2. \A n \in 3..(Len(s) - 1) : s[n] = "delta"
    <3>1. \A n \in 3..(Len(s) - 1) : n \in 1..Len(s) OBVIOUS
    <3> QED BY <2>1, <3>1
  <2> DEFINE n == Len(s) - 4
  <2>3. n \in 0..Len(s) /\ n \in Nat /\ Len(s) = n + 4 /\ n + 3 = Len(s) - 1 BY <2>1
  <2> HIDE DEF n
  <2>4. s[3] = "delta" /\ \A i \in 4..(n + 3) : s[i] = "delta"
    <3>1. 3 \in 3..(Len(s) - 1) /\ \A i \in 4..(n + 3) : i \in 3..(Len(s) - 1) BY <2>3
    <3> QED BY <2>2, <3>1
  <2>5. s[n + 4] = "result" BY <2>1, <2>3
  <2>6. s = Shape("gemini_cli", n) BY <2>1, <2>3, <2>4, <2>5, GeminiShape
  <2> QED BY <2>3, <2>6
<1>8. ASSUME NEW n \in 0..Len(s), s = Shape("gemini_cli", n)
      PROVE  Gemini(s) = "ok"
  <2>1. /\ Len(s) = n + 4 /\ s[1] = "init" /\ s[2] = "echo" /\ s[3] = "delta"
        /\ \A i \in 4..(n + 3) : s[i] = "delta"
        /\ s[n + 4] = "result"
    BY <1>8, GeminiShape
  <2>2. \A i \in 1..Len(s) : i \in {1, 2, 3, n + 4} \/ i \in 4..(n + 3) BY <2>1
  <2>3. \A i \in 1..Len(s) : s[i] \in {"init", "echo", "delta", "result"} BY <2>1, <2>2
  <2>4. \A i \in 3..(Len(s) - 1) : i = 3 \/ i \in 4..(n + 3) BY <2>1
  <2>5. \A i \in 3..(Len(s) - 1) : s[i] = "delta" BY <2>1, <2>4
  <2>6. Len(s) >= 4 /\ Len(s) >= 2 /\ Item(s, 1) = "init" /\ Item(s, 2) = "echo" /\ Ends(s) = "result"
    BY <2>1 DEF Item, Ends
  <2> QED BY <1>1, <1>2, <1>3, <1>4, <1>5, <1>6, <2>3, <2>5, <2>6
<1> QED BY <1>7, <1>8

\* The sound answer of the interfaces of OpenAI and Anthropic, item by item.
LEMMA OutputShape ==
  ASSUME NEW X, NEW s \in Seq(X), NEW n \in Nat, NEW p \in {"openai_api", "claude_api"}
  PROVE  s = Shape(p, n)
           <=> /\ Len(s) = n + 1 /\ \A i \in 1..n : s[i] = "reasoning"
               /\ s[n + 1] = "message"
<1> DEFINE a == << >>
           b == <<"message">>
           Y == {"reasoning", "message"}
<1>1. a \in Seq(Y) /\ Len(a) = 0 /\ b \in Seq(Y) /\ Len(b) = 1 /\ b[1] = "message" OBVIOUS
<1>2. Shape(p, n) = Repeat("reasoning", n) \o b BY DEF Shape
<1>3. a \o Repeat("reasoning", n) = Repeat("reasoning", n)
  <2>1. "reasoning" \in Y OBVIOUS
  <2> HIDE DEF Y
  <2>2. Repeat("reasoning", n) \in Seq(Y) BY <2>1, RepeatIs
  <2> QED BY <2>2, ConcatEmptySeq
<1> HIDE DEF a, b
<1>4. s = Shape(p, n) <=> Framing(s, a, "reasoning", n, b)
  <2>1. "reasoning" \in Y OBVIOUS
  <2>2. a \in Seq(Y) /\ b \in Seq(Y) BY <1>1
  <2> HIDE DEF Y
  <2>3. ASSUME NEW k \in Y
        PROVE  s = a \o Repeat(k, n) \o b <=> Framing(s, a, k, n, b)
    BY <2>2, Framed
  <2>4. s = a \o Repeat("reasoning", n) \o b <=> Framing(s, a, "reasoning", n, b)
    BY <2>1, <2>3
  <2> QED BY <1>2, <1>3, <2>4
<1>5. 1..0 = {} /\ 1..1 = {1} /\ 0 + n + 1 = n + 1 /\ \A i \in 1..n : 0 + i = i OBVIOUS
<1> QED BY <1>1, <1>4, <1>5 DEF Framing

\* What the loops over an output and over a content have in common: thoughts, and
\* one text at the end.
LEMMA ThoughtsThenText ==
  ASSUME NEW X, NEW s \in Seq(X),
         \A n \in 1..Len(s) :
           s[n] \in {"reasoning", "message", "misfit"} /\ ~Before(s, n, Texts),
         \E n \in DOMAIN s : s[n] = "message",
         NEW p \in {"openai_api", "claude_api"}
  PROVE  \E n \in 0..Len(s) : s = Shape(p, n)
<1>1. PICK m \in 1..Len(s) : s[m] = "message" OBVIOUS
<1>2. m = Len(s)
  <2>1. SUFFICES ASSUME m + 1 \in 1..Len(s) PROVE FALSE BY <1>1
  <2>2. ~Before(s, m + 1, Texts) BY <2>1
  <2>3. m \in 1..((m + 1) - 1) /\ s[m] \in Texts BY <1>1 DEF Texts
  <2> QED BY <2>2, <2>3 DEF Before
<1>3. ASSUME NEW i \in 1..(Len(s) - 1) PROVE s[i] = "reasoning"
  <2>1. ~Before(s, m, Texts) /\ i \in 1..(m - 1) /\ i \in 1..Len(s) BY <1>2, <1>3
  <2>2. s[i] \notin Texts BY <2>1 DEF Before
  <2> QED BY <2>1, <2>2 DEF Texts
<1> DEFINE n == Len(s) - 1
<1>4. n \in 0..Len(s) /\ n \in Nat /\ Len(s) = n + 1 BY <1>1
<1> HIDE DEF n
<1>5. s[n + 1] = "message" /\ \A i \in 1..n : s[i] = "reasoning"
  BY <1>1, <1>2, <1>3, <1>4 DEF n
<1>6. s = Shape(p, n) BY <1>4, <1>5, OutputShape
<1> QED BY <1>4, <1>6

\* The other way round: the sound answer has thoughts, and one text at the end.
LEMMA ShapeHasThoughts ==
  ASSUME NEW X, NEW s \in Seq(X), NEW p \in {"openai_api", "claude_api"},
         NEW n \in 0..Len(s), s = Shape(p, n)
  PROVE  /\ \A i \in 1..Len(s) : s[i] \in {"reasoning", "message"} /\ ~Before(s, i, Texts)
         /\ \E i \in DOMAIN s : s[i] = "message"
<1>1. Len(s) = n + 1 /\ (\A i \in 1..n : s[i] = "reasoning") /\ s[n + 1] = "message"
  BY OutputShape
<1>2. \A i \in 1..Len(s) : i \in 1..n \/ i = n + 1 BY <1>1
<1>3. \A i \in 1..Len(s) : s[i] \in {"reasoning", "message"} BY <1>1, <1>2
<1>4. ASSUME NEW i \in 1..Len(s), NEW j \in 1..(i - 1) PROVE s[j] \notin Texts
  <2>1. j \in 1..n BY <1>1
  <2> QED BY <1>1, <2>1 DEF Texts
<1>5. n + 1 \in DOMAIN s BY <1>1
<1> QED BY <1>1, <1>3, <1>4, <1>5 DEF Before

\* The checks of openAiApiProtocol.ts.
LEMMA OpenAiSound ==
  ASSUME NEW s \in Seq(Kinds["openai_api"]), NEW e \in Endings("openai_api")
  PROVE  OpenAi(s, e) = "ok" <=> SoundAnswer("openai_api", s, e)
<1> DEFINE loop == [n \in DOMAIN s |-> OutputItem(s, n)]
<1>0. /\ DOMAIN s = 1..Len(s)
      /\ \A n \in 1..Len(s) : s[n] \in {"reasoning", "message", "misfit", "refusal", "tool", "odd"}
      /\ e \in {"clean", "partial", "spent"}
  BY DEF Kinds, Endings, CommandLines
<1>1. Output(s) = "ok"
        <=> \A n \in 1..Len(s) :
              s[n] \in {"reasoning", "message", "misfit"} /\ ~Before(s, n, Texts)
  <2>1. DOMAIN loop = 1..Len(s) /\ 1..Len(s) \subseteq Nat BY <1>0
  <2>2. \A n \in 1..Len(s) :
          loop[n] = "ok" <=> s[n] \in {"reasoning", "message", "misfit"} /\ ~Before(s, n, Texts)
    BY <1>0 DEF OutputItem
  <2>3. Output(s) = Stop(loop) BY DEF Output
  <2> HIDE DEF loop
  <2>4. Stop(loop) = "ok" <=> \A n \in 1..Len(s) : loop[n] = "ok" BY <2>1, StopOk
  <2> QED BY <2>2, <2>3, <2>4
<1>2. OpenAi(s, e) = "ok"
        <=> /\ e # "partial" /\ Output(s) = "ok" /\ \E n \in DOMAIN s : s[n] = "message"
            /\ e # "spent"
  BY Stop4 DEF OpenAi, OpenAiRoot, OpenAiUsage, Generated, Must
<1>3. OpenAi(s, e) = "ok" => SoundAnswer("openai_api", s, e)
  BY <1>0, <1>1, <1>2, ThoughtsThenText DEF SoundAnswer
<1>4. SoundAnswer("openai_api", s, e) => OpenAi(s, e) = "ok"
  BY <1>1, <1>2, ShapeHasThoughts DEF SoundAnswer
<1> QED BY <1>3, <1>4

\* The checks of anthropicApiProtocol.ts.
LEMMA AnthropicSound ==
  ASSUME NEW s \in Seq(Kinds["claude_api"]), NEW e \in Endings("claude_api")
  PROVE  Anthropic(s, e) = "ok" <=> SoundAnswer("claude_api", s, e)
<1> DEFINE loop == [n \in DOMAIN s |-> ContentBlock(s, n)]
<1>0. /\ DOMAIN s = 1..Len(s)
      /\ \A n \in 1..Len(s) : s[n] \in {"reasoning", "message", "misfit", "tool", "odd"}
      /\ e \in {"clean", "partial", "spent", "refusal", "tool_use", "served"}
  BY DEF Kinds, Endings, CommandLines
<1>1. Content(s) = "ok"
        <=> \A n \in 1..Len(s) :
              s[n] \in {"reasoning", "message", "misfit"} /\ ~Before(s, n, Texts)
  <2>1. DOMAIN loop = 1..Len(s) /\ 1..Len(s) \subseteq Nat BY <1>0
  <2>2. \A n \in 1..Len(s) :
          loop[n] = "ok" <=> s[n] \in {"reasoning", "message", "misfit"} /\ ~Before(s, n, Texts)
    BY <1>0 DEF ContentBlock
  <2>3. Content(s) = Stop(loop) BY DEF Content
  <2> HIDE DEF loop
  <2>4. Stop(loop) = "ok" <=> \A n \in 1..Len(s) : loop[n] = "ok" BY <2>1, StopOk
  <2> QED BY <2>2, <2>3, <2>4
<1>2. Anthropic(s, e) = "ok"
        <=> e = "clean" /\ Content(s) = "ok" /\ \E n \in DOMAIN s : s[n] = "message"
  BY <1>0, Stop4 DEF Anthropic, AnthropicReason, AnthropicUsage, Generated, Must
<1>3. Anthropic(s, e) = "ok" => SoundAnswer("claude_api", s, e)
  BY <1>1, <1>2, ThoughtsThenText DEF SoundAnswer
<1>4. SoundAnswer("claude_api", s, e) => Anthropic(s, e) = "ok"
  BY <1>1, <1>2, ShapeHasThoughts DEF SoundAnswer
<1> QED BY <1>3, <1>4

\* The check of geminiApiProtocol.ts, which asks for one shape at once.
LEMMA InteractionSound ==
  ASSUME NEW X, NEW s \in Seq(X), NEW e
  PROVE  Interaction(s, e) = "ok" <=> SoundAnswer("gemini_api", s, e)
<1>1. \A n : Shape("gemini_api", n) = <<"message">> BY DEF Shape
<1>2. 0 \in 0..Len(s) OBVIOUS
<1> QED BY <1>1, <1>2 DEF Interaction, SoundAnswer, Must

\* A process has succeeded when it ended with zero and wrote nothing on its error output.
LEMMA SuccessClean ==
  ASSUME NEW p \in CommandLines, NEW e \in Endings(p)
  PROVE  Success(p, e) = "ok" <=> e = "clean"
<1>1. e \in {"clean", "noisy", "exit"} \cup Tokens[p] BY DEF Endings, CommandLines
<1>2. "ok" \notin Tokens[p] /\ "clean" \notin Tokens[p] BY DEF Tokens, CommandLines
<1>3. ExitCode(p, e) = "ok" <=> e \in {"clean", "noisy"} \ Tokens[p]
  BY <1>1, <1>2 DEF ExitCode
<1>4. Success(p, e) = "ok" <=> ExitCode(p, e) = "ok" /\ e # "noisy"
  BY Stop2 DEF Success, Must
<1> QED BY <1>1, <1>2, <1>3, <1>4

\* Of an answer of any length, the parser of each provider lets through exactly the
\* sound one (codexCliProtocol.ts, antigravityCliProtocol.ts, geminiCliProtocol.ts,
\* openAiApiProtocol.ts, anthropicApiProtocol.ts, geminiApiProtocol.ts).
THEOREM ParsersAgree ==
  ASSUME NEW p \in AllProviders, NEW s \in Seq(Kinds[p]), NEW e \in Endings(p)
  PROVE  Judged(p, s, e) = "ok" <=> SoundAnswer(p, s, e)
<1>1. CASE p = "codex_cli"
  <2>1. Judged(p, s, e) = "ok" <=> e = "clean" /\ Codex(s) = "ok"
    BY <1>1, Stop2, SuccessClean DEF Judged, CommandLines
  <2> QED BY <1>1, <2>1, CodexSound DEF SoundAnswer
<1>2. CASE p = "antigravity_cli"
  <2>1. Judged(p, s, e) = "ok" <=> e = "clean" /\ Antigravity(s) = "ok"
    BY <1>2, Stop2, SuccessClean DEF Judged, CommandLines
  <2> QED BY <1>2, <2>1, AntigravitySound DEF SoundAnswer
<1>3. CASE p = "gemini_cli"
  <2>1. Judged(p, s, e) = "ok" <=> e = "clean" /\ Gemini(s) = "ok"
    BY <1>3, Stop2, SuccessClean DEF Judged, CommandLines
  <2> QED BY <1>3, <2>1, GeminiSound DEF SoundAnswer
<1>4. CASE p = "openai_api" BY <1>4, OpenAiSound DEF Judged
<1>5. CASE p = "claude_api" BY <1>5, AnthropicSound DEF Judged
<1>6. CASE p = "gemini_api" BY <1>6, InteractionSound DEF Judged
<1> QED BY <1>1, <1>2, <1>3, <1>4, <1>5, <1>6 DEF AllProviders, CommandLines, Interfaces

\* A sequence takes as many values as it has places exactly when it takes none twice.
LEMMA NoneTwice ==
  ASSUME NEW X, NEW s \in Seq(X), NEW from \in 1..(Len(s) + 1)
  PROVE  Cardinality({s[n] : n \in from..Len(s)}) = Len(s) - from + 1
           <=> \A n \in from..Len(s) : \A m \in from..(n - 1) : s[m] # s[n]
<1> DEFINE D == from..Len(s)
           T == {s[n] : n \in D}
           f == [n \in D |-> s[n]]
<1>1. IsFiniteSet(D) /\ Cardinality(D) = Len(s) - from + 1
  <2>1. from \in Int /\ Len(s) \in Int OBVIOUS
  <2>2. (IF from > Len(s) THEN 0 ELSE Len(s) - from + 1) = Len(s) - from + 1 OBVIOUS
  <2> QED BY <2>1, <2>2, FS_Interval
<1>2. f \in Surjection(D, T) BY DEF Surjection
<1>3. Cardinality(T) = Cardinality(D) <=> f \in Injection(D, T)
  <2> HIDE DEF D, T, f
  <2> QED BY <1>1, <1>2, FS_Surjection
<1>4. f \in Injection(D, T) <=> \A n, m \in D : s[n] = s[m] => n = m
  BY DEF Injection, IsInjective
<1>5. (\A n, m \in D : s[n] = s[m] => n = m)
        <=> \A n \in from..Len(s) : \A m \in from..(n - 1) : s[m] # s[n]
  OBVIOUS
<1> QED BY <1>1, <1>3, <1>4, <1>5

\* The loop over a list: each model is sound and not one of those before.
LEMMA FreshIs ==
  ASSUME NEW X, NEW s \in Seq(X), NEW from \in {1, 2}
  PROVE  Fresh(s, from) = "ok"
           <=> /\ \A n \in from..Len(s) : s[n] \in Models
               /\ \A n \in from..Len(s) : \A m \in from..(n - 1) : s[m] # s[n]
<1> DEFINE loop == [n \in from..Len(s) |->
                      Must(s[n] \in Models /\ \A m \in from..(n - 1) : s[m] # s[n], "OUTPUT_INVALID")]
<1>1. DOMAIN loop = from..Len(s) /\ from..Len(s) \subseteq Nat OBVIOUS
<1>2. \A n \in from..Len(s) :
        loop[n] = "ok" <=> s[n] \in Models /\ \A m \in from..(n - 1) : s[m] # s[n]
  BY DEF Must
<1>3. Fresh(s, from) = Stop(loop) BY DEF Fresh
<1> HIDE DEF loop
<1>4. Stop(loop) = "ok" <=> \A n \in from..Len(s) : loop[n] = "ok" BY <1>1, StopOk
<1> QED BY <1>2, <1>3, <1>4

\* Of a list of any length, the parser of each provider lets through exactly the one
\* whose models are sound and all different.
THEOREM ListsAgree ==
  ASSUME NEW p \in {"antigravity_cli", "openai_api", "claude_api", "gemini_api"},
         NEW s \in Seq(ListKinds(p)), NEW e \in ListEndings(p)
  PROVE  Listed(p, s, e) = "ok" <=> SoundList(p, s, e)
<1>1. CASE p = "antigravity_cli"
  <2>1. Listed(p, s, e) = "ok"
          <=> /\ Success("antigravity_cli", e) = "ok" /\ Len(s) >= 2 /\ Item(s, 1) = "header"
              /\ Fresh(s, 2) = "ok"
    BY <1>1, Stop3 DEF Listed, AntigravityList, Must
  <2>2. Success("antigravity_cli", e) = "ok" <=> e = "clean"
    BY <1>1, SuccessClean DEF ListEndings, CommandLines
  <2>3. CASE Len(s) >= 2
    <3>1. Item(s, 1) = s[1] BY <2>3 DEF Item
    <3>2. 2 \in 1..(Len(s) + 1) BY <2>3
    <3>3. Cardinality({s[n] : n \in 2..Len(s)}) = Len(s) - 2 + 1
            <=> \A n \in 2..Len(s) : \A m \in 2..(n - 1) : s[m] # s[n]
      BY <3>2, NoneTwice
    <3>4. SoundList(p, s, e)
            <=> /\ e = "clean" /\ s[1] = "header" /\ \A n \in 2..Len(s) : s[n] \in Models
                /\ Cardinality({s[n] : n \in 2..Len(s)}) = Len(s) - 2 + 1
      BY <1>1, <2>3 DEF SoundList
    <3> QED BY <2>1, <2>2, <2>3, <3>1, <3>3, <3>4, FreshIs
  <2>4. CASE ~(Len(s) >= 2) BY <1>1, <2>1, <2>4 DEF SoundList
  <2> QED BY <2>3, <2>4
<1>2. CASE p # "antigravity_cli"
  <2>1. Listed(p, s, e) = "ok" <=> e = "clean" /\ Fresh(s, 1) = "ok"
    BY <1>2, Stop2 DEF Listed, OpenAiList, AnthropicList, GeminiList, Must
  <2>2. 1 \in 1..(Len(s) + 1) OBVIOUS
  <2>3. Cardinality({s[n] : n \in 1..Len(s)}) = Len(s) - 1 + 1
          <=> \A n \in 1..Len(s) : \A m \in 1..(n - 1) : s[m] # s[n]
    BY <2>2, NoneTwice
  <2>4. SoundList(p, s, e)
          <=> /\ e = "clean" /\ \A n \in 1..Len(s) : s[n] \in Models
              /\ Cardinality({s[n] : n \in 1..Len(s)}) = Len(s) - 1 + 1
    BY <1>2 DEF SoundList
  <2> QED BY <2>1, <2>3, <2>4, FreshIs
<1> QED BY <1>1, <1>2

-----------------------------------------------------------------------------
(* The calls.                                                              *)

\* Where a call still holds what it has made, and will give it back.
WithDirs == {"start", "running", "clean"}
WithLease == {"verify", "open", "prepare", "start", "running", "clean", "close", "judge",
              "credential", "rebind", "final", "release"}
\* Where a call goes when it can no longer clean up.
Ending == {"clean", "close", "final", "release", "leave", "over"}

\* Another provider's call is only its answer.
PlainCall ==
  ~Bracketed => /\ at \in {"running", "over"} /\ ~aborted
                /\ ~dirs /\ lease = "none" /\ process = "none"

\* What is left has a place at which it is dealt with, or is what the call will tell.
Accounted ==
  /\ process \in {"none", "running", "stray"}
  /\ process = "running" => at = "running"
  /\ at \in {"idle", "bind", "acquire"} => lease = "none"
  /\ ~aborted =>
       /\ process = "stray" => fail = "RESIDUAL_DATA" /\ at \in Ending
       /\ dirs => at \in WithDirs \/ (fail = "RESIDUAL_DATA" /\ at \in Ending)
       /\ lease # "none" => at \in WithLease \/ (fail = "RESIDUAL_DATA" /\ at \in Ending)

Dropped ==
  /\ aborted /\ at = "over" /\ op = "execute" => fail # "ok"
  /\ aborted /\ attached => told

CallInv == PlainCall /\ Accounted /\ Dropped

LEMMA CallInvInit == Init => CallInv
BY DEF Init, CallInv, PlainCall, Accounted, Dropped, Bracketed, WithDirs, WithLease, Ending

\* The steps before a process runs.
LEMMA CallInvBefore ==
  ASSUME CallInv,
         Begin \/ BeginRefused \/ Bind \/ BindFails \/ Acquire \/ AcquireFails
           \/ VerifyLease \/ VerifyFails \/ OpenProfile \/ OpenFails
           \/ Prepare \/ PrepareFails \/ PrepareLeft \/ Start \/ StartFails
  PROVE  CallInv'
<1> USE DEF CallInv, PlainCall, Accounted, Dropped, Bracketed, WithDirs, WithLease, Ending, At,
            answer, registry, machine, Goes, Stops, Active
<1>1. CASE Begin BY <1>1 DEF Begin
<1>2. CASE BeginRefused BY <1>2 DEF BeginRefused, Refusals
<1>3. CASE Bind BY <1>3 DEF Bind
<1>4. CASE BindFails BY <1>4 DEF BindFails, BindingFails
<1>5. CASE Acquire BY <1>5 DEF Acquire
<1>6. CASE AcquireFails BY <1>6 DEF AcquireFails
<1>7. CASE VerifyLease BY <1>7 DEF VerifyLease
<1>8. CASE VerifyFails BY <1>8 DEF VerifyFails
<1>9. CASE OpenProfile BY <1>9 DEF OpenProfile
<1>10. CASE OpenFails BY <1>10 DEF OpenFails, FileFails
<1>11. CASE Prepare BY <1>11 DEF Prepare
<1>12. CASE PrepareFails BY <1>12 DEF PrepareFails, FileFails
<1>13. CASE PrepareLeft BY <1>13 DEF PrepareLeft
<1>14. CASE Start BY <1>14 DEF Start
<1>15. CASE StartFails BY <1>15 DEF StartFails, FileFails
<1> QED BY <1>1, <1>2, <1>3, <1>4, <1>5, <1>6, <1>7, <1>8, <1>9, <1>10, <1>11, <1>12, <1>13,
           <1>14, <1>15

\* The process, its answer, and what is behind it.
LEMMA CallInvBehind ==
  ASSUME CallInv,
         \/ \E k \in Answers : Receive(k)
         \/ \E e \in Ended : Finish(e) \/ Respond(e)
         \/ RunFails \/ Clean \/ CleanStops \/ CloseProfile \/ CloseFails \/ Judge
         \/ Credential \/ CredentialFails \/ Rebind \/ RebindFails
         \/ FinalCheck \/ FinalFails \/ Release \/ ReleaseFails \/ Leave
         \/ Cancel \/ Tamper
  PROVE  CallInv'
<1> USE DEF CallInv, PlainCall, Accounted, Dropped, Bracketed, WithDirs, WithLease, Ending, At,
            answer, adapter, registry, machine, Active
<1>1. ASSUME NEW k \in Answers, Receive(k) PROVE CallInv' BY <1>1 DEF Receive
<1>2. ASSUME NEW e \in Ended, Finish(e) PROVE CallInv' BY <1>2 DEF Finish
<1>3. ASSUME NEW e \in Ended, Respond(e) PROVE CallInv' BY <1>3 DEF Respond
<1>4. CASE RunFails BY <1>4 DEF RunFails
<1>5. CASE Clean
  <2>1. CASE part = "model" BY <1>5, <2>1 DEF Clean
  <2>2. CASE part # "model"
    <3>1. at' \in {"prepare", "close"} /\ (fail' # "ok" => at' = "close")
      BY <1>5, <2>2 DEF Clean, Next4
    <3> QED BY <1>5, <2>2, <3>1 DEF Clean
  <2> QED BY <2>1, <2>2
<1>6. CASE CleanStops BY <1>6 DEF CleanStops
<1>7. CASE CloseProfile BY <1>7 DEF CloseProfile
<1>8. CASE CloseFails BY <1>8 DEF CloseFails
<1>9. CASE Judge BY <1>9 DEF Judge
<1>10. CASE Credential BY <1>10 DEF Credential
<1>11. CASE CredentialFails BY <1>11 DEF CredentialFails
<1>12. CASE Rebind BY <1>12 DEF Rebind
<1>13. CASE RebindFails BY <1>13 DEF RebindFails
<1>14. CASE FinalCheck BY <1>14 DEF FinalCheck
<1>15. CASE FinalFails BY <1>15 DEF FinalFails, Select
<1>16. CASE Release BY <1>16 DEF Release
<1>17. CASE ReleaseFails BY <1>17 DEF ReleaseFails, Select
<1>18. CASE Leave BY <1>18 DEF Leave
<1>19. CASE Cancel BY <1>19 DEF Cancel
<1>20. CASE Tamper BY <1>20 DEF Tamper
<1> QED BY <1>1, <1>2, <1>3, <1>4, <1>5, <1>6, <1>7, <1>8, <1>9, <1>10, <1>11, <1>12, <1>13,
           <1>14, <1>15, <1>16, <1>17, <1>18, <1>19, <1>20

LEMMA CallInvNext == CallInv /\ [Next]_vars => CallInv'
<1> SUFFICES ASSUME CallInv, [Next]_vars PROVE CallInv' OBVIOUS
<1>1. CASE Next BY <1>1, CallInvBefore, CallInvBehind DEF Next
<1>2. CASE UNCHANGED vars
  BY <1>2 DEF vars, answer, adapter, registry, machine, CallInv, PlainCall, Accounted, Dropped,
              Bracketed
<1> QED BY <1>1, <1>2

\* A call that ends with a directory, a drive letter or a process of its own left
\* says so, unless it has been cancelled (antigravityCliAdapter.ts:600-700).
THEOREM ResidueToldAlways == Spec => []ResidueIsTold
<1>1. CallInv => ResidueIsTold
  BY DEF CallInv, PlainCall, Accounted, ResidueIsTold, WithDirs, WithLease
<1> QED BY CallInvInit, CallInvNext, <1>1, PTL DEF Spec

\* A cancelled request never comes back as done, and a runner that is known to the
\* registry has been told (antigravityOperationRegistry.ts).
THEOREM CancelledDroppedAlways == Spec => []CancelledIsDropped
<1>1. CallInv => CancelledIsDropped BY DEF CallInv, Dropped, CancelledIsDropped
<1> QED BY CallInvInit, CallInvNext, <1>1, PTL DEF Spec

-----------------------------------------------------------------------------
(* The answer.                                                             *)

Parts == {"help", "modelsHelp", "permissions", "config"}
Late == {"credential", "final", "release", "leave", "over"}

\* What an answer is made of and how it ends, when it is the model's.
Asked == IF op = "models" THEN ListKinds(provider) ELSE Kinds[provider]
Complete == IF op = "models" THEN ListEndings(provider) ELSE Endings(provider)
Said == IF op = "models" THEN Listed(provider, items, ending) ELSE Judged(provider, items, ending)

\* A verdict is about a whole answer, and there is one call of the model at most.
AnswerInv ==
  /\ provider \in AllProviders /\ (op = "models" => provider \in WithLists)
  /\ ~Bracketed => part = "model" /\ at \in {"running", "over"}
  /\ part \in {"none", "model"} \cup Parts
  /\ at \in {"idle", "bind", "acquire", "verify"} => part = "none"
  /\ at \in {"open", "prepare", "start", "running", "clean"} => part # "none"
  /\ part # "model" => items = <<>>
  /\ part = "model" => items \in Seq(Asked)
  /\ at \in {"clean", "close"} /\ part = "model" /\ fail = "ok" => ending \in Complete
  /\ at = "judge" => part = "model" /\ ending \in Complete
  /\ verdict # "none" =>
       part = "model" /\ at \in Late /\ ending \in Complete /\ verdict = Said

LEMMA LocalParts == {Local[n] : n \in 1..4} = Parts /\ "model" \notin Parts /\ "none" \notin Parts
<1>1. /\ Local[1] = "help" /\ Local[2] = "modelsHelp" /\ Local[3] = "permissions"
      /\ Local[4] = "config"
  BY DEF Local
<1>2. \A n : n \in 1..4 <=> n \in {1, 2, 3, 4} OBVIOUS
<1> QED BY <1>1, <1>2 DEF Parts

\* The round goes on with one of its own processes.
LEMMA NextPart ==
  ASSUME part \in Parts, NEW code, Next4(code)
  PROVE  part' \in Parts /\ at' \in {"prepare", "close"}
<1> DEFINE n == CHOOSE i \in 1..4 : Local[i] = part
<1>1. \E i \in 1..4 : Local[i] = part BY LocalParts
<1>2. n \in 1..4 BY <1>1
<1> HIDE DEF n
<1>3. n < 4 => n + 1 \in 1..4 BY <1>2
<1>4. n < 4 => Local[n + 1] \in Parts BY <1>3, LocalParts
<1>5. IF code = "ok" /\ n < 4 THEN At("prepare") /\ part' = Local[n + 1]
      ELSE At("close") /\ UNCHANGED part
  BY DEF Next4, n
<1> QED BY <1>4, <1>5 DEF At

LEMMA AnswerInvInit == Init => AnswerInv
<1> SUFFICES ASSUME Init PROVE AnswerInv OBVIOUS
<1>1. PICK w \in Workloads :
        /\ provider = w.provider /\ op = w.op
        /\ at = IF w.provider = "antigravity_cli" THEN "idle" ELSE "running"
        /\ part = IF w.provider = "antigravity_cli" THEN "none" ELSE "model"
  BY DEF Init
<1>2. provider \in AllProviders /\ (op = "models" => provider \in WithLists)
  BY <1>1, AntigravityAssumption
<1>3. <<>> \in Seq(Asked) OBVIOUS
<1> QED BY <1>1, <1>2, <1>3 DEF Init, AnswerInv, Bracketed

\* The steps before a process runs, and the removal of what it left.
LEMMA AnswerInvBefore ==
  ASSUME AnswerInv,
         Begin \/ BeginRefused \/ Bind \/ BindFails \/ Acquire \/ AcquireFails
           \/ VerifyLease \/ VerifyFails \/ OpenProfile \/ OpenFails
           \/ Prepare \/ PrepareFails \/ PrepareLeft \/ Start \/ StartFails
  PROVE  AnswerInv'
<1> USE LocalParts DEF AnswerInv, Bracketed, At, answer, registry, machine, Goes, Stops, Active,
            Late, Asked, Complete, Said
<1>1. CASE Begin BY <1>1 DEF Begin
<1>2. CASE BeginRefused BY <1>2 DEF BeginRefused
<1>3. CASE Bind BY <1>3 DEF Bind
<1>4. CASE BindFails BY <1>4 DEF BindFails
<1>5. CASE Acquire BY <1>5 DEF Acquire
<1>6. CASE AcquireFails BY <1>6 DEF AcquireFails
<1>7. CASE VerifyLease
  <2>1. Local[1] \in Parts BY DEF Local, Parts
  <2> QED BY <1>7, <2>1 DEF VerifyLease
<1>8. CASE VerifyFails BY <1>8 DEF VerifyFails
<1>9. CASE OpenProfile BY <1>9 DEF OpenProfile
<1>10. CASE OpenFails BY <1>10 DEF OpenFails, FileFails
<1>11. CASE Prepare BY <1>11 DEF Prepare
<1>12. CASE PrepareFails BY <1>12 DEF PrepareFails, FileFails
<1>13. CASE PrepareLeft BY <1>13 DEF PrepareLeft
<1>14. CASE Start
  <2>1. items' = <<>> /\ UNCHANGED <<provider, op, verdict, part>> /\ at = "start"
        /\ at' = "running"
    BY <1>14 DEF Start
  <2>2. <<>> \in Seq(Asked') OBVIOUS
  <2> QED BY <2>1, <2>2
<1>15. CASE StartFails BY <1>15 DEF StartFails, FileFails
<1> QED BY <1>1, <1>2, <1>3, <1>4, <1>5, <1>6, <1>7, <1>8, <1>9, <1>10, <1>11, <1>12, <1>13,
           <1>14, <1>15

\* The process, its answer, and what is behind it.
LEMMA AnswerInvBehind ==
  ASSUME AnswerInv,
         \/ \E k \in Answers : Receive(k)
         \/ \E e \in Ended : Finish(e) \/ Respond(e)
         \/ RunFails \/ Clean \/ CleanStops \/ CloseProfile \/ CloseFails \/ Judge
         \/ Credential \/ CredentialFails \/ Rebind \/ RebindFails
         \/ FinalCheck \/ FinalFails \/ Release \/ ReleaseFails \/ Leave
         \/ Cancel \/ Tamper
  PROVE  AnswerInv'
<1> USE LocalParts DEF AnswerInv, Bracketed, At, answer, adapter, registry, machine, Active,
            Late, Asked, Complete, Said
<1>1. ASSUME NEW k \in Answers, Receive(k) PROVE AnswerInv'
  <2>1. k \in Asked BY <1>1 DEF Receive, Answers, Listing
  <2>2. Append(items, k) \in Seq(Asked) BY <1>1, <2>1 DEF Receive
  <2> QED BY <1>1, <2>2 DEF Receive
<1>2. ASSUME NEW e \in Ended, Finish(e) PROVE AnswerInv'
  <2>1. part = "model" => e \in Complete BY DEF Ended, Listing
  <2> QED BY <1>2, <2>1 DEF Finish
<1>3. ASSUME NEW e \in Ended, Respond(e) PROVE AnswerInv'
  <2>1. e \in Complete BY <1>3 DEF Ended, Listing, Respond
  <2> QED BY <1>3, <2>1 DEF Respond, Verdict, Listing
<1>4. CASE RunFails BY <1>4 DEF RunFails
<1>5. CASE Clean
  <2>1. CASE part = "model" BY <1>5, <2>1 DEF Clean
  <2>2. CASE part # "model"
    <3>1. part \in Parts BY <1>5, <2>2 DEF Clean
    <3>2. part' \in Parts /\ at' \in {"prepare", "close"}
      BY <1>5, <2>2, <3>1, NextPart DEF Clean
    <3> QED BY <1>5, <2>2, <3>1, <3>2 DEF Clean
  <2> QED BY <2>1, <2>2
<1>6. CASE CleanStops BY <1>6 DEF CleanStops
<1>7. CASE CloseProfile BY <1>7 DEF CloseProfile
<1>8. CASE CloseFails BY <1>8 DEF CloseFails
<1>9. CASE Judge BY <1>9 DEF Judge, Verdict, Listing
<1>10. CASE Credential BY <1>10 DEF Credential
<1>11. CASE CredentialFails BY <1>11 DEF CredentialFails
<1>12. CASE Rebind
  <2>1. <<>> \in Seq(Asked) OBVIOUS
  <2> QED BY <1>12, <2>1 DEF Rebind
<1>13. CASE RebindFails BY <1>13 DEF RebindFails
<1>14. CASE FinalCheck BY <1>14 DEF FinalCheck
<1>15. CASE FinalFails BY <1>15 DEF FinalFails
<1>16. CASE Release BY <1>16 DEF Release
<1>17. CASE ReleaseFails BY <1>17 DEF ReleaseFails
<1>18. CASE Leave BY <1>18 DEF Leave
<1>19. CASE Cancel BY <1>19 DEF Cancel
<1>20. CASE Tamper BY <1>20 DEF Tamper
<1> QED BY <1>1, <1>2, <1>3, <1>4, <1>5, <1>6, <1>7, <1>8, <1>9, <1>10, <1>11, <1>12, <1>13,
           <1>14, <1>15, <1>16, <1>17, <1>18, <1>19, <1>20

LEMMA AnswerInvNext == AnswerInv /\ [Next]_vars => AnswerInv'
<1> SUFFICES ASSUME AnswerInv, [Next]_vars PROVE AnswerInv' OBVIOUS
<1>1. CASE Next BY <1>1, AnswerInvBefore, AnswerInvBehind DEF Next
<1>2. CASE UNCHANGED vars
  BY <1>2 DEF vars, answer, adapter, registry, machine, AnswerInv, Bracketed, Asked, Complete, Said
<1> QED BY <1>1, <1>2

\* An answer is taken exactly when it is the one agreed on with its provider, of any
\* provider, of any length and whatever happens around the call
\* (antigravityCliAdapter.ts, and the parsers of ParsersAgree and ListsAgree).
THEOREM AnswersSoundAlways == Spec => []AnswersAreSound
<1>1. AnswerInv => AnswersAreSound
  <2> SUFFICES ASSUME AnswerInv, verdict # "none"
      PROVE  (verdict = "ok") = (IF Listing THEN SoundList(provider, items, ending)
                                 ELSE SoundAnswer(provider, items, ending))
    BY DEF AnswersAreSound
  <2>1. /\ part = "model" /\ items \in Seq(Asked) /\ ending \in Complete
        /\ verdict = Said
    BY DEF AnswerInv
  <2>2. CASE op = "models"
    <3>1. provider \in {"antigravity_cli", "openai_api", "claude_api", "gemini_api"}
      BY <2>2 DEF AnswerInv, WithLists, Interfaces
    <3>2. Listed(provider, items, ending) = "ok" <=> SoundList(provider, items, ending)
      BY <2>1, <2>2, <3>1, ListsAgree DEF Asked, Complete
    <3>3. verdict = Listed(provider, items, ending) /\ Listing BY <2>1, <2>2 DEF Said, Listing
    <3> QED BY <3>2, <3>3 DEF SoundList
  <2>3. CASE op # "models"
    <3>1. Judged(provider, items, ending) = "ok" <=> SoundAnswer(provider, items, ending)
      BY <2>1, <2>3, ParsersAgree DEF Asked, Complete, AnswerInv
    <3>2. verdict = Judged(provider, items, ending) /\ ~Listing
      BY <2>1, <2>3 DEF Said, Listing
    <3> QED BY <3>1, <3>2 DEF SoundAnswer
  <2> QED BY <2>2, <2>3
<1> QED BY AnswerInvInit, AnswerInvNext, <1>1, PTL DEF Spec

-----------------------------------------------------------------------------
(* The tools.                                                              *)

\* The first check that refuses says why.
LEMMA StopFirst ==
  ASSUME NEW D, D \subseteq Nat, NEW says, DOMAIN says = D, NEW n \in D,
         says[n] # "ok", \A m \in D : m < n => says[m] = "ok"
  PROVE  Stop(says) = says[n]
<1> DEFINE bad == {m \in DOMAIN says : says[m] # "ok"}
<1>1. n \in bad /\ bad \subseteq Nat /\ \A m \in bad : ~(m < n) OBVIOUS
<1>2. Stop(says) = says[Min(bad)] BY <1>1 DEF Stop
<1> HIDE DEF bad
<1>3. Min(bad) \in bad /\ Min(bad) <= n BY <1>1, MinIs
<1>4. \A m \in Nat : m <= n /\ ~(m < n) => m = n OBVIOUS
<1>5. Min(bad) \in Nat /\ Min(bad) = n BY <1>1, <1>3, <1>4
<1> QED BY <1>2, <1>5

\* The same for checks written one by one: those before are passed, and what follows
\* does not matter.
LEMMA StopSecond ==
  ASSUME NEW N \in Nat, N >= 2, NEW says, DOMAIN says = 1..N,
         says[1] = "ok", says[2] # "ok"
  PROVE  Stop(says) = says[2]
<1> DEFINE D == 1..N
<1>1. D \subseteq Nat /\ 2 \in D /\ \A m \in D : m < 2 => m = 1 OBVIOUS
<1> HIDE DEF D
<1>2. \A m \in D : m < 2 => says[m] = "ok" BY <1>1
<1> QED BY <1>1, <1>2, StopFirst DEF D

\* The words of which the sound answers are made.
Words == {"thread", "turn", "reasoning", "message", "completed", "init", "step", "result",
          "echo", "delta"}

LEMMA ShapeWords ==
  ASSUME NEW p \in DOMAIN Least, NEW k \in Nat
  PROVE  Shape(p, k) \in Seq(Words)
<1>1. /\ Repeat("reasoning", k) \in Seq(Words) /\ Repeat("step", k) \in Seq(Words)
      /\ Repeat("delta", k) \in Seq(Words)
  <2>1. "reasoning" \in Words /\ "step" \in Words /\ "delta" \in Words BY DEF Words
  <2> QED BY <2>1, RepeatIs
<1>2. /\ <<"thread", "turn">> \in Seq(Words) /\ <<"message", "completed">> \in Seq(Words)
      /\ <<"init">> \in Seq(Words) /\ <<"result">> \in Seq(Words)
      /\ <<"init", "echo", "delta">> \in Seq(Words) /\ <<"message">> \in Seq(Words)
  BY DEF Words
<1>3. p \in {"codex_cli", "antigravity_cli", "gemini_cli", "openai_api", "claude_api"}
  BY DEF Least
<1> HIDE DEF Words
<1>4. CASE p = "codex_cli" BY <1>1, <1>2, <1>4 DEF Shape
<1>5. CASE p = "antigravity_cli" BY <1>1, <1>2, <1>5 DEF Shape
<1>6. CASE p = "gemini_cli" BY <1>1, <1>2, <1>6 DEF Shape
<1>7. CASE p \in {"openai_api", "claude_api"} BY <1>1, <1>2, <1>7 DEF Shape
<1> QED BY <1>3, <1>4, <1>5, <1>6, <1>7

\* A good beginning has the items of a sound answer.
LEMMA ViableBeginning ==
  ASSUME NEW p \in DOMAIN Least, NEW X, NEW s \in Seq(X), NEW n \in 1..Len(s),
         Viable(p, SubSeq(s, 1, n - 1))
  PROVE  \E k \in Nat : n - 1 <= Len(Shape(p, k)) /\ \A i \in 1..(n - 1) : s[i] = Shape(p, k)[i]
<1> DEFINE t == SubSeq(s, 1, n - 1)
<1>1. Len(t) = n - 1 /\ \A i \in 1..(n - 1) : t[i] = s[i] OBVIOUS
<1> HIDE DEF t
<1>2. PICK k \in 0..Len(t) : Len(t) <= Len(Shape(p, k)) /\ t = SubSeq(Shape(p, k), 1, Len(t))
  BY DEF Viable, t
<1>3. k \in Nat BY <1>1
<1>4. Shape(p, k) \in Seq(Words) BY <1>3, ShapeWords
<1>5. \A i \in 1..(n - 1) : SubSeq(Shape(p, k), 1, n - 1)[i] = Shape(p, k)[i]
  BY <1>1, <1>2, <1>4
<1> QED BY <1>1, <1>2, <1>3, <1>5

\* Its items are words of sound answers.
LEMMA ViableWords ==
  ASSUME NEW p \in DOMAIN Least, NEW X, NEW s \in Seq(X), NEW n \in 1..Len(s),
         Viable(p, SubSeq(s, 1, n - 1))
  PROVE  \A i \in 1..(n - 1) : s[i] \in Words
<1>1. PICK k \in Nat :
        n - 1 <= Len(Shape(p, k)) /\ \A i \in 1..(n - 1) : s[i] = Shape(p, k)[i]
  BY ViableBeginning
<1>2. Shape(p, k) \in Seq(Words) BY ShapeWords
<1>3. \A i \in 1..(n - 1) : i \in 1..Len(Shape(p, k)) BY <1>1, <1>2
<1> QED BY <1>1, <1>2, <1>3

\* A good beginning of an output has at most one text, at its end.
LEMMA ViableThoughts ==
  ASSUME NEW p \in {"openai_api", "claude_api"}, NEW X, NEW s \in Seq(X), NEW n \in 1..Len(s),
         Viable(p, SubSeq(s, 1, n - 1))
  PROVE  \A i \in 1..(n - 1) : s[i] \in {"reasoning", "message"} /\ ~Before(s, i, Texts)
<1>1. p \in DOMAIN Least BY DEF Least
<1>2. PICK k \in Nat :
        n - 1 <= Len(Shape(p, k)) /\ \A i \in 1..(n - 1) : s[i] = Shape(p, k)[i]
  BY <1>1, ViableBeginning
<1> DEFINE t == Shape(p, k)
<1>3. t \in Seq(Words) BY <1>1, ShapeWords
<1>4. Len(t) = k + 1 /\ (\A i \in 1..k : t[i] = "reasoning") /\ t[k + 1] = "message"
  BY <1>3, OutputShape
<1> HIDE DEF t
<1>5. \A i \in 1..(n - 1) : s[i] = t[i] /\ (i \in 1..k \/ i = k + 1) BY <1>2, <1>4 DEF t
<1>6. \A i \in 1..(n - 1) : s[i] \in {"reasoning", "message"} BY <1>4, <1>5
<1>7. ASSUME NEW i \in 1..(n - 1), NEW j \in 1..(i - 1) PROVE s[j] \notin Texts
  <2>1. j \in 1..(n - 1) /\ j \in 1..k BY <1>2, <1>4 DEF t
  <2> QED BY <1>4, <1>5, <2>1 DEF Texts
<1> QED BY <1>6, <1>7 DEF Before

\* A tool in the stream of Codex, after a good beginning (codexCliProtocol.ts).
LEMMA CodexTold ==
  ASSUME NEW X, NEW s \in Seq(X), NEW n \in 1..Len(s), s[n] = "tool", Len(s) >= 4,
         \A i \in DOMAIN s : s[i] # "broken", Viable("codex_cli", SubSeq(s, 1, n - 1))
  PROVE  Codex(s) = "TOOL_ACTIVITY"
<1> DEFINE tools == [m \in DOMAIN s |->
                       CASE s[m] = "tool" -> "TOOL_ACTIVITY"
                         [] s[m] = "untyped" -> "OUTPUT_INVALID"
                         [] OTHER -> "ok"]
<1>1. \A i \in 1..(n - 1) : s[i] \in Words BY ViableWords DEF Least
<1>2. CodexTools(s) = "TOOL_ACTIVITY"
  <2>1. DOMAIN tools = 1..Len(s) /\ 1..Len(s) \subseteq Nat OBVIOUS
  <2>2. \A m \in 1..Len(s) : m < n => m \in 1..(n - 1) OBVIOUS
  <2>3. \A m \in 1..Len(s) : m < n => tools[m] = "ok" BY <1>1, <2>2 DEF Words
  <2>4. tools[n] = "TOOL_ACTIVITY" OBVIOUS
  <2>5. CodexTools(s) = Stop(tools) BY DEF CodexTools
  <2> HIDE DEF tools
  <2> QED BY <2>1, <2>3, <2>4, <2>5, StopFirst
<1>3. Lines(s, 4) = "ok" BY DEF Lines, Must
<1> DEFINE says == <<Lines(s, 4), CodexTools(s),
             Must(Item(s, 1) = "thread" /\ Item(s, 2) = "turn" /\ Ends(s) = "completed",
                  "OUTPUT_INVALID"),
             CodexItems(s), Must(\E m \in DOMAIN s : s[m] = "message", "OUTPUT_INVALID")>>
<1>4. DOMAIN says = 1..5 /\ says[1] = "ok" /\ says[2] = "TOOL_ACTIVITY" BY <1>2, <1>3
<1>5. Codex(s) = Stop(says) BY DEF Codex
<1>6. 5 \in Nat /\ 5 >= 2 OBVIOUS
<1> HIDE DEF says
<1>7. Stop(says) = says[2] BY <1>4, <1>6, StopSecond
<1> QED BY <1>4, <1>5, <1>7

\* A tool anywhere in the stream of Antigravity (antigravityCliProtocol.ts).
LEMMA AntigravityTold ==
  ASSUME NEW X, NEW s \in Seq(X), NEW n \in 1..Len(s), s[n] = "tool", Len(s) >= 2,
         \A i \in DOMAIN s : s[i] # "broken"
  PROVE  Antigravity(s) = "TOOL_ACTIVITY"
<1> DEFINE says == <<Lines(s, 2), AntigravityTools(s), AntigravityInit(s), AntigravitySteps(s),
                     Must(Ends(s) = "result", "OUTPUT_INVALID")>>
<1>1. Lines(s, 2) = "ok" BY DEF Lines, Must
<1>2. AntigravityTools(s) = "TOOL_ACTIVITY" BY DEF AntigravityTools, Must
<1>3. DOMAIN says = 1..5 /\ says[1] = "ok" /\ says[2] = "TOOL_ACTIVITY" BY <1>1, <1>2
<1>4. Antigravity(s) = Stop(says) BY DEF Antigravity
<1>6. 5 \in Nat /\ 5 >= 2 OBVIOUS
<1> HIDE DEF says
<1>7. Stop(says) = says[2] BY <1>3, <1>6, StopSecond
<1> QED BY <1>3, <1>4, <1>7

\* A tool in the stream of Gemini, after a good beginning (geminiCliProtocol.ts).
LEMMA GeminiTold ==
  ASSUME NEW X, NEW s \in Seq(X), NEW n \in 1..Len(s), s[n] = "tool", Len(s) >= 2,
         \A i \in DOMAIN s : s[i] # "broken", Viable("gemini_cli", SubSeq(s, 1, n - 1))
  PROVE  Gemini(s) = "TOOL_ACTIVITY"
<1> DEFINE tools == [m \in DOMAIN s |->
                       CASE s[m] = "tool" -> "TOOL_ACTIVITY"
                         [] s[m] = "untimed" -> "OUTPUT_INVALID"
                         [] OTHER -> "ok"]
<1>1. \A i \in 1..(n - 1) : s[i] \in Words BY ViableWords DEF Least
<1>2. GeminiTools(s) = "TOOL_ACTIVITY"
  <2>1. DOMAIN tools = 1..Len(s) /\ 1..Len(s) \subseteq Nat OBVIOUS
  <2>2. \A m \in 1..Len(s) : m < n => m \in 1..(n - 1) OBVIOUS
  <2>3. \A m \in 1..Len(s) : m < n => tools[m] = "ok" BY <1>1, <2>2 DEF Words
  <2>4. tools[n] = "TOOL_ACTIVITY" OBVIOUS
  <2>5. GeminiTools(s) = Stop(tools) BY DEF GeminiTools
  <2> HIDE DEF tools
  <2> QED BY <2>1, <2>3, <2>4, <2>5, StopFirst
<1>3. Lines(s, 2) = "ok" BY DEF Lines, Must
<1> DEFINE says == <<Lines(s, 2), GeminiTools(s), Must(Len(s) >= 4, "OUTPUT_INVALID"),
                     GeminiInit(s), GeminiDeltas(s), GeminiStats(s),
                     Must(\A m \in DOMAIN s : s[m] # "misfit", "OUTPUT_INVALID")>>
<1>4. DOMAIN says = 1..7 /\ says[1] = "ok" /\ says[2] = "TOOL_ACTIVITY" BY <1>2, <1>3
<1>5. Gemini(s) = Stop(says) BY DEF Gemini
<1>6. 7 \in Nat /\ 7 >= 2 OBVIOUS
<1> HIDE DEF says
<1>7. Stop(says) = says[2] BY <1>4, <1>6, StopSecond
<1> QED BY <1>4, <1>5, <1>7

\* A tool in an output, after a good beginning (openAiApiProtocol.ts).
LEMMA OpenAiTold ==
  ASSUME NEW X, NEW s \in Seq(X), NEW n \in 1..Len(s), s[n] = "tool",
         Viable("openai_api", SubSeq(s, 1, n - 1))
  PROVE  OpenAi(s, "clean") = "TOOL_ACTIVITY"
<1> DEFINE loop == [m \in DOMAIN s |-> OutputItem(s, m)]
<1>1. \A i \in 1..(n - 1) : s[i] \in {"reasoning", "message"} /\ ~Before(s, i, Texts)
  BY ViableThoughts
<1>2. Output(s) = "TOOL_ACTIVITY"
  <2>1. DOMAIN loop = 1..Len(s) /\ 1..Len(s) \subseteq Nat OBVIOUS
  <2>2. \A m \in 1..Len(s) : m < n => m \in 1..(n - 1) OBVIOUS
  <2>3. \A m \in 1..Len(s) : m < n => loop[m] = "ok" BY <1>1, <2>2 DEF OutputItem
  <2>4. loop[n] = "TOOL_ACTIVITY" BY DEF OutputItem
  <2>5. Output(s) = Stop(loop) BY DEF Output
  <2> HIDE DEF loop
  <2> QED BY <2>1, <2>3, <2>4, <2>5, StopFirst
<1> DEFINE says == <<OpenAiRoot("clean"), Output(s), Generated(s), OpenAiUsage("clean")>>
<1>3. DOMAIN says = 1..4 /\ says[1] = "ok" /\ says[2] = "TOOL_ACTIVITY"
  BY <1>2 DEF OpenAiRoot, Must
<1>4. OpenAi(s, "clean") = Stop(says) BY DEF OpenAi
<1>6. 4 \in Nat /\ 4 >= 2 OBVIOUS
<1> HIDE DEF says
<1>7. Stop(says) = says[2] BY <1>3, <1>6, StopSecond
<1> QED BY <1>3, <1>4, <1>7

\* A tool in a content, after a good beginning (anthropicApiProtocol.ts).
LEMMA AnthropicTold ==
  ASSUME NEW X, NEW s \in Seq(X), NEW n \in 1..Len(s), s[n] = "tool",
         Viable("claude_api", SubSeq(s, 1, n - 1))
  PROVE  Anthropic(s, "clean") = "TOOL_ACTIVITY"
<1> DEFINE loop == [m \in DOMAIN s |-> ContentBlock(s, m)]
<1>1. \A i \in 1..(n - 1) : s[i] \in {"reasoning", "message"} /\ ~Before(s, i, Texts)
  BY ViableThoughts
<1>2. Content(s) = "TOOL_ACTIVITY"
  <2>1. DOMAIN loop = 1..Len(s) /\ 1..Len(s) \subseteq Nat OBVIOUS
  <2>2. \A m \in 1..Len(s) : m < n => m \in 1..(n - 1) OBVIOUS
  <2>3. \A m \in 1..Len(s) : m < n => loop[m] = "ok" BY <1>1, <2>2 DEF ContentBlock
  <2>4. loop[n] = "TOOL_ACTIVITY" BY DEF ContentBlock
  <2>5. Content(s) = Stop(loop) BY DEF Content
  <2> HIDE DEF loop
  <2> QED BY <2>1, <2>3, <2>4, <2>5, StopFirst
<1> DEFINE says == <<AnthropicReason("clean"), Content(s), Generated(s), AnthropicUsage("clean")>>
<1>3. DOMAIN says = 1..4 /\ says[1] = "ok" /\ says[2] = "TOOL_ACTIVITY"
  BY <1>2 DEF AnthropicReason
<1>4. Anthropic(s, "clean") = Stop(says) BY DEF Anthropic
<1>6. 4 \in Nat /\ 4 >= 2 OBVIOUS
<1> HIDE DEF says
<1>7. Stop(says) = says[2] BY <1>3, <1>6, StopSecond
<1> QED BY <1>3, <1>4, <1>7

\* An answer that is sound but for one item is the sound one everywhere else.
LEMMA AllButOne ==
  ASSUME NEW p \in DOMAIN Least, NEW X, NEW s \in Seq(X), NEW n \in 1..Len(s),
         SoundAnswer(p, [s EXCEPT ![n] = Harmless(@)], "clean")
  PROVE  \E k \in Nat : \E t \in Seq(Words) :
           /\ t = Shape(p, k) /\ Len(t) = Len(s) /\ t[n] = Harmless(s[n])
           /\ \A i \in 1..Len(s) : i # n => t[i] = s[i]
<1> DEFINE t == [s EXCEPT ![n] = Harmless(@)]
<1>1. /\ DOMAIN t = 1..Len(s) /\ t[n] = Harmless(s[n])
      /\ \A i \in 1..Len(s) : i # n => t[i] = s[i]
  OBVIOUS
<1>2. SoundAnswer(p, t, "clean") OBVIOUS
<1> HIDE DEF t
<1>3. PICK k \in 0..Len(t) : t = Shape(p, k) BY <1>2 DEF SoundAnswer
<1>4. Len(t) = Len(s) /\ Len(s) \in Nat
  <2>1. Len(t) \in Nat => 1..Len(t) = DOMAIN t OBVIOUS
  <2>2. \A m \in Nat : DOMAIN t = 1..m => Len(t) = m OBVIOUS
  <2> QED BY <1>1, <2>2
<1>5. k \in Nat BY <1>3, <1>4
<1>6. t \in Seq(Words) BY <1>3, <1>5, ShapeWords
<1> QED BY <1>1, <1>3, <1>4, <1>5, <1>6

\* A tool among those that Antigravity names at the start, or a step of a kind nobody
\* knows, in an answer that is sound otherwise (antigravityCliProtocol.ts).
LEMMA AntigravitySignTold ==
  ASSUME NEW s \in Seq(Kinds["antigravity_cli"]), NEW n \in 1..Len(s), Harmless(s[n]) # s[n],
         SoundAnswer("antigravity_cli", [s EXCEPT ![n] = Harmless(@)], "clean")
  PROVE  Antigravity(s) = "TOOL_ACTIVITY"
<1>0. "antigravity_cli" \in DOMAIN Least BY DEF Least
<1>1. PICK k \in Nat : \E t \in Seq(Words) :
           /\ t = Shape("antigravity_cli", k) /\ Len(t) = Len(s) /\ t[n] = Harmless(s[n])
           /\ \A i \in 1..Len(s) : i # n => t[i] = s[i]
  BY <1>0, AllButOne
<1>2. PICK t \in Seq(Words) :
           /\ t = Shape("antigravity_cli", k) /\ Len(t) = Len(s) /\ t[n] = Harmless(s[n])
           /\ \A i \in 1..Len(s) : i # n => t[i] = s[i]
  BY <1>1
<1>3. /\ Len(s) = k + 2 /\ t[1] = "init" /\ \A i \in 2..(k + 1) : t[i] = "step"
      /\ t[k + 2] = "result"
  BY <1>2, AntigravityShape
<1>4. \A i \in 1..Len(s) : i = 1 \/ i \in 2..(k + 1) \/ i = k + 2 BY <1>3
<1>5. s[n] \in {"armed", "unknown"}
  <2>1. s[n] \in Kinds["antigravity_cli"] OBVIOUS
  <2> QED BY <2>1 DEF Kinds, Harmless
<1>6. DOMAIN s = 1..Len(s) /\ Len(s) >= 2 BY <1>3
<1>7. \A i \in 1..Len(s) : s[i] # "broken" /\ s[i] # "tool"
  <2>1. \A i \in 1..Len(s) : i # n => s[i] \in {"init", "step", "result"} BY <1>2, <1>3, <1>4
  <2> QED BY <1>5, <2>1
<1>8. Lines(s, 2) = "ok" /\ AntigravityTools(s) = "ok"
  BY <1>6, <1>7 DEF Lines, AntigravityTools, Must
<1> DEFINE says == <<Lines(s, 2), AntigravityTools(s), AntigravityInit(s), AntigravitySteps(s),
                     Must(Ends(s) = "result", "OUTPUT_INVALID")>>
           D == 1..5
<1>9. /\ D \subseteq Nat /\ 3 \in D /\ 4 \in D /\ DOMAIN says = D
      /\ \A m \in D : (m < 3 => m \in {1, 2}) /\ (m < 4 => m \in {1, 2, 3})
      /\ says[1] = "ok" /\ says[2] = "ok" /\ says[3] = AntigravityInit(s)
      /\ says[4] = AntigravitySteps(s)
  BY <1>8
<1>10. Antigravity(s) = Stop(says) BY DEF Antigravity
<1> HIDE DEF says, D
<1>11. ASSUME NEW j \in D, says[j] # "ok", \A m \in D : m < j => says[m] = "ok"
      PROVE  Stop(says) = says[j]
  <2>1. D \subseteq Nat /\ DOMAIN says = D BY <1>9
  <2> QED BY <2>1, <1>11, StopFirst
<1>12. CASE s[n] = "armed"
  <2>1. n = 1 BY <1>2, <1>3, <1>4, <1>12 DEF Harmless
  <2>2. Item(s, 1) = "armed" BY <1>6, <1>12, <2>1 DEF Item
  <2>3. AntigravityInit(s) = "TOOL_ACTIVITY"
    <3> DEFINE first == <<Must(Item(s, 1) \in {"init", "armed"}, "OUTPUT_INVALID"),
                          Must(Item(s, 1) # "armed", "TOOL_ACTIVITY")>>
    <3>1. DOMAIN first = 1..2 /\ first[1] = "ok" /\ first[2] = "TOOL_ACTIVITY" BY <2>2 DEF Must
    <3>2. AntigravityInit(s) = Stop(first) BY DEF AntigravityInit
    <3>3. 2 \in Nat /\ 2 >= 2 OBVIOUS
    <3> HIDE DEF first
    <3>4. Stop(first) = first[2] BY <3>1, <3>3, StopSecond
    <3> QED BY <3>1, <3>2, <3>4
  <2>4. Stop(says) = says[3]
    <3>1. \A m \in D : m < 3 => says[m] = "ok" BY <1>9
    <3>2. says[3] # "ok" BY <1>9, <2>3
    <3> QED BY <1>9, <1>11, <3>1, <3>2
  <2> QED BY <1>9, <1>10, <2>3, <2>4
<1>13. CASE s[n] = "unknown"
  <2> DEFINE E == 2..(Len(s) - 1)
             loop == [m \in E |-> CASE s[m] = "step" -> "ok"
                                    [] s[m] = "unknown" -> "TOOL_ACTIVITY"
                                    [] OTHER -> "OUTPUT_INVALID"]
  <2>1. n \in E /\ n # 1 BY <1>2, <1>3, <1>4, <1>13 DEF Harmless
  <2>2. Item(s, 1) = "init"
    <3>1. 1 \in 1..Len(s) BY <1>6
    <3>2. s[1] = "init" BY <1>2, <1>3, <2>1, <3>1
    <3> QED BY <1>6, <3>1, <3>2 DEF Item
  <2>3. AntigravityInit(s) = "ok" BY <2>2, Stop2 DEF AntigravityInit, Must
  <2>4. \A m \in E : m < n => s[m] = "step"
    <3>1. \A m \in E : m \in 1..Len(s) /\ m \in 2..(k + 1) BY <1>3
    <3>2. \A m \in E : m < n => m # n BY <2>1
    <3> QED BY <1>2, <1>3, <3>1, <3>2
  <2>5. DOMAIN loop = E /\ E \subseteq Nat /\ loop[n] = "TOOL_ACTIVITY" BY <1>13, <2>1
  <2>6. \A m \in E : m < n => loop[m] = "ok" BY <2>4
  <2>7. AntigravitySteps(s) = Stop(loop) BY DEF AntigravitySteps
  <2> HIDE DEF loop, E
  <2>8. Stop(loop) = loop[n] BY <2>1, <2>5, <2>6, StopFirst
  <2>9. AntigravitySteps(s) = "TOOL_ACTIVITY" BY <2>5, <2>7, <2>8
  <2>10. Stop(says) = says[4]
    <3>1. \A m \in D : m < 4 => says[m] = "ok" BY <1>9, <2>3
    <3>2. says[4] # "ok" BY <1>9, <2>9
    <3> QED BY <1>9, <1>11, <3>1, <3>2
  <2> QED BY <1>9, <1>10, <2>9, <2>10
<1> QED BY <1>5, <1>12, <1>13

\* Tools counted in the statistics of a Gemini answer that is sound otherwise
\* (parseStats in geminiCliProtocol.ts).
LEMMA GeminiSignTold ==
  ASSUME NEW s \in Seq(Kinds["gemini_cli"]), NEW n \in 1..Len(s), Harmless(s[n]) # s[n],
         SoundAnswer("gemini_cli", [s EXCEPT ![n] = Harmless(@)], "clean")
  PROVE  Gemini(s) = "TOOL_ACTIVITY"
<1>0. "gemini_cli" \in DOMAIN Least BY DEF Least
<1>1. PICK k \in Nat : \E t \in Seq(Words) :
           /\ t = Shape("gemini_cli", k) /\ Len(t) = Len(s) /\ t[n] = Harmless(s[n])
           /\ \A i \in 1..Len(s) : i # n => t[i] = s[i]
  BY <1>0, AllButOne
<1>2. PICK t \in Seq(Words) :
           /\ t = Shape("gemini_cli", k) /\ Len(t) = Len(s) /\ t[n] = Harmless(s[n])
           /\ \A i \in 1..Len(s) : i # n => t[i] = s[i]
  BY <1>1
<1>3. /\ Len(s) = k + 4 /\ t[1] = "init" /\ t[2] = "echo" /\ t[3] = "delta"
      /\ \A i \in 4..(k + 3) : t[i] = "delta"
      /\ t[k + 4] = "result"
  BY <1>2, GeminiShape
<1>4. \A i \in 1..Len(s) : i \in {1, 2, 3} \/ i \in 4..(k + 3) \/ i = k + 4 BY <1>3
<1>5. s[n] = "counted"
  <2>1. s[n] \in Kinds["gemini_cli"] OBVIOUS
  <2> QED BY <2>1 DEF Kinds, Harmless
<1>6. n = Len(s) BY <1>2, <1>3, <1>4, <1>5 DEF Harmless
<1>7. DOMAIN s = 1..Len(s) /\ Len(s) >= 4 BY <1>3
<1>8. \A i \in 1..Len(s) : i # n => s[i] \in {"init", "echo", "delta", "result"}
  BY <1>2, <1>3, <1>4
<1>9. \A i \in 1..Len(s) : s[i] \notin {"broken", "tool", "untimed", "misfit"} BY <1>5, <1>8
<1>10. Lines(s, 2) = "ok" BY <1>7, <1>9 DEF Lines, Must
<1>11. GeminiTools(s) = "ok"
  <2> DEFINE tools == [m \in DOMAIN s |->
                         CASE s[m] = "tool" -> "TOOL_ACTIVITY"
                           [] s[m] = "untimed" -> "OUTPUT_INVALID"
                           [] OTHER -> "ok"]
             E == 1..Len(s)
  <2>1. DOMAIN tools = E /\ E \subseteq Nat OBVIOUS
  <2>2. \A m \in E : tools[m] = "ok" BY <1>9
  <2>3. GeminiTools(s) = Stop(tools) BY DEF GeminiTools
  <2> HIDE DEF tools, E
  <2>4. Stop(tools) = "ok" BY <2>1, <2>2, StopOk
  <2> QED BY <2>3, <2>4
<1>12. GeminiInit(s) = "ok"
  <2>1. 1 \in 1..Len(s) /\ 2 \in 1..Len(s) /\ 1 # n /\ 2 # n BY <1>6, <1>7
  <2>2. s[1] = "init" /\ s[2] = "echo" BY <1>2, <1>3, <2>1
  <2> QED BY <1>7, <2>1, <2>2, Stop3 DEF GeminiInit, Must, Item
<1>13. GeminiDeltas(s) = "ok"
  <2>1. \A i \in 3..(Len(s) - 1) : i \in 1..Len(s) /\ i # n /\ (i = 3 \/ i \in 4..(k + 3))
    BY <1>3, <1>6
  <2>2. \A i \in 3..(Len(s) - 1) : s[i] = "delta" BY <1>2, <1>3, <2>1
  <2> QED BY <2>2 DEF GeminiDeltas, Must
<1>14. GeminiStats(s) = "TOOL_ACTIVITY"
  <2>1. Ends(s) = "counted" BY <1>5, <1>6, <1>7 DEF Ends, Item
  <2> QED BY <2>1 DEF GeminiStats
<1> DEFINE says == <<Lines(s, 2), GeminiTools(s), Must(Len(s) >= 4, "OUTPUT_INVALID"),
                     GeminiInit(s), GeminiDeltas(s), GeminiStats(s),
                     Must(\A m \in DOMAIN s : s[m] # "misfit", "OUTPUT_INVALID")>>
           D == 1..7
<1>15. /\ D \subseteq Nat /\ 6 \in D /\ DOMAIN says = D
       /\ \A m \in D : m < 6 => m \in {1, 2, 3, 4, 5}
       /\ says[1] = "ok" /\ says[2] = "ok" /\ says[3] = "ok" /\ says[4] = "ok"
       /\ says[5] = "ok" /\ says[6] = "TOOL_ACTIVITY"
  BY <1>7, <1>10, <1>11, <1>12, <1>13, <1>14 DEF Must
<1>16. Gemini(s) = Stop(says) BY DEF Gemini
<1> HIDE DEF says, D
<1>17. \A m \in D : m < 6 => says[m] = "ok" BY <1>15
<1>18. ASSUME NEW j \in D, says[j] # "ok", \A m \in D : m < j => says[m] = "ok"
      PROVE  Stop(says) = says[j]
  <2>1. D \subseteq Nat /\ DOMAIN says = D BY <1>15
  <2> QED BY <2>1, <1>18, StopFirst
<1>19. Stop(says) = says[6] BY <1>15, <1>17, <1>18
<1> QED BY <1>15, <1>16, <1>19

\* A provider of an answer of any length that used a tool, or was ready to, is told as
\* that whenever what came before was good or nothing else is wrong
\* (rejectToolLikeEvents and its like in the parsers of the five providers).
THEOREM ToolsToldByAll ==
  ASSUME NEW p \in DOMAIN Least, NEW s \in Seq(Kinds[p]), NEW n \in DOMAIN s,
         \/ /\ s[n] = "tool" /\ Viable(p, SubSeq(s, 1, n - 1))
            /\ Len(s) >= Least[p] /\ \A i \in DOMAIN s : s[i] # "broken"
         \/ /\ Harmless(s[n]) # s[n]
            /\ SoundAnswer(p, [s EXCEPT ![n] = Harmless(@)], "clean")
  PROVE  Judged(p, s, "clean") = "TOOL_ACTIVITY"
<1>1. p \in {"codex_cli", "antigravity_cli", "gemini_cli", "openai_api", "claude_api"}
  BY DEF Least
<1>2. n \in 1..Len(s) OBVIOUS
<1>3. Harmless(s[n]) # s[n] => p \in {"antigravity_cli", "gemini_cli"}
  <2>1. Harmless(s[n]) # s[n] => s[n] \in {"armed", "unknown", "counted"} BY DEF Harmless
  <2>2. s[n] \in Kinds[p] BY <1>2
  <2>3. /\ "armed" \notin Kinds["codex_cli"] /\ "unknown" \notin Kinds["codex_cli"]
        /\ "counted" \notin Kinds["codex_cli"]
        /\ "armed" \notin Kinds["openai_api"] /\ "unknown" \notin Kinds["openai_api"]
        /\ "counted" \notin Kinds["openai_api"]
        /\ "armed" \notin Kinds["claude_api"] /\ "unknown" \notin Kinds["claude_api"]
        /\ "counted" \notin Kinds["claude_api"]
    BY DEF Kinds
  <2> QED BY <1>1, <2>1, <2>2, <2>3
<1>4. ASSUME p \in CommandLines, NEW r, r # "ok"
      PROVE  Stop(<<Success(p, "clean"), r>>) = r
  <2> DEFINE says == <<Success(p, "clean"), r>>
  <2>1. "clean" \in Endings(p) BY <1>4 DEF Endings
  <2>2. Success(p, "clean") = "ok" BY <1>4, <2>1, SuccessClean
  <2>3. DOMAIN says = 1..2 /\ says[1] = "ok" /\ says[2] = r BY <2>2
  <2>4. 2 \in Nat /\ 2 >= 2 OBVIOUS
  <2> HIDE DEF says
  <2>5. Stop(says) = says[2] BY <1>4, <2>3, <2>4, StopSecond
  <2> QED BY <2>3, <2>5 DEF says
<1>5. CASE p = "codex_cli"
  <2>1. Codex(s) = "TOOL_ACTIVITY" BY <1>2, <1>3, <1>5, CodexTold DEF Least
  <2> QED BY <1>4, <1>5, <2>1 DEF Judged, CommandLines
<1>6. CASE p = "antigravity_cli"
  <2>1. Antigravity(s) = "TOOL_ACTIVITY"
    BY <1>2, <1>6, AntigravityTold, AntigravitySignTold DEF Least
  <2> QED BY <1>4, <1>6, <2>1 DEF Judged, CommandLines
<1>7. CASE p = "gemini_cli"
  <2>1. Gemini(s) = "TOOL_ACTIVITY" BY <1>2, <1>7, GeminiTold, GeminiSignTold DEF Least
  <2> QED BY <1>4, <1>7, <2>1 DEF Judged, CommandLines
<1>8. CASE p = "openai_api"
  <2>1. OpenAi(s, "clean") = "TOOL_ACTIVITY" BY <1>2, <1>3, <1>8, OpenAiTold
  <2> QED BY <1>8, <2>1 DEF Judged
<1>9. CASE p = "claude_api"
  <2>1. Anthropic(s, "clean") = "TOOL_ACTIVITY" BY <1>2, <1>3, <1>9, AnthropicTold
  <2> QED BY <1>9, <2>1 DEF Judged
<1> QED BY <1>1, <1>5, <1>6, <1>7, <1>8, <1>9

\* And so is the verdict of a call, whatever happens around it (antigravityCliAdapter.ts).
THEOREM ToolsToldAlways == Spec => []ToolsAreTold
<1>1. AnswerInv => ToolsAreTold
  <2> SUFFICES ASSUME AnswerInv, verdict # "none", ~Listing, provider \in DOMAIN Least,
                      ending = "clean", NEW n \in DOMAIN items,
                      \/ /\ items[n] = "tool" /\ Viable(provider, SubSeq(items, 1, n - 1))
                         /\ Len(items) >= Least[provider]
                         /\ \A i \in DOMAIN items : items[i] # "broken"
                      \/ /\ Harmless(items[n]) # items[n]
                         /\ SoundAnswer(provider, [items EXCEPT ![n] = Harmless(@)], ending)
      PROVE  verdict = "TOOL_ACTIVITY"
    BY DEF ToolsAreTold
  <2>1. items \in Seq(Kinds[provider]) /\ verdict = Judged(provider, items, "clean")
    BY DEF AnswerInv, Asked, Said, Listing
  <2> QED BY <2>1, ToolsToldByAll
<1> QED BY AnswerInvInit, AnswerInvNext, <1>1, PTL DEF Spec
=============================================================================
