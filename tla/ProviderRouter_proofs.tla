------------------------ MODULE ProviderRouter_proofs ------------------------
(***************************************************************************)
(* Proofs about ProviderRouter, for any requests, providers, routes and    *)
(* bounds: leases and queues agree with the requests, the rows tell what   *)
(* became of them, a call leaves nothing behind, old evidence does not     *)
(* count, nothing is sent once the router is stopped, and what a caller    *)
(* sees is what CallPromise says.                                          *)
(***************************************************************************)
EXTENDS ProviderRouter, FiniteSetTheorems, SequenceTheorems, TLAPS

-----------------------------------------------------------------------------
(* A queue in which each of a set of requests stands once.                 *)

Line(s, W) ==
  /\ \A i \in 1..Len(s) : s[i] \in W
  /\ \A i, j \in 1..Len(s) : s[i] = s[j] => i = j
  /\ \A r \in W : \E i \in 1..Len(s) : s[i] = r

LEMMA LineEmpty == <<>> \in Seq(Requests) /\ Line(<<>>, {})
BY DEF Line

LEMMA LineAppend ==
  ASSUME NEW s \in Seq(Requests), NEW W, Line(s, W), NEW r \in Requests, r \notin W
  PROVE  Append(s, r) \in Seq(Requests) /\ Line(Append(s, r), W \cup {r})
<1> DEFINE t == Append(s, r)
<1>1. /\ t \in Seq(Requests) /\ Len(t) = Len(s) + 1 /\ t[Len(s) + 1] = r
      /\ \A i \in 1..Len(s) : t[i] = s[i]
  BY AppendProperties
<1> HIDE DEF t
<1>2. \A i \in 1..Len(t) : i \in 1..Len(s) \/ i = Len(s) + 1 BY <1>1
<1>3. \A i \in 1..Len(s) : i \in 1..Len(t) /\ i # Len(s) + 1 BY <1>1
<1>4. \A i \in 1..Len(t) : t[i] \in W \cup {r} BY <1>1, <1>2 DEF Line
<1>5. \A i, j \in 1..Len(t) : t[i] = t[j] => i = j BY <1>1, <1>2 DEF Line
<1>6. \A q \in W \cup {r} : \E i \in 1..Len(t) : t[i] = q
  <2>1. Len(s) + 1 \in 1..Len(t) BY <1>1
  <2> QED BY <1>1, <1>3, <2>1 DEF Line
<1> QED BY <1>1, <1>4, <1>5, <1>6 DEF Line, t

\* What is left when the n-th of the queue is taken out.
LEMMA LineRemove ==
  ASSUME NEW s \in Seq(Requests), NEW W, Line(s, W), NEW n \in 1..Len(s)
  PROVE  RemoveAt(s, n) \in Seq(Requests) /\ Line(RemoveAt(s, n), W \ {s[n]})
<1> DEFINE a == SubSeq(s, 1, n - 1)
           b == SubSeq(s, n + 1, Len(s))
           t == a \o b
<1>1. \A i \in 1..Len(s) : s[i] \in Requests OBVIOUS
<1>2. a \in Seq(Requests) /\ Len(a) = n - 1 /\ \A i \in 1..(n - 1) : a[i] = s[i]
  <2>1. 1 \in Int /\ n - 1 \in Int /\ \A i \in 1..(n - 1) : s[i] \in Requests BY <1>1
  <2> QED BY <2>1, SubSeqProperties
<1>3. b \in Seq(Requests) /\ Len(b) = Len(s) - n /\ \A i \in 1..(Len(s) - n) : b[i] = s[n + i]
  <2>1. n + 1 \in Int /\ Len(s) \in Int /\ \A i \in (n + 1)..Len(s) : s[i] \in Requests BY <1>1
  <2>2. /\ b \in Seq(Requests) /\ Len(b) = IF n + 1 <= Len(s) THEN Len(s) - (n + 1) + 1 ELSE 0
        /\ \A i \in 1..(Len(s) - (n + 1) + 1) : b[i] = s[(n + 1) + i - 1]
    BY <2>1, SubSeqProperties
  <2> QED BY <2>2
<1> HIDE DEF a, b
<1>4. /\ t \in Seq(Requests) /\ Len(t) = Len(s) - 1
      /\ \A i \in 1..(n - 1) : t[i] = s[i]
      /\ \A i \in n..(Len(s) - 1) : t[i] = s[i + 1]
  <2>1. /\ t \in Seq(Requests) /\ Len(t) = Len(a) + Len(b)
        /\ \A i \in 1..(Len(a) + Len(b)) : t[i] = IF i <= Len(a) THEN a[i] ELSE b[i - Len(a)]
    BY <1>2, <1>3, ConcatProperties
  <2> HIDE DEF t
  <2>2. \A i \in 1..(n - 1) : t[i] = s[i] BY <1>2, <1>3, <2>1
  <2>3. ASSUME NEW i \in n..(Len(s) - 1) PROVE t[i] = s[i + 1]
    <3>1. i \in 1..(Len(a) + Len(b)) /\ ~(i <= Len(a)) /\ i - Len(a) = i - (n - 1) BY <1>2, <1>3
    <3>2. i - (n - 1) \in 1..(Len(s) - n) /\ n + (i - (n - 1)) = i + 1 OBVIOUS
    <3> QED BY <1>3, <2>1, <3>1, <3>2
  <2> QED BY <1>2, <1>3, <2>1, <2>2, <2>3
<1>5. t = RemoveAt(s, n) BY DEF RemoveAt, a, b
<1> HIDE DEF t
<1>6. ASSUME NEW i \in 1..Len(t)
      PROVE  \E k \in 1..Len(s) : k # n /\ t[i] = s[k] /\ k = IF i < n THEN i ELSE i + 1
  <2>1. CASE i < n BY <1>4, <2>1
  <2>2. CASE ~(i < n)
    <3>1. i \in n..(Len(s) - 1) /\ i + 1 \in 1..Len(s) BY <1>4, <2>2
    <3> QED BY <1>4, <2>2, <3>1
  <2> QED BY <2>1, <2>2
<1>7. \A i \in 1..Len(t) : t[i] \in W \ {s[n]} BY <1>6 DEF Line
<1>8. ASSUME NEW i \in 1..Len(t), NEW j \in 1..Len(t), t[i] = t[j] PROVE i = j
  <2>1. PICK k \in 1..Len(s) : t[i] = s[k] /\ k = IF i < n THEN i ELSE i + 1 BY <1>6
  <2>2. PICK l \in 1..Len(s) : t[j] = s[l] /\ l = IF j < n THEN j ELSE j + 1 BY <1>6
  <2>3. k = l BY <1>8, <2>1, <2>2 DEF Line
  <2> QED BY <2>1, <2>2, <2>3
<1>9. ASSUME NEW r \in W, r # s[n] PROVE \E i \in 1..Len(t) : t[i] = r
  <2>1. PICK k \in 1..Len(s) : s[k] = r BY DEF Line
  <2>2. k # n BY <1>9, <2>1
  <2>3. CASE k < n
    <3>1. k \in 1..(n - 1) /\ k \in 1..Len(t) BY <1>4, <2>3
    <3> QED BY <1>4, <2>1, <3>1
  <2>4. CASE k > n
    <3>1. k - 1 \in n..(Len(s) - 1) /\ k - 1 \in 1..Len(t) /\ (k - 1) + 1 = k BY <1>4, <2>4
    <3> QED BY <1>4, <2>1, <3>1
  <2> QED BY <2>2, <2>3, <2>4
<1> QED BY <1>4, <1>5, <1>7, <1>8, <1>9 DEF Line

LEMMA LineTail ==
  ASSUME NEW s \in Seq(Requests), NEW W, Line(s, W), s # <<>>
  PROVE  /\ Tail(s) \in Seq(Requests) /\ Head(s) \in W /\ Line(Tail(s), W \ {Head(s)})
<1>1. Len(s) \in Nat \ {0} /\ Head(s) = s[1] /\ 1 \in 1..Len(s) BY EmptySeq
<1>2. Tail(s) = RemoveAt(s, 1)
  <2> DEFINE t == RemoveAt(s, 1)
  <2>1. SubSeq(s, 1, 0) = <<>> BY SubSeqEmpty
  <2>2. Tail(s) = SubSeq(s, 2, Len(s)) BY <1>1, TailIsSubSeq
  <2>3. SubSeq(s, 2, Len(s)) \in Seq(Requests)
    <3>1. \A i \in 2..Len(s) : s[i] \in Requests BY <1>1
    <3> QED BY <1>1, <3>1, SubSeqProperties
  <2>4. \A u \in Seq(Requests) : <<>> \o u = u BY ConcatEmptySeq
  <2> QED BY <1>1, <2>1, <2>2, <2>3, <2>4 DEF RemoveAt
<1>3. RemoveAt(s, 1) \in Seq(Requests) /\ Line(RemoveAt(s, 1), W \ {s[1]}) BY <1>1, LineRemove
<1>4. Head(s) \in W BY <1>1 DEF Line
<1> QED BY <1>1, <1>2, <1>3, <1>4

LEMMA LineCount ==
  ASSUME NEW s \in Seq(Requests), NEW W, Line(s, W)
  PROVE  ToSet(s) = W /\ Len(s) = Cardinality(W)
<1> DEFINE f == [i \in 1..Len(s) |-> s[i]]
<1>1. ToSet(s) = W
  <2>1. DOMAIN s = 1..Len(s) OBVIOUS
  <2> QED BY <2>1 DEF ToSet, Line
<1>2. f \in Bijection(1..Len(s), W)
  BY DEF Bijection, Injection, Surjection, IsInjective, Line
<1>3. ExistsBijection(1..Len(s), W) /\ Len(s) \in Nat BY <1>2 DEF ExistsBijection
<1> QED BY <1>1, <1>3, FS_CountingElements

-----------------------------------------------------------------------------
(* The inductive invariant.                                                *)

Held == {"granted", "calling", "delay"}
Busy == {"queued"} \cup Held
Before == {"unmade", "idle", "queued", "granted"}
Marks == {"none", "running", "completed", "failed", "cancelled"}

TypeInv ==
  /\ aborted \in [Requests -> BOOLEAN]
  /\ stage \in [Requests -> Stages]
  /\ verdict \in [Requests -> Codes \cup {"ok"}]
  /\ socket \in [Requests -> [Attempts -> Sockets]]
  /\ space \in [Requests -> Spaces]
  /\ route \in [Features -> [provider: Providers \cup {None}, model: Models]]
  /\ diag \in [Providers -> [status: DiagStatuses, model: Models, rev: Nat]]
  /\ rows \in [Requests -> [Attempts -> Marks]]
  /\ phase \in [Requests -> Phases]
  /\ snap \in [Requests -> [provider: Providers \cup {None}, rev: Nat]]
  /\ turn \in [Requests -> 0..MaxAttempts]
  /\ answer \in [Requests -> Codes \cup {"", "accepted"}]
  /\ active \in [Providers -> Int]
  /\ queue \in [Providers -> Seq(Requests)]
  /\ stopped \in BOOLEAN /\ drain \in {"no", "waiting", "done", "failed"}
  /\ closes \in 0..MaxCloses /\ disturbances \in Nat

\* The leases of a provider are those of its requests, whoever waits is in line once,
\* and nobody waits while there is room.
QueueInv ==
  \A p \in Providers :
    /\ Line(queue[p], Waiting(p))
    /\ active[p] = Cardinality(Holding(p)) /\ active[p] <= Limit(p)
    /\ Waiting(p) # {} => active[p] = Limit(p) /\ ~stopped

\* The rows of a request and where it is.
RowInv(r) ==
  /\ \A n \in Attempts : rows[r][n] # "none" <=> n <= turn[r]
  /\ phase[r] \in Before => turn[r] = 0
  /\ phase[r] = "calling" => turn[r] # 0 /\ rows[r][turn[r]] = "running"
  /\ phase[r] = "delay" => turn[r] = 1
  /\ phase[r] # "settled" =>
       \A n \in Attempts : /\ rows[r][n] # "completed"
                           /\ rows[r][n] = "running" => phase[r] = "calling" /\ n = turn[r]
  /\ answer[r] = "" <=> phase[r] # "settled"
  /\ answer[r] = "accepted" => turn[r] # 0
  /\ phase[r] = "settled" /\ answer[r] # "DATABASE" =>
       \A n \in Attempts : /\ rows[r][n] # "running"
                           /\ rows[r][n] = "completed" <=> answer[r] = "accepted" /\ n = turn[r]

\* A call is under way when the router waits for one; its open body and its copies
\* have a place at which they are dealt with.
CallInv(r) ==
  /\ stage[r] # "none" <=> phase[r] = "calling"
  /\ \A n \in Attempts :
       socket[r][n] = "open" => n = turn[r] /\ stage[r] \in {"body", "errorBody"}
  /\ space[r] = "made" =>
       \/ stage[r] \in {"copying", "reading", "cleaning"}
       \/ stage[r] = "over" /\ verdict[r] = "RESIDUAL_DATA"
       \/ phase[r] = "settled" /\ answer[r] \in {"RESIDUAL_DATA", "DATABASE"}
  /\ stage[r] \notin {"none", "cli", "over"} => snap[r].provider \in ApiProviders

\* What a request knows of its provider was so when it was let in.
DiagInv(r) ==
  /\ phase[r] \in Busy =>
       /\ snap[r].provider \in Providers
       /\ snap[r].rev <= diag[snap[r].provider].rev
       /\ snap[r].rev = diag[snap[r].provider].rev => diag[snap[r].provider].status = "ready"
  /\ answer[r] = "RESIDUAL_DATA" =>
       snap[r].provider \in Providers /\ diag[snap[r].provider].rev > snap[r].rev

\* Once the router is stopped every request on its way has been aborted, and one that
\* waits for its second attempt has not.
StopInv(r) ==
  /\ stopped /\ phase[r] \in Busy => aborted[r]
  /\ phase[r] = "delay" => ~aborted[r]

ReqInv(r) == RowInv(r) /\ CallInv(r) /\ DiagInv(r) /\ StopInv(r)

Inv == TypeInv /\ QueueInv /\ \A r \in Requests : ReqInv(r)

-----------------------------------------------------------------------------

LEMMA InvInit == Init => Inv
<1> SUFFICES ASSUME Init PROVE Inv OBVIOUS
<1> DEFINE m == CHOOSE model \in Models : TRUE
<1>0. m \in Models BY RouterAssumption
<1> HIDE DEF m
<1>1. PICK w \in Workloads :
       /\ route = [f \in Features |-> [provider |-> w.to[f], model |-> m]]
       /\ phase = [r \in Requests |-> IF r \in w.made THEN "idle" ELSE "unmade"]
       /\ disturbances = w.disturbances
       /\ diag = [p \in Providers |-> [status |-> "ready", model |-> m, rev |-> 0]]
  BY DEF Init, m
<1>2. w.to \in [Features -> Providers \cup {None}] /\ w.disturbances \in Nat
  BY RouterAssumption
<1>3. TypeInv
  <2>1. <<>> \in Seq(Requests) /\ MaxCloses \in Nat BY RouterAssumption
  <2>2. /\ aborted \in [Requests -> BOOLEAN] /\ stage \in [Requests -> Stages]
        /\ verdict \in [Requests -> Codes \cup {"ok"}]
        /\ socket \in [Requests -> [Attempts -> Sockets]] /\ space \in [Requests -> Spaces]
    BY DEF Init, CallInit, Stages, Sockets, Spaces
  <2>3. /\ route \in [Features -> [provider: Providers \cup {None}, model: Models]]
        /\ diag \in [Providers -> [status: DiagStatuses, model: Models, rev: Nat]]
        /\ phase \in [Requests -> Phases] /\ disturbances \in Nat
    BY <1>0, <1>1, <1>2 DEF DiagStatuses, Phases
  <2>4. /\ rows \in [Requests -> [Attempts -> Marks]]
        /\ snap \in [Requests -> [provider: Providers \cup {None}, rev: Nat]]
        /\ turn \in [Requests -> 0..MaxAttempts]
        /\ answer \in [Requests -> Codes \cup {"", "accepted"}]
    <3>1. /\ rows = [r \in Requests |-> [n \in Attempts |-> "none"]]
          /\ snap = [r \in Requests |-> [provider |-> None, rev |-> 0]]
          /\ turn = [r \in Requests |-> 0] /\ answer = [r \in Requests |-> ""]
      BY DEF Init
    <3>2. [provider |-> None, rev |-> 0] \in [provider: Providers \cup {None}, rev: Nat] OBVIOUS
    <3>3. 0 \in 0..MaxAttempts BY DEF MaxAttempts
    <3> QED BY <3>1, <3>2, <3>3 DEF Marks
  <2>5. /\ active \in [Providers -> Int] /\ queue \in [Providers -> Seq(Requests)]
        /\ stopped \in BOOLEAN /\ drain \in {"no", "waiting", "done", "failed"}
        /\ closes \in 0..MaxCloses
    <3>1. /\ active = [p \in Providers |-> 0] /\ queue = [p \in Providers |-> <<>>]
          /\ stopped = FALSE /\ drain = "no" /\ closes = 0
      BY DEF Init
    <3>2. queue \in [Providers -> Seq(Requests)] BY <2>1, <3>1, Zenon
    <3>3. active \in [Providers -> Int] BY <3>1
    <3>4. 0 \in 0..MaxCloses BY <2>1
    <3> QED BY <3>1, <3>2, <3>3, <3>4
  <2> QED BY <2>2, <2>3, <2>4, <2>5 DEF TypeInv
<1>4. QueueInv
  <2>1. \A p \in Providers : Waiting(p) = {} /\ Holding(p) = {}
    BY <1>1 DEF Waiting, Holding
  <2>2. \A p \in Providers : queue[p] = <<>> /\ active[p] = 0 BY DEF Init
  <2>3. \A p \in Providers : 0 <= Limit(p) BY DEF Limit
  <2> QED BY <2>1, <2>2, <2>3, LineEmpty, FS_EmptySet DEF QueueInv
<1>5. ASSUME NEW r \in Requests PROVE ReqInv(r)
  <2>1. phase[r] \in {"idle", "unmade"} BY <1>1
  <2>2. /\ stage[r] = "none" /\ space[r] = "none" /\ turn[r] = 0 /\ answer[r] = ""
        /\ \A n \in Attempts : rows[r][n] = "none" /\ socket[r][n] = "none"
        /\ ~stopped
    BY DEF Init, CallInit
  <2>3. \A n \in Attempts : ~(n <= 0) BY DEF Attempts, MaxAttempts
  <2>4. RowInv(r) BY <2>1, <2>2, <2>3 DEF RowInv, Before
  <2>5. CallInv(r) BY <2>1, <2>2 DEF CallInv
  <2>6. DiagInv(r) /\ StopInv(r) BY <2>1, <2>2 DEF DiagInv, StopInv, Busy, Held
  <2> QED BY <2>4, <2>5, <2>6 DEF ReqInv
<1> QED BY <1>3, <1>4, <1>5 DEF Inv

-----------------------------------------------------------------------------
(* What the steps have in common.                                          *)

\* A diagnostic only ever gets a higher revision.
DiagGrows == \A p \in Providers : diag'[p] = diag[p] \/ diag'[p].rev > diag[p].rev

\* Nothing happens to a request, but for a lease it may be granted.
Untouched(q) ==
  /\ aborted'[q] = aborted[q] /\ stage'[q] = stage[q] /\ verdict'[q] = verdict[q]
  /\ socket'[q] = socket[q] /\ space'[q] = space[q]
  /\ rows'[q] = rows[q] /\ snap'[q] = snap[q] /\ turn'[q] = turn[q] /\ answer'[q] = answer[q]
  /\ phase'[q] = phase[q] \/ (phase[q] = "queued" /\ phase'[q] = "granted")

LEMMA Bystander ==
  ASSUME TypeInv, NEW q \in Requests, ReqInv(q), Untouched(q), DiagGrows, UNCHANGED stopped,
         diag' \in [Providers -> [status: DiagStatuses, model: Models, rev: Nat]]
  PROVE  ReqInv(q)'
<1>1. RowInv(q)' BY DEF ReqInv, RowInv, Untouched, Before
<1>2. CallInv(q)' BY DEF ReqInv, CallInv, Untouched
<1>3. DiagInv(q)'
  <2>1. snap[q].rev \in Nat BY DEF TypeInv
  <2>2. \A p \in Providers : diag[p].rev \in Nat BY DEF TypeInv
  <2>3. snap'[q] = snap[q] /\ answer'[q] = answer[q] BY DEF Untouched
  <2>4. phase'[q] \in Busy => phase[q] \in Busy BY DEF Untouched, Busy, Held
  <2>5. DiagInv(q) BY DEF ReqInv
  <2>6. diag' \in [Providers -> [status: DiagStatuses, model: Models, rev: Nat]]
    OBVIOUS
  <2> QED BY <2>1, <2>2, <2>3, <2>4, <2>5, <2>6 DEF DiagInv, DiagGrows
<1>4. StopInv(q)' BY DEF ReqInv, StopInv, Untouched, Busy, Held
<1> QED BY <1>1, <1>2, <1>3, <1>4 DEF ReqInv

LEMMA HoldingFinite ==
  \A p : IsFiniteSet(Holding(p)) /\ Cardinality(Holding(p)) \in Nat
<1> SUFFICES ASSUME NEW p PROVE IsFiniteSet(Holding(p)) /\ Cardinality(Holding(p)) \in Nat
  OBVIOUS
<1>1. Holding(p) \in SUBSET Requests BY DEF Holding
<1> QED BY <1>1, FS_Subset, FS_CardinalityType, RouterAssumption

\* Nobody comes to wait or to hold, and nobody goes.
LEMMA QueueSame ==
  ASSUME QueueInv, UNCHANGED <<snap, active, queue, stopped>>,
         \A r \in Requests : (phase'[r] \in Held <=> phase[r] \in Held)
                           /\ (phase'[r] = "queued" <=> phase[r] = "queued")
  PROVE  QueueInv'
<1>1. \A p : Holding(p)' = Holding(p) /\ Waiting(p)' = Waiting(p)
  BY DEF Holding, Waiting, Held
<1> QED BY <1>1 DEF QueueInv

\* Who holds a lease and who waits, after a step that leaves the snapshots alone.
LEMMA Places ==
  ASSUME UNCHANGED snap, NEW q \in Requests, NEW o
  PROVE  /\ q \in Holding(o) <=> phase[q] \in Held /\ snap[q].provider = o
         /\ q \in Holding(o)' <=> phase'[q] \in Held /\ snap[q].provider = o
         /\ q \in Waiting(o) <=> phase[q] = "queued" /\ snap[q].provider = o
         /\ q \in Waiting(o)' <=> phase'[q] = "queued" /\ snap[q].provider = o
BY DEF Holding, Waiting, Held

LEMMA PlacesAre ==
  \A o : /\ Holding(o) \subseteq Requests /\ Holding(o)' \subseteq Requests
         /\ Waiting(o) \subseteq Requests /\ Waiting(o)' \subseteq Requests
BY DEF Holding, Waiting

\* A request that holds a lease goes, and the first in line has it.
LEMMA LeaveFacts ==
  ASSUME TypeInv, QueueInv, NEW r \in Requests, DiagInv(r), phase[r] \in Held,
         NEW code, Leave(r, code), UNCHANGED <<snap, stopped>>
  PROVE  /\ phase' \in [Requests -> Phases] /\ active' \in [Providers -> Int]
         /\ queue' \in [Providers -> Seq(Requests)]
         /\ answer' = [answer EXCEPT ![r] = code] /\ phase'[r] = "settled"
         /\ \A q \in Requests \ {r} :
              phase'[q] = phase[q] \/ (phase[q] = "queued" /\ phase'[q] = "granted")
         /\ QueueInv'
<1>0. PICK p \in Providers : p = snap[r].provider BY DEF DiagInv, Busy
<1> DEFINE handed == queue[p] # <<>> /\ ~stopped
           h == Head(queue[p])
<1>1. /\ p \in Providers /\ queue[p] \in Seq(Requests) /\ phase \in [Requests -> Phases]
      /\ p = snap[r].provider /\ phase[r] # "queued" /\ snap' = snap /\ stopped' = stopped
  BY <1>0 DEF TypeInv, Held
<1>2. /\ Release(p) /\ answer' = [answer EXCEPT ![r] = code]
      /\ phase' = [q \in Requests |-> IF q = r THEN "settled"
                                     ELSE IF handed /\ q = h THEN "granted" ELSE phase[q]]
  BY <1>0 DEF Leave
<1>3. r \in Holding(p) /\ r \notin Waiting(p) BY <1>0 DEF Holding, Waiting, Held
<1>4. handed => /\ h \in Waiting(p) /\ Tail(queue[p]) \in Seq(Requests)
                /\ Line(Tail(queue[p]), Waiting(p) \ {h})
  BY <1>1, LineTail DEF QueueInv
<1>5. handed => h \in Requests /\ h # r /\ phase[h] = "queued" /\ snap[h].provider = p
  BY <1>3, <1>4 DEF Waiting
<1>6. phase' \in [Requests -> Phases] /\ phase'[r] = "settled" BY <1>1, <1>2 DEF Phases
<1>7. IF handed THEN queue' = [queue EXCEPT ![p] = Tail(@)] /\ active' = active
      ELSE active' = [active EXCEPT ![p] = @ - 1] /\ queue' = queue
  BY <1>2 DEF Release
<1>8. ~handed => stopped \/ queue[p] = <<>> OBVIOUS
<1>9. \A q \in Requests \ {r} : phase'[q] = IF handed /\ q = h THEN "granted" ELSE phase[q]
  BY <1>2
<1> HIDE DEF h, handed
<1>10. active' \in [Providers -> Int]
  <2>1. active \in [Providers -> Int] BY DEF TypeInv
  <2>2. CASE handed BY <1>7, <2>1, <2>2
  <2>3. CASE ~handed BY <1>1, <1>7, <2>1, <2>3
  <2> QED BY <2>2, <2>3
<1>11. queue' \in [Providers -> Seq(Requests)]
  <2>1. queue \in [Providers -> Seq(Requests)] BY DEF TypeInv
  <2>2. CASE handed BY <1>4, <1>7, <2>1, <2>2, Zenon
  <2>3. CASE ~handed BY <1>7, <2>1, <2>3
  <2> QED BY <2>2, <2>3
<1>12. \A q \in Requests \ {r} :
         phase'[q] = phase[q] \/ (phase[q] = "queued" /\ phase'[q] = "granted")
  BY <1>5, <1>9
<1>13. ASSUME NEW o \in Providers, o # p
       PROVE  /\ Holding(o)' = Holding(o) /\ Waiting(o)' = Waiting(o)
              /\ active'[o] = active[o] /\ queue'[o] = queue[o]
  <2>1. active'[o] = active[o] /\ queue'[o] = queue[o] BY <1>7, <1>13 DEF TypeInv
  <2>2. \A q \in Requests : snap[q].provider = o => phase'[q] = phase[q]
    BY <1>1, <1>5, <1>9, <1>13
  <2>3. ASSUME NEW q \in Requests
        PROVE  (q \in Holding(o)' <=> q \in Holding(o)) /\ (q \in Waiting(o)' <=> q \in Waiting(o))
    BY <1>1, <2>2, Places
  <2>4. Holding(o)' = Holding(o) /\ Waiting(o)' = Waiting(o) BY <2>3, PlacesAre
  <2> QED BY <2>1, <2>4
<1>14. active[p] \in Int /\ Limit(p) \in Int
  <2>1. active \in [Providers -> Int] BY DEF TypeInv
  <2>2. Limit(p) \in {1, 2} BY DEF Limit
  <2> QED BY <2>1, <2>2
<1>15. /\ active[p] = Cardinality(Holding(p)) /\ active[p] <= Limit(p)
       /\ Line(queue[p], Waiting(p))
       /\ Waiting(p) # {} => active[p] = Limit(p) /\ ~stopped
  BY <1>1 DEF QueueInv
<1>16. CASE handed
  <2>1. ASSUME NEW q \in Requests
        PROVE  /\ q \in Holding(p)' <=> q \in (Holding(p) \ {r}) \cup {h}
               /\ q \in Waiting(p)' <=> q \in Waiting(p) \ {h}
    <3>1. CASE q = r BY <1>1, <1>5, <1>6, <1>16, <3>1, Places DEF Held
    <3>2. CASE q = h
      <4>1. phase'[q] = "granted" /\ snap[q].provider = p /\ q # r BY <1>5, <1>9, <1>16, <3>2
      <4>2. q \in Holding(p)' /\ q \notin Waiting(p)' BY <1>1, <4>1, Places DEF Held
      <4> QED BY <3>2, <4>2
    <3>3. CASE q # r /\ q # h
      <4>1. phase'[q] = phase[q] BY <1>9, <3>3
      <4>2. (q \in Holding(p)' <=> q \in Holding(p)) /\ (q \in Waiting(p)' <=> q \in Waiting(p))
        BY <1>1, <4>1, Places
      <4> QED BY <3>3, <4>2
    <3> QED BY <3>1, <3>2, <3>3
  <2>2. Holding(p)' = (Holding(p) \ {r}) \cup {h} /\ Waiting(p)' = Waiting(p) \ {h}
    BY <1>5, <1>16, <2>1, PlacesAre
  <2>3. h \notin Holding(p) BY <1>1, <1>5, <1>16, Places DEF Held
  <2>4. Cardinality(Holding(p)') = Cardinality(Holding(p))
    <3>1. /\ IsFiniteSet(Holding(p) \ {r})
          /\ Cardinality(Holding(p) \ {r}) = Cardinality(Holding(p)) - 1
      BY <1>3, HoldingFinite, FS_RemoveElement
    <3>2. Cardinality((Holding(p) \ {r}) \cup {h}) = Cardinality(Holding(p) \ {r}) + 1
      BY <2>3, <3>1, FS_AddElement
    <3> QED BY <2>2, <3>1, <3>2, HoldingFinite
  <2>5. queue'[p] = Tail(queue[p]) /\ active' = active BY <1>1, <1>7, <1>16 DEF TypeInv
  <2>6. /\ Line(queue'[p], Waiting(p)')
        /\ active'[p] = Cardinality(Holding(p)') /\ active'[p] <= Limit(p)
        /\ Waiting(p)' # {} => active'[p] = Limit(p) /\ ~stopped'
    <3>1. Line(queue'[p], Waiting(p)') BY <1>4, <1>16, <2>2, <2>5
    <3>2. Waiting(p) # {} BY <1>4, <1>16
    <3> QED BY <1>1, <1>15, <2>4, <2>5, <3>1, <3>2
  <2>7. QueueInv'
    <3> SUFFICES ASSUME NEW o \in Providers, o # p
        PROVE  /\ Line(queue'[o], Waiting(o)')
               /\ active'[o] = Cardinality(Holding(o)') /\ active'[o] <= Limit(o)
               /\ Waiting(o)' # {} => active'[o] = Limit(o) /\ ~stopped'
      BY <1>1, <2>6 DEF QueueInv
    <3> QED BY <1>1, <1>13 DEF QueueInv
  <2> QED BY <1>2, <1>6, <1>10, <1>11, <1>12, <2>7
<1>17. CASE ~handed
  <2>1. ASSUME NEW q \in Requests
        PROVE  /\ q \in Holding(p)' <=> q \in Holding(p) \ {r}
               /\ q \in Waiting(p)' <=> q \in Waiting(p)
    <3>1. CASE q = r BY <1>1, <1>6, <3>1, Places DEF Held
    <3>2. CASE q # r
      <4>1. phase'[q] = phase[q] BY <1>9, <1>17, <3>2
      <4>2. (q \in Holding(p)' <=> q \in Holding(p)) /\ (q \in Waiting(p)' <=> q \in Waiting(p))
        BY <1>1, <4>1, Places
      <4> QED BY <3>2, <4>2
    <3> QED BY <3>1, <3>2
  <2>2. Holding(p)' = Holding(p) \ {r} /\ Waiting(p)' = Waiting(p) BY <2>1, PlacesAre
  <2>3. Cardinality(Holding(p)') = Cardinality(Holding(p)) - 1
    BY <1>3, <2>2, HoldingFinite, FS_RemoveElement
  <2>4. active'[p] = active[p] - 1 /\ queue' = queue BY <1>1, <1>7, <1>17 DEF TypeInv
  <2>5. Waiting(p) = {}
    <3>1. CASE stopped BY <1>15, <3>1
    <3>2. CASE queue[p] = <<>> BY <1>15, <3>2 DEF Line
    <3> QED BY <1>8, <1>17, <3>1, <3>2
  <2>6. /\ Line(queue'[p], Waiting(p)')
        /\ active'[p] = Cardinality(Holding(p)') /\ active'[p] <= Limit(p)
        /\ Waiting(p)' # {} => active'[p] = Limit(p) /\ ~stopped'
    <3>1. Line(queue'[p], Waiting(p)') BY <1>15, <2>2, <2>4
    <3>2. active'[p] = Cardinality(Holding(p)') BY <1>15, <2>3, <2>4
    <3>3. active'[p] <= Limit(p) BY <1>14, <1>15, <2>4
    <3> QED BY <2>2, <2>5, <3>1, <3>2, <3>3
  <2>7. QueueInv'
    <3> SUFFICES ASSUME NEW o \in Providers, o # p
        PROVE  /\ Line(queue'[o], Waiting(o)')
               /\ active'[o] = Cardinality(Holding(o)') /\ active'[o] <= Limit(o)
               /\ Waiting(o)' # {} => active'[o] = Limit(o) /\ ~stopped'
      BY <1>1, <2>6 DEF QueueInv
    <3> QED BY <1>1, <1>13 DEF QueueInv
  <2> QED BY <1>2, <1>6, <1>10, <1>11, <1>12, <2>7
<1> QED BY <1>16, <1>17

\* One that waits goes away.
LEMMA OutFacts ==
  ASSUME TypeInv, QueueInv, NEW r \in Requests, DiagInv(r), phase[r] = "queued",
         phase' = [phase EXCEPT ![r] = "settled"], queue' = OutOfQueue(r),
         UNCHANGED <<snap, active, stopped>>
  PROVE  queue' \in [Providers -> Seq(Requests)] /\ QueueInv'
<1> DEFINE p == snap[r].provider
           n == CHOOSE i \in DOMAIN queue[p] : queue[p][i] = r
<1>1. /\ p \in Providers /\ queue[p] \in Seq(Requests) /\ phase \in [Requests -> Phases]
      /\ p = snap[r].provider /\ snap' = snap
  BY DEF DiagInv, Busy, TypeInv
<1>2. r \in Waiting(p) /\ Line(queue[p], Waiting(p)) BY <1>1 DEF Waiting, QueueInv
<1>3. \E i \in DOMAIN queue[p] : queue[p][i] = r
  <2>1. DOMAIN queue[p] = 1..Len(queue[p]) BY <1>1
  <2> QED BY <1>2, <2>1 DEF Line
<1>4. n \in DOMAIN queue[p] /\ queue[p][n] = r BY <1>3, Zenon
<1>5. n \in 1..Len(queue[p]) BY <1>1, <1>4
<1>6. queue' = [queue EXCEPT ![p] = RemoveAt(@, n)] BY DEF OutOfQueue
<1> HIDE DEF p, n
<1>7. /\ RemoveAt(queue[p], n) \in Seq(Requests)
      /\ Line(RemoveAt(queue[p], n), Waiting(p) \ {queue[p][n]})
  BY <1>1, <1>2, <1>5, LineRemove
<1>8. queue' \in [Providers -> Seq(Requests)] /\ queue'[p] = RemoveAt(queue[p], n)
      /\ \A o \in Providers \ {p} : queue'[o] = queue[o]
  BY <1>1, <1>6, <1>7 DEF TypeInv
<1>9. ASSUME NEW o \in Providers
      PROVE  /\ Holding(o)' = Holding(o)
             /\ Waiting(o)' = IF o = p THEN Waiting(o) \ {r} ELSE Waiting(o)
  <2>1. ASSUME NEW q \in Requests
        PROVE  /\ q \in Holding(o)' <=> q \in Holding(o)
               /\ q \in Waiting(o)' <=> q \in Waiting(o) /\ q # r
    <3>1. CASE q = r
      <4>1. phase'[q] = "settled" BY <1>1, <3>1
      <4> QED BY <1>1, <3>1, <4>1, Places DEF Held
    <3>2. CASE q # r
      <4>1. phase'[q] = phase[q] BY <1>1, <3>2
      <4> QED BY <1>1, <3>2, <4>1, Places
    <3> QED BY <3>1, <3>2
  <2>2. o # p => r \notin Waiting(o) BY <1>1, Places
  <2> QED BY <2>1, <2>2, PlacesAre
<1>10. ASSUME NEW o \in Providers
       PROVE  /\ Line(queue'[o], Waiting(o)')
              /\ active'[o] = Cardinality(Holding(o)') /\ active'[o] <= Limit(o)
              /\ Waiting(o)' # {} => active'[o] = Limit(o) /\ ~stopped'
  <2>1. CASE o = p
    <3>1. Line(queue'[o], Waiting(o)') BY <1>4, <1>7, <1>8, <1>9, <2>1
    <3> QED BY <1>2, <1>9, <2>1, <3>1 DEF QueueInv
  <2>2. CASE o # p BY <1>8, <1>9, <2>2 DEF QueueInv
  <2> QED BY <2>1, <2>2
<1> QED BY <1>8, <1>10 DEF QueueInv

-----------------------------------------------------------------------------
(* The steps of a call.                                                    *)

CallTypes ==
  /\ aborted \in [Requests -> BOOLEAN]
  /\ stage \in [Requests -> Stages]
  /\ verdict \in [Requests -> Codes \cup {"ok"}]
  /\ socket \in [Requests -> [Attempts -> Sockets]]
  /\ space \in [Requests -> Spaces]

OtherCalls(r) ==
  \A q \in Requests \ {r} :
    /\ aborted'[q] = aborted[q] /\ stage'[q] = stage[q] /\ verdict'[q] = verdict[q]
    /\ socket'[q] = socket[q] /\ space'[q] = space[q]

LEMMA AtFacts ==
  ASSUME TypeInv, NEW r \in Requests, NEW s \in Stages, At(r, s)
  PROVE  /\ stage' \in [Requests -> Stages] /\ stage'[r] = s
         /\ \A q \in Requests \ {r} : stage'[q] = stage[q]
BY DEF TypeInv, At

LEMMA VerdictFacts ==
  ASSUME TypeInv, NEW r \in Requests, NEW code \in Codes \cup {"ok"},
         verdict' = [verdict EXCEPT ![r] = code]
  PROVE  /\ verdict' \in [Requests -> Codes \cup {"ok"}] /\ verdict'[r] = code
         /\ \A q \in Requests \ {r} : verdict'[q] = verdict[q]
<1>1. verdict \in [Requests -> Codes \cup {"ok"}] BY DEF TypeInv
<1> QED BY <1>1, Zenon

LEMMA OverFacts ==
  ASSUME TypeInv, NEW r \in Requests, NEW code \in Codes \cup {"ok"}, Over(r, code)
  PROVE  /\ stage' \in [Requests -> Stages] /\ stage'[r] = "over"
         /\ verdict' \in [Requests -> Codes \cup {"ok"}] /\ verdict'[r] = code
         /\ \A q \in Requests \ {r} : stage'[q] = stage[q] /\ verdict'[q] = verdict[q]
<1>1. "over" \in Stages BY DEF Stages
<1>2. At(r, "over") /\ verdict' = [verdict EXCEPT ![r] = code] BY DEF Over
<1> QED BY <1>1, <1>2, AtFacts, VerdictFacts

LEMMA SocketFacts ==
  ASSUME TypeInv, NEW r \in Requests, NEW n \in Attempts, NEW s \in Sockets, Socket(r, n, s)
  PROVE  /\ socket' \in [Requests -> [Attempts -> Sockets]]
         /\ \A k \in Attempts : socket'[r][k] = IF k = n THEN s ELSE socket[r][k]
         /\ \A q \in Requests \ {r} : socket'[q] = socket[q]
<1>1. socket \in [Requests -> [Attempts -> Sockets]] BY DEF TypeInv
<1>2. socket' = [socket EXCEPT ![r] = [socket[r] EXCEPT ![n] = s]] BY DEF Socket
<1> QED BY <1>1, <1>2

LEMMA SpaceFacts ==
  ASSUME TypeInv, NEW r \in Requests, NEW s \in Spaces, space' = [space EXCEPT ![r] = s]
  PROVE  /\ space' \in [Requests -> Spaces] /\ space'[r] = s
         /\ \A q \in Requests \ {r} : space'[q] = space[q]
BY DEF TypeInv

LEMMA Turns ==
  /\ MaxAttempts = 2 /\ Attempts = {1, 2}
  /\ TypeInv => \A r \in Requests : turn[r] \in {0, 1, 2}
<1>1. MaxAttempts = 2 /\ Attempts = {1, 2} BY DEF Attempts, MaxAttempts
<1>2. ASSUME TypeInv, NEW r \in Requests PROVE turn[r] \in {0, 1, 2}
  <2>1. turn[r] \in 0..2 BY <1>1, <1>2 DEF TypeInv
  <2> QED BY <2>1
<1> QED BY <1>1, <1>2

\* What a call may fail with are codes.
LEMMA ReadingCodes ==
  ASSUME NEW p \in ApiProviders
  PROVE  /\ Refusals(p) \subseteq Codes
         /\ \A b \in Bodies : Reading(p, b) \in Codes \cup {"ok"}
         /\ \A s, e : Class(p, s, e) \in Codes
<1>1. p = "openai_api" \/ p = "claude_api" \/ p = "gemini_api" BY DEF ApiProviders
<1>2. Refusals(p) \subseteq Codes
  BY <1>1 DEF Refusals, OpenAiRefusals, AnthropicRefusals, GeminiRefusals, Codes
<1>3. \A b : Reading(p, b) \in Codes \cup {"ok"}
  BY <1>1 DEF Reading, OpenAiReading, AnthropicReading, GeminiReading, Codes
<1>4. \A s, e : Class(p, s, e) \in Codes
  BY <1>1 DEF Class, OpenAiClass, AnthropicClass, GeminiClass, Codes
<1> QED BY <1>2, <1>3, <1>4

LEMMA MachineCodes ==
  /\ SourceFails \cup MediaFails \cup SecretFails \cup RequestFails \subseteq Codes
  /\ \A s : StatusCode(s) \in Codes
BY DEF SourceFails, MediaFails, SecretFails, RequestFails, StatusCode, Codes

\* A step of a call that ends it while nothing of it is on disk.
LEMMA CallEnds ==
  ASSUME TypeInv, NEW r \in Requests, ReqInv(r), NEW code \in Codes \cup {"ok"}, Over(r, code),
         phase[r] = "calling", UNCHANGED <<aborted, space, phase, turn, answer, snap>>,
         stage[r] \notin {"copying", "reading", "cleaning", "over"},
         \/ UNCHANGED socket /\ stage[r] \notin {"body", "errorBody"}
         \/ Socket(r, turn[r], "none")
  PROVE  CallTypes' /\ OtherCalls(r) /\ CallInv(r)'
<1>1. /\ turn[r] \in Attempts /\ "none" \in Sockets
      /\ stage' \in [Requests -> Stages] /\ stage'[r] = "over"
      /\ verdict' \in [Requests -> Codes \cup {"ok"}]
      /\ \A q \in Requests \ {r} : stage'[q] = stage[q] /\ verdict'[q] = verdict[q]
  <2>1. turn[r] # 0 BY DEF ReqInv, RowInv
  <2> QED BY <2>1, Turns, OverFacts DEF Sockets
<1>2. /\ socket' \in [Requests -> [Attempts -> Sockets]]
      /\ \A q \in Requests \ {r} : socket'[q] = socket[q]
      /\ \A n \in Attempts : socket'[r][n] # "open"
  <2>1. CASE UNCHANGED socket /\ stage[r] \notin {"body", "errorBody"}
    BY <2>1 DEF TypeInv, ReqInv, CallInv
  <2>2. CASE Socket(r, turn[r], "none")
    BY <1>1, <2>2, SocketFacts DEF ReqInv, CallInv
  <2> QED BY <2>1, <2>2
<1>3. space[r] # "made" BY DEF ReqInv, CallInv
<1>4. CallInv(r)' BY <1>1, <1>2, <1>3 DEF CallInv
<1>5. CallTypes' BY <1>1, <1>2 DEF CallTypes, TypeInv
<1> QED BY <1>1, <1>2, <1>4, <1>5 DEF OtherCalls

LEMMA LocalFacts ==
  ASSUME TypeInv, NEW r \in Requests, ReqInv(r), LocalStep(r)
  PROVE  CallTypes' /\ OtherCalls(r) /\ CallInv(r)'
<1> USE DEF Stages, Sockets, Spaces
<1>1. UNCHANGED <<phase, turn, answer, snap>> BY DEF LocalStep, routerVars
<1>2. CallInv(r) BY DEF ReqInv
<1>3. \A code \in {"ok", "CANCELLED", "EXECUTION_FAILED", "RESIDUAL_DATA", "TIMEOUT"} :
        code \in Codes \cup {"ok"}
  BY DEF Codes
<1>4. verdict \in [Requests -> Codes \cup {"ok"}] BY DEF TypeInv
<1>5. CASE MakeSpace(r)
  <2>1. stage[r] = "making" /\ phase[r] = "calling" BY <1>2, <1>5 DEF CallInv, MakeSpace
  <2>2. CASE /\ ~aborted[r] /\ At(r, "copying") /\ space' = [space EXCEPT ![r] = "made"]
             /\ UNCHANGED verdict
    <3>1. UNCHANGED <<aborted, socket, verdict>> BY <1>5, <2>2 DEF MakeSpace
    <3>2. /\ stage' \in [Requests -> Stages] /\ stage'[r] = "copying"
          /\ \A q \in Requests \ {r} : stage'[q] = stage[q]
      BY <2>2, AtFacts
    <3>3. /\ space' \in [Requests -> Spaces] /\ \A q \in Requests \ {r} : space'[q] = space[q]
      BY <2>2, SpaceFacts
    <3> QED BY <1>1, <1>2, <2>1, <3>1, <3>2, <3>3 DEF CallInv, CallTypes, OtherCalls, TypeInv
  <2>3. CASE /\ Over(r, IF aborted[r] THEN "CANCELLED" ELSE "EXECUTION_FAILED")
             /\ UNCHANGED space
    BY <1>1, <1>3, <1>5, <2>1, <2>3, CallEnds DEF MakeSpace
  <2> QED BY <1>5, <2>2, <2>3 DEF MakeSpace
<1>6. CASE CopySources(r) \/ ReadCopies(r)
  <2>1. /\ stage[r] \in {"copying", "reading"} /\ stage'[r] \in {"reading", "cleaning"}
        /\ UNCHANGED <<aborted, socket, space>>
        /\ stage' \in [Requests -> Stages] /\ \A q \in Requests \ {r} : stage'[q] = stage[q]
    BY <1>6, AtFacts DEF CopySources, ReadCopies
  <2>2. /\ verdict' \in [Requests -> Codes \cup {"ok"}]
        /\ \A q \in Requests \ {r} : verdict'[q] = verdict[q]
    <3>1. CASE UNCHANGED verdict BY <1>4, <3>1
    <3>2. ASSUME NEW code \in Codes \cup {"ok"}, verdict' = [verdict EXCEPT ![r] = code]
          PROVE <2>2!1
      BY <3>2, VerdictFacts
    <3>3. \/ UNCHANGED verdict
          \/ \E code \in Codes \cup {"ok"} : verdict' = [verdict EXCEPT ![r] = code]
      BY <1>3, <1>6, MachineCodes DEF CopySources, ReadCopies
    <3> QED BY <3>1, <3>2, <3>3
  <2> QED BY <1>1, <1>2, <2>1, <2>2 DEF CallInv, CallTypes, OtherCalls, TypeInv
<1>7. CASE CleanSpace(r)
  <2>1. stage[r] = "cleaning" /\ UNCHANGED <<aborted, socket>> BY <1>7 DEF CleanSpace
  <2>2. /\ space' \in [Requests -> Spaces] /\ space'[r] = "none"
        /\ \A q \in Requests \ {r} : space'[q] = space[q]
    BY <1>7, SpaceFacts DEF CleanSpace
  <2>3. CASE At(r, "secret") /\ UNCHANGED verdict
    <3>1. /\ stage' \in [Requests -> Stages] /\ stage'[r] = "secret"
          /\ \A q \in Requests \ {r} : stage'[q] = stage[q]
      BY <2>3, AtFacts
    <3> QED BY <1>1, <1>2, <2>1, <2>2, <2>3, <3>1 DEF CallInv, CallTypes, OtherCalls, TypeInv
  <2>4. CASE Over(r, IF verdict[r] = "ok" THEN "CANCELLED" ELSE verdict[r])
    <3>1. (IF verdict[r] = "ok" THEN "CANCELLED" ELSE verdict[r]) \in Codes \cup {"ok"}
      BY <1>3, <1>4
    <3>2. /\ stage' \in [Requests -> Stages] /\ stage'[r] = "over"
          /\ verdict' \in [Requests -> Codes \cup {"ok"}]
          /\ \A q \in Requests \ {r} : stage'[q] = stage[q] /\ verdict'[q] = verdict[q]
      BY <2>4, <3>1, OverFacts
    <3> QED BY <1>1, <1>2, <2>1, <2>2, <3>2 DEF CallInv, CallTypes, OtherCalls, TypeInv
  <2> QED BY <1>7, <2>3, <2>4 DEF CleanSpace
<1>8. CASE CleanFails(r)
  <2>1. /\ stage[r] = "cleaning" /\ UNCHANGED <<aborted, socket, space>>
        /\ stage' \in [Requests -> Stages] /\ stage'[r] = "over"
        /\ verdict' \in [Requests -> Codes \cup {"ok"}] /\ verdict'[r] = "RESIDUAL_DATA"
        /\ \A q \in Requests \ {r} : stage'[q] = stage[q] /\ verdict'[q] = verdict[q]
    BY <1>3, <1>8, OverFacts DEF CleanFails
  <2> QED BY <1>1, <1>2, <2>1 DEF CallInv, CallTypes, OtherCalls, TypeInv
<1>9. CASE KeyRefused(r)
  <2>1. stage[r] = "secret" /\ phase[r] = "calling" /\ UNCHANGED <<aborted, socket, space>>
    BY <1>2, <1>9 DEF CallInv, KeyRefused
  <2>2. PICK code \in Codes \cup {"ok"} : Over(r, code)
    BY <1>3, <1>9, MachineCodes DEF KeyRefused
  <2> QED BY <1>1, <2>1, <2>2, CallEnds
<1>10. CASE SendRequest(r, turn[r])
  <2>1. stage[r] = "secret" /\ phase[r] = "calling" /\ UNCHANGED <<aborted, verdict, space>>
    BY <1>2, <1>10 DEF CallInv, SendRequest
  <2>2. /\ stage' \in [Requests -> Stages] /\ stage'[r] = "headers"
        /\ \A q \in Requests \ {r} : stage'[q] = stage[q]
    BY <1>10, AtFacts DEF SendRequest
  <2>3. turn[r] \in Attempts BY <2>1, Turns DEF ReqInv, RowInv
  <2>4. /\ socket' \in [Requests -> [Attempts -> Sockets]]
        /\ \A k \in Attempts : socket'[r][k] = IF k = turn[r] THEN "sent" ELSE socket[r][k]
        /\ \A q \in Requests \ {r} : socket'[q] = socket[q]
    BY <1>10, <2>3, SocketFacts DEF SendRequest
  <2>5. CallTypes' /\ OtherCalls(r) BY <2>1, <2>2, <2>4 DEF CallTypes, OtherCalls, TypeInv
  <2>6. CallInv(r)'
    <3>1. \A k \in Attempts : socket'[r][k] # "open" BY <1>2, <2>1, <2>4 DEF CallInv
    <3>2. space'[r] # "made" /\ snap'[r].provider \in ApiProviders /\ phase'[r] = "calling"
      BY <1>1, <1>2, <2>1 DEF CallInv
    <3> QED BY <2>2, <3>1, <3>2 DEF CallInv
  <2> QED BY <2>5, <2>6
<1>11. CASE HttpTimeout(r, turn[r])
  <2>1. /\ stage[r] \in {"headers", "body", "errorBody"} /\ phase[r] = "calling"
        /\ Over(r, "TIMEOUT") /\ UNCHANGED <<aborted, space>>
        /\ IF stage[r] = "headers" THEN UNCHANGED socket ELSE Socket(r, turn[r], "none")
    BY <1>2, <1>11 DEF CallInv, HttpTimeout, InExchange, CutExchange
  <2> QED BY <1>1, <1>3, <2>1, CallEnds
<1>12. CASE CliEnds(r)
  <2>1. stage[r] = "cli" /\ phase[r] = "calling" /\ UNCHANGED <<aborted, socket, space>>
    BY <1>2, <1>12 DEF CallInv, CliEnds
  <2>2. PICK code \in Codes \cup {"ok"} : Over(r, code)
    BY <1>3, <1>12, RouterAssumption DEF CliEnds
  <2> QED BY <1>1, <2>1, <2>2, CallEnds
<1> QED BY <1>5, <1>6, <1>7, <1>8, <1>9, <1>10, <1>11, <1>12 DEF LocalStep

LEMMA RemoteFacts ==
  ASSUME TypeInv, NEW r \in Requests, ReqInv(r), RemoteStep(r)
  PROVE  CallTypes' /\ OtherCalls(r) /\ CallInv(r)'
<1> USE DEF Stages, Sockets, Spaces
<1>1. UNCHANGED <<phase, turn, answer, snap>> BY DEF RemoteStep, routerVars
<1>2. CallInv(r) /\ verdict \in [Requests -> Codes \cup {"ok"}] BY DEF ReqInv, TypeInv
<1>3. \A code \in {"OUTPUT_INVALID", "RESPONSE_TOO_LARGE", "EXECUTION_FAILED", "NETWORK_FAILED"} :
        code \in Codes \cup {"ok"}
  BY DEF Codes
<1>4. stage[r] \in {"headers", "body", "errorBody"} =>
        turn[r] \in Attempts /\ phase[r] = "calling" /\ snap[r].provider \in ApiProviders
  BY <1>2, Turns DEF ReqInv, RowInv, CallInv
<1>5. ASSUME NEW code \in Codes \cup {"ok"}, stage[r] \in {"headers", "body", "errorBody"},
             DropResponse(r, turn[r], code), UNCHANGED <<aborted, space>>
      PROVE  CallTypes' /\ OtherCalls(r) /\ CallInv(r)'
  BY <1>1, <1>4, <1>5, CallEnds DEF DropResponse
<1>6. ASSUME NEW s \in Statuses, Respond(r, turn[r], s)
      PROVE  CallTypes' /\ OtherCalls(r) /\ CallInv(r)'
  <2>1. stage[r] = "headers" /\ UNCHANGED <<aborted, space>> BY <1>6 DEF Respond
  <2>2. CASE \E t \in {"body", "errorBody"} :
               At(r, t) /\ Socket(r, turn[r], "open") /\ UNCHANGED verdict
    <3>1. PICK t \in {"body", "errorBody"} :
            At(r, t) /\ Socket(r, turn[r], "open") /\ UNCHANGED verdict
      BY <2>2
    <3>2. /\ stage' \in [Requests -> Stages] /\ stage'[r] = t
          /\ \A q \in Requests \ {r} : stage'[q] = stage[q]
      BY <3>1, AtFacts
    <3>3. /\ socket' \in [Requests -> [Attempts -> Sockets]]
          /\ \A k \in Attempts : socket'[r][k] = IF k = turn[r] THEN "open" ELSE socket[r][k]
          /\ \A q \in Requests \ {r} : socket'[q] = socket[q]
      BY <1>4, <2>1, <3>1, SocketFacts
    <3>4. CallTypes' /\ OtherCalls(r)
      BY <2>1, <3>1, <3>2, <3>3 DEF CallTypes, OtherCalls, TypeInv
    <3>5. CallInv(r)'
      <4>1. \A k \in Attempts : socket'[r][k] = "open" => k = turn'[r]
        BY <1>1, <1>2, <2>1, <3>3 DEF CallInv
      <4>2. space'[r] # "made" /\ snap'[r].provider \in ApiProviders /\ phase'[r] = "calling"
        BY <1>1, <1>2, <1>4, <2>1 DEF CallInv
      <4> QED BY <3>2, <4>1, <4>2 DEF CallInv
    <3> QED BY <3>4, <3>5
  <2>3. CASE \E code \in Codes \cup {"ok"} : DropResponse(r, turn[r], code)
    BY <1>5, <2>1, <2>3
  <2>4. \/ \E t \in {"body", "errorBody"} :
              At(r, t) /\ Socket(r, turn[r], "open") /\ UNCHANGED verdict
        \/ \E code \in Codes \cup {"ok"} : DropResponse(r, turn[r], code)
    BY <1>3, <1>6, MachineCodes DEF Respond
  <2> QED BY <2>2, <2>3, <2>4
<1>7. CASE TransportFails(r, turn[r]) BY <1>3, <1>5, <1>7 DEF TransportFails
<1>8. CASE ReadBody(r, turn[r], snap[r].provider)
  <2>1. stage[r] = "body" /\ UNCHANGED <<aborted, space>> BY <1>8 DEF ReadBody
  <2>2. PICK code \in Codes \cup {"ok"} : DropResponse(r, turn[r], code)
    BY <1>3, <1>4, <1>8, <2>1, ReadingCodes DEF ReadBody
  <2> QED BY <1>5, <2>1, <2>2
<1>9. CASE ReadErrorBody(r, turn[r], snap[r].provider)
  <2>1. stage[r] = "errorBody" /\ UNCHANGED <<aborted, space>> BY <1>9 DEF ReadErrorBody
  <2>2. PICK code \in Codes \cup {"ok"} : DropResponse(r, turn[r], code)
    BY <1>3, <1>4, <1>9, <2>1, ReadingCodes DEF ReadErrorBody
  <2> QED BY <1>5, <2>1, <2>2
<1>10. ASSUME NEW n \in Attempts, LateResponse(r, n, n = turn[r])
       PROVE  CallTypes' /\ OtherCalls(r) /\ CallInv(r)'
  <2>1. UNCHANGED <<aborted, stage, verdict, space>> BY <1>10 DEF LateResponse
  <2>2. /\ socket' \in [Requests -> [Attempts -> Sockets]]
        /\ \A k \in Attempts : socket'[r][k] = IF k = n THEN "none" ELSE socket[r][k]
        /\ \A q \in Requests \ {r} : socket'[q] = socket[q]
    BY <1>10, SocketFacts DEF LateResponse
  <2> QED BY <1>1, <1>2, <2>1, <2>2 DEF CallInv, CallTypes, OtherCalls, TypeInv
<1> QED BY <1>6, <1>7, <1>8, <1>9, <1>10 DEF RemoteStep

-----------------------------------------------------------------------------
(* The steps of the router.                                                *)

RestTypes ==
  /\ route \in [Features -> [provider: Providers \cup {None}, model: Models]]
  /\ diag \in [Providers -> [status: DiagStatuses, model: Models, rev: Nat]]
  /\ rows \in [Requests -> [Attempts -> Marks]]
  /\ snap \in [Requests -> [provider: Providers \cup {None}, rev: Nat]]
  /\ turn \in [Requests -> 0..MaxAttempts]
  /\ answer \in [Requests -> Codes \cup {"", "accepted"}]
  /\ stopped \in BOOLEAN /\ drain \in {"no", "waiting", "done", "failed"}
  /\ closes \in 0..MaxCloses /\ disturbances \in Nat

PlaceTypes ==
  /\ phase \in [Requests -> Phases]
  /\ active \in [Providers -> Int]
  /\ queue \in [Providers -> Seq(Requests)]

LEMMA TypeParts == TypeInv <=> CallTypes /\ RestTypes /\ PlaceTypes
BY DEF TypeInv, CallTypes, RestTypes, PlaceTypes

LEMMA TypePartsNext == TypeInv' <=> CallTypes' /\ RestTypes' /\ PlaceTypes'
BY DEF TypeInv, CallTypes, RestTypes, PlaceTypes

\* One request has a step; the others are at most handed a lease.
LEMMA OneMoves ==
  ASSUME Inv, NEW r \in Requests, \A q \in Requests \ {r} : Untouched(q), DiagGrows,
         UNCHANGED stopped, CallTypes', RestTypes', PlaceTypes', QueueInv', ReqInv(r)'
  PROVE  Inv'
<1>1. diag' \in [Providers -> [status: DiagStatuses, model: Models, rev: Nat]] BY DEF RestTypes
<1>2. \A q \in Requests \ {r} : ReqInv(q)' BY <1>1, Bystander DEF Inv
<1> QED BY <1>2, TypePartsNext DEF Inv

LEMMA CallStep ==
  ASSUME Inv, NEW r \in Requests, LocalStep(r) \/ RemoteStep(r)
  PROVE  Inv'
<1>1. UNCHANGED routerVars BY DEF LocalStep, RemoteStep
<1>2. /\ UNCHANGED route /\ UNCHANGED diag /\ UNCHANGED rows /\ UNCHANGED phase /\ UNCHANGED snap
      /\ UNCHANGED turn /\ UNCHANGED answer /\ UNCHANGED active /\ UNCHANGED queue
      /\ UNCHANGED stopped /\ UNCHANGED drain /\ UNCHANGED closes /\ UNCHANGED disturbances
  BY <1>1 DEF routerVars
<1>3. CallTypes' /\ OtherCalls(r) /\ CallInv(r)' BY LocalFacts, RemoteFacts DEF Inv
<1>4. aborted' = aborted
  BY DEF LocalStep, RemoteStep, MakeSpace, CopySources, ReadCopies, CleanSpace, CleanFails,
         KeyRefused, SendRequest, HttpTimeout, CliEnds, Respond, TransportFails, ReadBody,
         ReadErrorBody, LateResponse
<1>5. \A q \in Requests \ {r} : Untouched(q) BY <1>2, <1>3 DEF Untouched, OtherCalls
<1>6. RestTypes' /\ PlaceTypes' BY <1>2, TypeParts DEF Inv, RestTypes, PlaceTypes
<1>7. QueueInv' BY <1>2, QueueSame DEF Inv
<1>8. ReqInv(r)'
  BY <1>2, <1>3, <1>4 DEF Inv, ReqInv, RowInv, DiagInv, StopInv
<1>9. DiagGrows BY <1>2 DEF DiagGrows
<1> QED BY <1>2, <1>3, <1>5, <1>6, <1>7, <1>8, <1>9, OneMoves

\* A request that has no attempt under way settles with a failure.
LEMMA RefusedReq ==
  ASSUME NEW r \in Requests, ReqInv(r), phase[r] \in {"idle", "queued", "granted", "delay"},
         NEW code \in Codes \ {"RESIDUAL_DATA"}, phase'[r] = "settled", answer'[r] = code,
         stage'[r] = stage[r], socket'[r] = socket[r], space'[r] = space[r],
         rows'[r] = rows[r], turn'[r] = turn[r], snap'[r] = snap[r]
  PROVE  ReqInv(r)'
<1>1. code # "" /\ code # "accepted" BY DEF Codes
<1>2. stage[r] = "none" /\ space[r] # "made" BY DEF ReqInv, CallInv, RowInv
<1>3. RowInv(r)' BY <1>1 DEF ReqInv, RowInv, Before
<1>4. CallInv(r)' BY <1>2 DEF ReqInv, CallInv
<1>5. DiagInv(r)' /\ StopInv(r)' BY <1>1 DEF DiagInv, StopInv, Busy, Held
<1> QED BY <1>3, <1>4, <1>5 DEF ReqInv

LEMMA RefusalCodes ==
  ASSUME NEW r \in Requests
  PROVE  /\ Refusal(r) \in (Codes \ {"RESIDUAL_DATA"}) \cup {""}
         /\ Refusal(r) = "" => /\ route[Feature[r]].provider # None
                               /\ diag[route[Feature[r]].provider].status = "ready"
                               /\ ~aborted[r]
BY DEF Refusal, Codes

LEMMA AnswerFacts ==
  ASSUME TypeInv, NEW r \in Requests, NEW code \in Codes \cup {"accepted"},
         answer' = [answer EXCEPT ![r] = code]
  PROVE  /\ answer' \in [Requests -> Codes \cup {"", "accepted"}] /\ answer'[r] = code
         /\ \A q \in Requests \ {r} : answer'[q] = answer[q]
<1>1. answer \in [Requests -> Codes \cup {"", "accepted"}] BY DEF TypeInv
<1> QED BY <1>1, Zenon

LEMMA PhaseFacts ==
  ASSUME TypeInv, NEW r \in Requests, NEW s \in Phases, To(r, s)
  PROVE  /\ phase' \in [Requests -> Phases] /\ phase'[r] = s
         /\ \A q \in Requests \ {r} : phase'[q] = phase[q]
BY DEF TypeInv, To

LEMMA ExecuteRefusedStep ==
  ASSUME Inv, NEW r \in Requests, ExecuteRefused(r)
  PROVE  Inv'
<1> DEFINE code == IF stopped THEN "CANCELLED" ELSE Refusal(r)
<1>1. /\ code \in Codes \ {"RESIDUAL_DATA"} /\ phase[r] = "idle"
      /\ To(r, "settled") /\ answer' = [answer EXCEPT ![r] = code]
  BY RefusalCodes DEF ExecuteRefused, Settle, Codes
<1>2. /\ UNCHANGED aborted /\ UNCHANGED stage /\ UNCHANGED verdict /\ UNCHANGED socket
      /\ UNCHANGED space /\ UNCHANGED route /\ UNCHANGED diag /\ UNCHANGED rows
      /\ UNCHANGED snap /\ UNCHANGED turn /\ UNCHANGED active /\ UNCHANGED queue
      /\ UNCHANGED stopped /\ UNCHANGED drain /\ UNCHANGED closes /\ UNCHANGED disturbances
  BY DEF ExecuteRefused, callVars
<1> HIDE DEF code
<1>3. /\ answer' \in [Requests -> Codes \cup {"", "accepted"}] /\ answer'[r] = code
      /\ \A q \in Requests \ {r} : answer'[q] = answer[q]
  BY <1>1, AnswerFacts DEF Inv
<1>4. /\ phase' \in [Requests -> Phases] /\ phase'[r] = "settled"
      /\ \A q \in Requests \ {r} : phase'[q] = phase[q]
  BY <1>1, PhaseFacts DEF Inv, Phases
<1>5. CallTypes' /\ RestTypes' /\ PlaceTypes'
  BY <1>2, <1>3, <1>4, TypeParts DEF Inv, CallTypes, RestTypes, PlaceTypes
<1>6. \A q \in Requests \ {r} : Untouched(q) BY <1>2, <1>3, <1>4 DEF Untouched
<1>7. QueueInv'
  <2>1. \A q \in Requests : (phase'[q] \in Held <=> phase[q] \in Held)
                          /\ (phase'[q] = "queued" <=> phase[q] = "queued")
    BY <1>1, <1>4 DEF Held
  <2> QED BY <1>2, <2>1, QueueSame DEF Inv
<1>8. ReqInv(r)' BY <1>1, <1>2, <1>3, <1>4, RefusedReq DEF Inv
<1> QED BY <1>2, <1>5, <1>6, <1>7, <1>8, OneMoves DEF DiagGrows

LEMMA QueueTimeoutStep ==
  ASSUME Inv, NEW r \in Requests, QueueTimeout(r)
  PROVE  Inv'
<1>1. /\ phase[r] = "queued" /\ To(r, "settled") /\ answer' = [answer EXCEPT ![r] = "BUSY"]
      /\ queue' = OutOfQueue(r)
  BY DEF QueueTimeout, Settle
<1>2. /\ UNCHANGED aborted /\ UNCHANGED stage /\ UNCHANGED verdict /\ UNCHANGED socket
      /\ UNCHANGED space /\ UNCHANGED route /\ UNCHANGED diag /\ UNCHANGED rows
      /\ UNCHANGED snap /\ UNCHANGED turn /\ UNCHANGED active
      /\ UNCHANGED stopped /\ UNCHANGED drain /\ UNCHANGED closes /\ UNCHANGED disturbances
  BY DEF QueueTimeout, callVars
<1>3. "BUSY" \in Codes \ {"RESIDUAL_DATA"} /\ "settled" \in Phases BY DEF Codes, Phases
<1>4. /\ answer' \in [Requests -> Codes \cup {"", "accepted"}] /\ answer'[r] = "BUSY"
      /\ \A q \in Requests \ {r} : answer'[q] = answer[q]
  BY <1>1, <1>3, AnswerFacts DEF Inv
<1>5. /\ phase' \in [Requests -> Phases] /\ phase'[r] = "settled"
      /\ \A q \in Requests \ {r} : phase'[q] = phase[q]
  BY <1>1, <1>3, PhaseFacts DEF Inv
<1>6. queue' \in [Providers -> Seq(Requests)] /\ QueueInv'
  BY <1>1, <1>2, OutFacts DEF Inv, ReqInv, To
<1>7. CallTypes' /\ RestTypes' /\ PlaceTypes'
  BY <1>2, <1>4, <1>5, <1>6, TypeParts DEF Inv, CallTypes, RestTypes, PlaceTypes
<1>8. \A q \in Requests \ {r} : Untouched(q) BY <1>2, <1>4, <1>5 DEF Untouched
<1>9. ReqInv(r)' BY <1>1, <1>2, <1>3, <1>4, <1>5, RefusedReq DEF Inv
<1> QED BY <1>2, <1>6, <1>7, <1>8, <1>9, OneMoves DEF DiagGrows

LEMMA ExecuteStep ==
  ASSUME Inv, NEW r \in Requests, Execute(r)
  PROVE  Inv'
<1>0. /\ TypeInv /\ QueueInv /\ ReqInv(r) BY DEF Inv
<1>1. PICK p : p = route[Feature[r]].provider OBVIOUS
<1>2. /\ phase[r] = "idle" /\ ~stopped /\ ~aborted[r] /\ diag[p].status = "ready" /\ p # None
      /\ snap' = [snap EXCEPT ![r] = [provider |-> p, rev |-> diag[p].rev]]
  BY <1>1, RefusalCodes DEF Execute
<1>3. /\ UNCHANGED aborted /\ UNCHANGED stage /\ UNCHANGED verdict /\ UNCHANGED socket
      /\ UNCHANGED space /\ UNCHANGED route /\ UNCHANGED diag /\ UNCHANGED rows
      /\ UNCHANGED turn /\ UNCHANGED answer
      /\ UNCHANGED stopped /\ UNCHANGED drain /\ UNCHANGED closes /\ UNCHANGED disturbances
  BY DEF Execute, callVars
<1>4. p \in Providers
  <2>1. Feature[r] \in Features BY RouterAssumption
  <2> QED BY <1>0, <1>1, <1>2, <2>1 DEF TypeInv
<1>5. /\ snap' \in [Requests -> [provider: Providers \cup {None}, rev: Nat]]
      /\ snap'[r].provider = p /\ snap'[r].rev = diag[p].rev
      /\ \A q \in Requests \ {r} : snap'[q] = snap[q]
  BY <1>0, <1>2, <1>4 DEF TypeInv
<1>6. \/ active[p] < Limit(p) /\ To(r, "granted") /\ active' = [active EXCEPT ![p] = @ + 1]
         /\ queue' = queue
      \/ ~(active[p] < Limit(p)) /\ To(r, "queued") /\ queue' = [queue EXCEPT ![p] = Append(@, r)]
         /\ active' = active
  BY <1>1 DEF Execute
<1>7. /\ phase' \in [Requests -> Phases] /\ phase'[r] \in {"granted", "queued"}
      /\ \A q \in Requests \ {r} : phase'[q] = phase[q]
  BY <1>0, <1>6, PhaseFacts DEF Phases
<1>8. ASSUME NEW q \in Requests, NEW o \in Providers
      PROVE  /\ q # r => /\ q \in Holding(o)' <=> q \in Holding(o)
                         /\ q \in Waiting(o)' <=> q \in Waiting(o)
             /\ r \notin Holding(o) /\ r \notin Waiting(o)
             /\ r \in Holding(o)' <=> phase'[r] = "granted" /\ o = p
             /\ r \in Waiting(o)' <=> phase'[r] = "queued" /\ o = p
  BY <1>2, <1>5, <1>7 DEF Holding, Waiting
<1>9. ASSUME NEW o \in Providers, o # p
      PROVE  Holding(o)' = Holding(o) /\ Waiting(o)' = Waiting(o)
  BY <1>8, <1>9, PlacesAre
<1>10. /\ active \in [Providers -> Int] /\ queue \in [Providers -> Seq(Requests)]
       /\ Limit(p) \in Int /\ active[p] \in Int
  <2>1. Limit(p) \in {1, 2} BY DEF Limit
  <2>2. active \in [Providers -> Int] /\ queue \in [Providers -> Seq(Requests)]
    BY <1>0 DEF TypeInv
  <2>3. active[p] \in Int BY <1>4, <2>2
  <2> QED BY <2>1, <2>2, <2>3
<1>11. /\ active[p] = Cardinality(Holding(p)) /\ active[p] <= Limit(p)
       /\ Line(queue[p], Waiting(p))
       /\ Waiting(p) # {} => active[p] = Limit(p) /\ ~stopped
  BY <1>0, <1>4 DEF QueueInv
<1>12. PlaceTypes' /\ QueueInv'
  <2>1. CASE /\ active[p] < Limit(p) /\ To(r, "granted") /\ active' = [active EXCEPT ![p] = @ + 1]
             /\ queue' = queue
    <3>1. phase'[r] = "granted" BY <1>0, <2>1, PhaseFacts DEF Phases
    <3>2. Holding(p)' = Holding(p) \cup {r} /\ Waiting(p)' = Waiting(p) /\ r \notin Holding(p)
      <4>1. /\ r \in Holding(p)' /\ r \notin Waiting(p)' /\ r \notin Holding(p)
            /\ r \notin Waiting(p)
        BY <1>4, <1>8, <3>1
      <4>2. \A q \in Requests \ {r} : /\ q \in Holding(p)' <=> q \in Holding(p)
                                      /\ q \in Waiting(p)' <=> q \in Waiting(p)
        BY <1>4, <1>8
      <4> QED BY <4>1, <4>2, PlacesAre
    <3>3. Cardinality(Holding(p)') = Cardinality(Holding(p)) + 1
      BY <3>2, HoldingFinite, FS_AddElement
    <3>4. /\ active' \in [Providers -> Int] /\ active'[p] = active[p] + 1
          /\ \A o \in Providers \ {p} : active'[o] = active[o]
      <4>1. active' = [active EXCEPT ![p] = active[p] + 1] /\ active[p] + 1 \in Int
        BY <1>10, <2>1
      <4> QED BY <1>4, <1>10, <4>1
    <3>5. Waiting(p) = {}
      BY <1>10, <1>11, <2>1
    <3>6. active'[p] <= Limit(p) BY <1>10, <2>1, <3>4
    <3>7. ASSUME NEW o \in Providers
          PROVE  /\ Line(queue'[o], Waiting(o)')
                 /\ active'[o] = Cardinality(Holding(o)') /\ active'[o] <= Limit(o)
                 /\ Waiting(o)' # {} => active'[o] = Limit(o) /\ ~stopped'
      <4>1. CASE o = p
        BY <1>11, <2>1, <3>2, <3>3, <3>4, <3>5, <3>6, <4>1
      <4>2. CASE o # p BY <1>0, <1>3, <1>9, <2>1, <3>4, <4>2 DEF QueueInv
      <4> QED BY <4>1, <4>2
    <3> QED BY <1>7, <1>10, <2>1, <3>4, <3>7 DEF PlaceTypes, QueueInv
  <2>2. CASE /\ ~(active[p] < Limit(p)) /\ To(r, "queued")
             /\ queue' = [queue EXCEPT ![p] = Append(@, r)] /\ active' = active
    <3>1. phase'[r] = "queued" BY <1>0, <2>2, PhaseFacts DEF Phases
    <3>2. Holding(p)' = Holding(p) /\ Waiting(p)' = Waiting(p) \cup {r} /\ r \notin Waiting(p)
      <4>1. /\ r \notin Holding(p)' /\ r \in Waiting(p)' /\ r \notin Holding(p)
            /\ r \notin Waiting(p)
        BY <1>4, <1>8, <3>1
      <4>2. \A q \in Requests \ {r} : /\ q \in Holding(p)' <=> q \in Holding(p)
                                      /\ q \in Waiting(p)' <=> q \in Waiting(p)
        BY <1>4, <1>8
      <4> QED BY <4>1, <4>2, PlacesAre
    <3>3. queue[p] \in Seq(Requests) BY <1>4, <1>10
    <3>4. /\ Append(queue[p], r) \in Seq(Requests)
          /\ Line(Append(queue[p], r), Waiting(p) \cup {r})
      BY <1>11, <3>2, <3>3, LineAppend
    <3>5. /\ queue' \in [Providers -> Seq(Requests)] /\ queue'[p] = Append(queue[p], r)
          /\ \A o \in Providers \ {p} : queue'[o] = queue[o]
      BY <1>4, <1>10, <2>2, <3>4, Zenon
    <3>6. active[p] = Limit(p) BY <1>10, <1>11, <2>2
    <3>7. ASSUME NEW o \in Providers
          PROVE  /\ Line(queue'[o], Waiting(o)')
                 /\ active'[o] = Cardinality(Holding(o)') /\ active'[o] <= Limit(o)
                 /\ Waiting(o)' # {} => active'[o] = Limit(o) /\ ~stopped'
      <4>1. CASE o = p BY <1>2, <1>3, <1>11, <2>2, <3>2, <3>4, <3>5, <3>6, <4>1
      <4>2. CASE o # p BY <1>0, <1>3, <1>9, <2>2, <3>5, <4>2 DEF QueueInv
      <4> QED BY <4>1, <4>2
    <3> QED BY <1>7, <1>10, <2>2, <3>5, <3>7 DEF PlaceTypes, QueueInv
  <2> QED BY <1>6, <2>1, <2>2
<1>13. ReqInv(r)'
  <2>1. RowInv(r)' BY <1>0, <1>2, <1>3, <1>7 DEF ReqInv, RowInv, Before
  <2>2. CallInv(r)' BY <1>0, <1>2, <1>3, <1>7 DEF ReqInv, RowInv, CallInv
  <2>3. DiagInv(r)'
    <3>1. diag[p].rev \in Nat BY <1>0, <1>4 DEF TypeInv
    <3>2. answer'[r] # "RESIDUAL_DATA" BY <1>0, <1>2, <1>3 DEF ReqInv, RowInv
    <3> QED BY <1>2, <1>3, <1>4, <1>5, <3>1, <3>2 DEF DiagInv
  <2>4. StopInv(r)' BY <1>2, <1>3, <1>7 DEF StopInv
  <2> QED BY <2>1, <2>2, <2>3, <2>4 DEF ReqInv
<1>14. \A q \in Requests \ {r} : Untouched(q) BY <1>3, <1>5, <1>7 DEF Untouched
<1>15. CallTypes' /\ RestTypes'
  BY <1>0, <1>3, <1>5, TypeParts DEF CallTypes, RestTypes
<1> QED BY <1>3, <1>12, <1>13, <1>14, <1>15, OneMoves DEF DiagGrows

LEMMA DisturbedFacts ==
  ASSUME TypeInv, Disturbed
  PROVE  disturbances' \in Nat /\ disturbances' # disturbances
<1>1. disturbances \in Nat BY DEF TypeInv
<1> QED BY <1>1 DEF Disturbed

LEMMA QuietStep ==
  ASSUME Inv, UNCHANGED <<callVars, rows, phase, snap, turn, answer, active, queue, stopped>>,
         DiagGrows, RestTypes'
  PROVE  Inv'
<1>1. /\ UNCHANGED aborted /\ UNCHANGED stage /\ UNCHANGED verdict /\ UNCHANGED socket
      /\ UNCHANGED space /\ UNCHANGED rows /\ UNCHANGED phase /\ UNCHANGED snap
      /\ UNCHANGED turn /\ UNCHANGED answer /\ UNCHANGED active /\ UNCHANGED queue
      /\ UNCHANGED stopped
  BY DEF callVars
<1>2. CallTypes' /\ PlaceTypes' BY <1>1, TypeParts DEF Inv, CallTypes, PlaceTypes
<1>3. QueueInv' BY <1>1, QueueSame DEF Inv
<1>4. \A q \in Requests : Untouched(q) BY <1>1 DEF Untouched
<1>5. diag' \in [Providers -> [status: DiagStatuses, model: Models, rev: Nat]] BY DEF RestTypes
<1>6. \A q \in Requests : ReqInv(q)' BY <1>1, <1>4, <1>5, Bystander DEF Inv
<1> QED BY <1>2, <1>3, <1>6, TypePartsNext DEF Inv

LEMMA DrainStep ==
  ASSUME Inv, Drained \/ DrainFails
  PROVE  Inv'
<1>1. /\ drain' \in {"done", "failed"}
      /\ UNCHANGED <<callVars, rows, phase, snap, turn, answer, active, queue, stopped>>
      /\ UNCHANGED <<route, diag, closes, disturbances>>
  BY DEF Drained, DrainFails
<1>2. RestTypes' BY <1>1, TypeParts DEF Inv, RestTypes
<1> QED BY <1>1, <1>2, QuietStep DEF DiagGrows

LEMMA SaveRouteStep ==
  ASSUME Inv, NEW f \in Features, NEW p \in Providers \cup {None}, NEW m \in Models,
         SaveRoute(f, p, m)
  PROVE  Inv'
<1>1. /\ UNCHANGED <<callVars, rows, phase, snap, turn, answer, active, queue, stopped>>
      /\ UNCHANGED <<diag, drain, closes>> /\ disturbances' = disturbances - 1 /\ disturbances > 0
      /\ route' = [route EXCEPT ![f] = [provider |-> p, model |-> m]]
  BY DEF SaveRoute, Disturbed
<1>2. route' \in [Features -> [provider: Providers \cup {None}, model: Models]]
  BY <1>1 DEF Inv, TypeInv
<1>3. disturbances' \in Nat BY DisturbedFacts DEF Inv, SaveRoute
<1>4. RestTypes' BY <1>1, <1>2, <1>3, TypeParts DEF Inv, RestTypes
<1> QED BY <1>1, <1>4, QuietStep DEF DiagGrows

LEMMA CheckProviderStep ==
  ASSUME Inv, NEW p \in Providers, NEW s \in DiagStatuses, NEW m \in Models,
         CheckProvider(p, s, m)
  PROVE  Inv' /\ DiagGrows
<1>1. /\ UNCHANGED <<callVars, rows, phase, snap, turn, answer, active, queue, stopped>>
      /\ UNCHANGED <<route, drain, closes>> /\ disturbances' = disturbances - 1 /\ disturbances > 0
      /\ diag' = [diag EXCEPT ![p] = [status |-> s, model |-> m, rev |-> @.rev + 1]]
  BY DEF CheckProvider, Disturbed
<1>2. diag \in [Providers -> [status: DiagStatuses, model: Models, rev: Nat]] BY DEF Inv, TypeInv
<1>3. [status |-> s, model |-> m, rev |-> diag[p].rev + 1]
        \in [status: DiagStatuses, model: Models, rev: Nat]
  BY <1>2
<1>4. /\ diag' \in [Providers -> [status: DiagStatuses, model: Models, rev: Nat]]
      /\ \A o \in Providers : diag'[o] = diag[o] \/ diag'[o].rev > diag[o].rev
  BY <1>1, <1>2, <1>3
<1>5. disturbances' \in Nat BY DisturbedFacts DEF Inv, CheckProvider
<1>6. RestTypes' BY <1>1, <1>4, <1>5, TypeParts DEF Inv, RestTypes
<1> QED BY <1>1, <1>4, <1>6, QuietStep DEF DiagGrows

\* A write of a diagnostic.
LEMMA UpdateFacts ==
  ASSUME TypeInv, NEW r \in Requests, snap[r].provider \in Providers, NEW s \in DiagStatuses,
         UpdateDiagnostic(r, s)
  PROVE  /\ diag' \in [Providers -> [status: DiagStatuses, model: Models, rev: Nat]]
         /\ DiagGrows
         /\ diag[snap[r].provider].rev >= snap[r].rev => diag'[snap[r].provider].rev > snap[r].rev
         /\ \A p \in Providers : diag'[p] # diag[p] =>
              p = snap[r].provider /\ diag[p].rev = snap[r].rev /\ diag'[p].status = s
<1> DEFINE p == snap[r].provider
<1>1. /\ diag \in [Providers -> [status: DiagStatuses, model: Models, rev: Nat]]
      /\ p \in Providers /\ snap[r].rev \in Nat /\ diag[p].rev \in Nat
  BY DEF TypeInv
<1>2. IF diag[p].rev = snap[r].rev
      THEN diag' = [diag EXCEPT ![p].status = s, ![p].rev = @ + 1]
      ELSE diag' = diag
  BY DEF UpdateDiagnostic
<1> HIDE DEF p
<1>3. CASE diag[p].rev = snap[r].rev
  <2>1. /\ diag'[p].status = s /\ diag'[p].rev = diag[p].rev + 1
        /\ \A o \in Providers \ {p} : diag'[o] = diag[o]
        /\ diag' \in [Providers -> [status: DiagStatuses, model: Models, rev: Nat]]
    BY <1>1, <1>2, <1>3
  <2> QED BY <1>1, <1>3, <2>1 DEF DiagGrows, p
<1>4. CASE diag[p].rev # snap[r].rev
  BY <1>1, <1>2, <1>4 DEF DiagGrows, p
<1> QED BY <1>3, <1>4

\* A step in which a request hands its lease on.
LEMMA LeaveStep ==
  ASSUME Inv, NEW r \in Requests, phase[r] \in Held, NEW code \in Codes \cup {"accepted"},
         Leave(r, code), UNCHANGED <<snap, stopped, drain, closes, route, turn>>,
         CallTypes', OtherCalls(r), DiagGrows, disturbances' \in Nat,
         diag' \in [Providers -> [status: DiagStatuses, model: Models, rev: Nat]],
         rows' \in [Requests -> [Attempts -> Marks]],
         \A q \in Requests \ {r} : rows'[q] = rows[q],
         phase'[r] = "settled" /\ answer'[r] = code => ReqInv(r)'
  PROVE  Inv' /\ phase'[r] = "settled" /\ answer'[r] = code
<1>0. TypeInv /\ QueueInv /\ DiagInv(r) BY DEF Inv, ReqInv
<1>1. /\ UNCHANGED snap /\ UNCHANGED stopped /\ UNCHANGED drain /\ UNCHANGED closes
      /\ UNCHANGED route /\ UNCHANGED turn
  OBVIOUS
<1>2. /\ PlaceTypes' /\ QueueInv' /\ phase'[r] = "settled"
      /\ answer' = [answer EXCEPT ![r] = code]
      /\ \A q \in Requests \ {r} :
           phase'[q] = phase[q] \/ (phase[q] = "queued" /\ phase'[q] = "granted")
  BY <1>0, LeaveFacts DEF PlaceTypes
<1>3. /\ answer' \in [Requests -> Codes \cup {"", "accepted"}] /\ answer'[r] = code
      /\ \A q \in Requests \ {r} : answer'[q] = answer[q]
  BY <1>0, <1>2, AnswerFacts
<1>4. \A q \in Requests \ {r} : Untouched(q) BY <1>1, <1>2, <1>3 DEF Untouched, OtherCalls
<1>5. RestTypes' BY <1>0, <1>1, <1>3, TypeParts DEF RestTypes
<1> QED BY <1>1, <1>2, <1>3, <1>4, <1>5, OneMoves

\* A lease is given up before an attempt.
LEMMA GiveUpStep ==
  ASSUME Inv, NEW r \in Requests, phase[r] \in {"granted", "delay"},
         NEW code \in Codes \ {"RESIDUAL_DATA"}, Leave(r, code), disturbances' \in Nat,
         UNCHANGED <<callVars, turn, rows, route, diag, snap, stopped, drain, closes>>
  PROVE  Inv'
<1>1. /\ UNCHANGED aborted /\ UNCHANGED stage /\ UNCHANGED verdict /\ UNCHANGED socket
      /\ UNCHANGED space /\ UNCHANGED rows /\ UNCHANGED snap /\ UNCHANGED turn /\ UNCHANGED diag
  BY DEF callVars
<1>2. CallTypes' /\ OtherCalls(r) BY <1>1, TypeParts DEF Inv, CallTypes, OtherCalls
<1>3. /\ DiagGrows /\ diag' \in [Providers -> [status: DiagStatuses, model: Models, rev: Nat]]
      /\ rows' \in [Requests -> [Attempts -> Marks]]
      /\ \A q \in Requests \ {r} : rows'[q] = rows[q]
  BY <1>1, TypeParts DEF Inv, RestTypes, DiagGrows
<1>4. phase'[r] = "settled" /\ answer'[r] = code => ReqInv(r)'
  BY <1>1, RefusedReq DEF Inv
<1> QED BY <1>1, <1>2, <1>3, <1>4, LeaveStep DEF Held

LEMMA RowFacts ==
  ASSUME TypeInv, NEW r \in Requests, NEW n \in Attempts, NEW s \in Marks,
         rows' = [rows EXCEPT ![r][n] = s]
  PROVE  /\ rows' \in [Requests -> [Attempts -> Marks]]
         /\ \A k \in Attempts : rows'[r][k] = IF k = n THEN s ELSE rows[r][k]
         /\ \A q \in Requests \ {r} : rows'[q] = rows[q]
<1>1. rows \in [Requests -> [Attempts -> Marks]] BY DEF TypeInv
<1>2. rows' = [rows EXCEPT ![r] = [rows[r] EXCEPT ![n] = s]] OBVIOUS
<1> QED BY <1>1, <1>2

LEMMA BeginFacts ==
  ASSUME TypeInv, NEW r \in Requests, snap[r].provider \in Providers, EnterAdapter(r)
  PROVE  /\ CallTypes' /\ OtherCalls(r) /\ UNCHANGED <<aborted, socket, space>>
         /\ stage'[r] \in {"cli", "over", "making", "secret"}
         /\ stage'[r] \in {"making", "secret"} => snap[r].provider \in ApiProviders
<1> DEFINE p == snap[r].provider
<1>1. p \in CliProviders \/ p \in ApiProviders BY RouterAssumption
<1>2. CASE p \in CliProviders
  <2>1. At(r, "cli") /\ UNCHANGED <<aborted, verdict, socket, space>>
    BY <1>2 DEF EnterAdapter, At
  <2>2. /\ stage' \in [Requests -> Stages] /\ stage'[r] = "cli"
        /\ \A q \in Requests \ {r} : stage'[q] = stage[q]
    BY <2>1, AtFacts DEF Stages
  <2> QED BY <2>1, <2>2, TypeParts DEF CallTypes, OtherCalls
<1>3. CASE p \notin CliProviders
  <2>1. BeginCall(r, p) BY <1>3 DEF EnterAdapter
  <2>2. UNCHANGED <<aborted, socket, space>> BY <2>1 DEF BeginCall
  <2>3. ASSUME NEW code \in Codes \cup {"ok"}, Over(r, code)
        PROVE  /\ CallTypes' /\ OtherCalls(r) /\ stage'[r] = "over"
    BY <2>2, <2>3, OverFacts, TypeParts DEF CallTypes, OtherCalls
  <2>4. CASE BeginRefused(r, p)
    <3>1. PICK code \in Codes \cup {"ok"} : Over(r, code)
      BY <1>1, <1>3, <2>4, ReadingCodes DEF BeginRefused, Codes
    <3> QED BY <2>2, <2>3, <3>1
  <2>5. CASE MediaRefused(r)
    <3>1. PICK code \in Codes \cup {"ok"} : Over(r, code) BY <2>5 DEF MediaRefused, Codes
    <3> QED BY <2>2, <2>3, <3>1
  <2>6. CASE Begin(r)
    <3>1. PICK s \in {"making", "secret"} : At(r, s) BY <2>6 DEF Begin
    <3>2. /\ stage' \in [Requests -> Stages] /\ stage'[r] = s
          /\ \A q \in Requests \ {r} : stage'[q] = stage[q]
      BY <3>1, AtFacts DEF Stages
    <3>3. /\ verdict' \in [Requests -> Codes \cup {"ok"}]
          /\ \A q \in Requests \ {r} : verdict'[q] = verdict[q]
      BY <2>6, VerdictFacts DEF Begin
    <3> QED BY <1>1, <1>3, <2>2, <3>2, <3>3, TypeParts DEF CallTypes, OtherCalls
  <2> QED BY <2>1, <2>4, <2>5, <2>6 DEF BeginCall
<1> QED BY <1>2, <1>3

LEMMA BeginStep ==
  ASSUME Inv, NEW r \in Requests, phase[r] \in {"granted", "delay"}, BeginAttempt(r),
         UNCHANGED <<route, diag, snap, stopped, drain, closes>>
  PROVE  Inv'
<1>0. /\ TypeInv /\ QueueInv /\ ReqInv(r) BY DEF Inv
<1>1. CASE WriteFails /\ Leave(r, "DATABASE") /\ UNCHANGED <<callVars, turn, rows>>
  <2>1. disturbances' \in Nat /\ "DATABASE" \in Codes \ {"RESIDUAL_DATA"}
    BY <1>0, <1>1, DisturbedFacts DEF WriteFails, Codes
  <2> QED BY <1>1, <2>1, GiveUpStep
<1>2. CASE /\ NoFault
           /\ turn' = [turn EXCEPT ![r] = @ + 1]
           /\ rows' = [rows EXCEPT ![r][turn[r] + 1] = "running"]
           /\ To(r, "calling") /\ EnterAdapter(r)
           /\ UNCHANGED <<answer, active, queue>>
  <2>1. /\ snap[r].provider \in Providers /\ turn[r] \in {0, 1} /\ turn[r] + 1 \in Attempts
        /\ stage[r] = "none" /\ space[r] # "made" /\ answer[r] = ""
        /\ \A k \in Attempts : socket[r][k] # "open"
    <3>1. /\ turn[r] \in {0, 1} /\ stage[r] = "none" /\ space[r] # "made" /\ answer[r] = ""
          /\ \A k \in Attempts : socket[r][k] # "open"
      BY <1>0, Turns DEF ReqInv, RowInv, CallInv, Before
    <3>2. snap[r].provider \in Providers BY <1>0 DEF ReqInv, DiagInv, Busy, Held
    <3>3. turn[r] + 1 \in Attempts
      <4>1. CASE turn[r] = 0 BY <4>1, Turns
      <4>2. CASE turn[r] = 1 BY <4>2, Turns
      <4> QED BY <3>1, <4>1, <4>2
    <3> QED BY <3>1, <3>2, <3>3
  <2>2. /\ turn' \in [Requests -> 0..MaxAttempts] /\ turn'[r] = turn[r] + 1
        /\ \A q \in Requests \ {r} : turn'[q] = turn[q]
    <3>1. turn \in [Requests -> 0..MaxAttempts] BY <1>0 DEF TypeInv
    <3>2. turn[r] + 1 \in 0..MaxAttempts
      <4>1. CASE turn[r] = 0 BY <4>1, Turns
      <4>2. CASE turn[r] = 1 BY <4>2, Turns
      <4> QED BY <2>1, <4>1, <4>2
    <3> QED BY <1>2, <3>1, <3>2
  <2>3. /\ rows' \in [Requests -> [Attempts -> Marks]]
        /\ \A k \in Attempts :
             rows'[r][k] = IF k = turn[r] + 1 THEN "running" ELSE rows[r][k]
        /\ \A q \in Requests \ {r} : rows'[q] = rows[q]
    BY <1>0, <1>2, <2>1, RowFacts DEF Marks
  <2>4. /\ phase' \in [Requests -> Phases] /\ phase'[r] = "calling"
        /\ \A q \in Requests \ {r} : phase'[q] = phase[q]
    BY <1>0, <1>2, PhaseFacts DEF Phases
  <2>5. /\ CallTypes' /\ OtherCalls(r) /\ aborted' = aborted /\ socket' = socket /\ space' = space
        /\ stage'[r] \in {"cli", "over", "making", "secret"}
        /\ stage'[r] \in {"making", "secret"} => snap[r].provider \in ApiProviders
    BY <1>0, <1>2, <2>1, BeginFacts
  <2>6. /\ UNCHANGED diag /\ UNCHANGED snap /\ UNCHANGED stopped /\ UNCHANGED answer
        /\ UNCHANGED active /\ UNCHANGED queue /\ UNCHANGED route /\ UNCHANGED drain
        /\ UNCHANGED closes /\ UNCHANGED disturbances
    BY <1>2 DEF NoFault
  <2>7. RestTypes' /\ PlaceTypes'
    BY <1>0, <2>2, <2>3, <2>4, <2>6, TypeParts DEF RestTypes, PlaceTypes
  <2>8. QueueInv'
    <3>1. \A q \in Requests : (phase'[q] \in Held <=> phase[q] \in Held)
                            /\ (phase'[q] = "queued" <=> phase[q] = "queued")
      BY <2>4 DEF Held
    <3> QED BY <1>0, <2>6, <3>1, QueueSame
  <2>9. \A q \in Requests \ {r} : Untouched(q)
    BY <2>2, <2>3, <2>4, <2>5, <2>6 DEF Untouched, OtherCalls
  <2>10. ReqInv(r)'
    <3>1. RowInv(r)'
      <4>1. turn'[r] # 0 /\ turn'[r] \in Attempts
        <5>1. turn'[r] \in Attempts BY <2>1, <2>2
        <5> QED BY <5>1, Turns
      <4>2. \A n \in Attempts : rows'[r][n] # "none" <=> n <= turn'[r]
        <5>1. \A n \in Attempts : rows[r][n] # "none" <=> n <= turn[r]
          BY <1>0 DEF ReqInv, RowInv
        <5>2. CASE turn[r] = 0 BY <2>2, <2>3, <5>1, <5>2, Turns
        <5>3. CASE turn[r] = 1 BY <2>2, <2>3, <5>1, <5>3, Turns
        <5> QED BY <2>1, <5>2, <5>3
      <4>3. \A n \in Attempts : rows[r][n] # "completed" /\ rows[r][n] # "running"
        BY <1>0 DEF ReqInv, RowInv
      <4>4. \A n \in Attempts : /\ rows'[r][n] # "completed"
                                /\ rows'[r][n] = "running" <=> n = turn'[r]
        BY <2>2, <2>3, <4>3
      <4> QED BY <2>1, <2>4, <2>6, <4>1, <4>2, <4>4 DEF RowInv, Before
    <3>2. CallInv(r)' BY <2>1, <2>4, <2>5, <2>6 DEF CallInv
    <3>3. DiagInv(r)' BY <1>0, <2>4, <2>6 DEF ReqInv, DiagInv, Busy, Held
    <3>4. StopInv(r)' BY <1>0, <2>4, <2>5, <2>6 DEF ReqInv, StopInv, Busy, Held
    <3> QED BY <3>1, <3>2, <3>3, <3>4 DEF ReqInv
  <2> QED BY <2>5, <2>6, <2>7, <2>8, <2>9, <2>10, OneMoves DEF DiagGrows
<1> QED BY <1>1, <1>2 DEF BeginAttempt

LEMMA StartStep ==
  ASSUME Inv, NEW r \in Requests, Start(r) \/ DelayEnds(r)
  PROVE  Inv'
<1>1. CASE Start(r) /\ aborted[r]
  <2>1. /\ phase[r] = "granted" /\ Leave(r, "CANCELLED") /\ UNCHANGED disturbances
        /\ UNCHANGED <<callVars, turn, rows, route, diag, snap, stopped, drain, closes>>
    BY <1>1 DEF Start
  <2>2. disturbances' \in Nat BY <2>1 DEF Inv, TypeInv
  <2>3. "CANCELLED" \in Codes \ {"RESIDUAL_DATA"} BY DEF Codes
  <2> QED BY <2>1, <2>2, <2>3, GiveUpStep
<1>2. CASE (Start(r) /\ ~aborted[r]) \/ DelayEnds(r)
  BY <1>2, BeginStep DEF Start, DelayEnds
<1> QED BY <1>1, <1>2

LEMMA EndFacts ==
  ASSUME TypeInv, NEW r \in Requests, EndCall(r)
  PROVE  /\ CallTypes' /\ OtherCalls(r) /\ stage'[r] = "none"
         /\ aborted' = aborted /\ socket' = socket /\ space' = space
<1>1. At(r, "none") /\ aborted' = aborted /\ socket' = socket /\ space' = space
  BY DEF EndCall
<1>2. /\ stage' \in [Requests -> Stages] /\ stage'[r] = "none"
      /\ \A q \in Requests \ {r} : stage'[q] = stage[q]
  BY <1>1, AtFacts DEF Stages
<1>3. /\ verdict' \in [Requests -> Codes \cup {"ok"}]
      /\ \A q \in Requests \ {r} : verdict'[q] = verdict[q]
  BY VerdictFacts DEF EndCall
<1> QED BY <1>1, <1>2, <1>3, TypeParts DEF CallTypes, OtherCalls

\* A request settles with what its last attempt came to.
LEMMA SettledReq ==
  ASSUME TypeInv, NEW r \in Requests, ReqInv(r), Ended(r), EndCall(r),
         phase'[r] = "settled", NEW code \in Codes \cup {"accepted"}, answer'[r] = code,
         UNCHANGED <<turn, snap>>, NEW mark,
         \A k \in Attempts : rows'[r][k] = IF k = turn[r] THEN mark ELSE rows[r][k],
         IF code = "accepted" THEN mark = "completed"
         ELSE mark \in {"failed", "cancelled"} \/ (code = "DATABASE" /\ mark # "none"),
         verdict[r] = "RESIDUAL_DATA" => code \in {"RESIDUAL_DATA", "DATABASE"},
         code = "RESIDUAL_DATA" => diag'[snap[r].provider].rev > snap[r].rev
  PROVE  ReqInv(r)'
<1>1. /\ stage'[r] = "none" /\ socket' = socket /\ space' = space /\ turn' = turn /\ snap' = snap
  BY EndFacts
<1>2. /\ phase[r] = "calling" /\ stage[r] = "over" BY DEF Ended
<1>3. RowInv(r)'
  <2>1. /\ turn[r] # 0 /\ turn[r] \in Attempts /\ rows[r][turn[r]] = "running"
        /\ \A n \in Attempts : /\ rows[r][n] # "none" <=> n <= turn[r]
                               /\ rows[r][n] # "completed"
                               /\ rows[r][n] = "running" => n = turn[r]
    BY <1>2, Turns DEF ReqInv, RowInv
  <2>2. code # "" /\ mark # "none" BY DEF Codes
  <2>3. \A n \in Attempts : rows'[r][n] # "none" <=> n <= turn'[r] BY <1>1, <2>1, <2>2
  <2>4. code # "DATABASE" =>
          \A n \in Attempts : /\ rows'[r][n] # "running"
                              /\ rows'[r][n] = "completed" <=> code = "accepted" /\ n = turn'[r]
    BY <1>1, <2>1
  <2> QED BY <1>1, <2>1, <2>2, <2>3, <2>4 DEF RowInv, Before
<1>4. CallInv(r)' BY <1>1, <1>2 DEF ReqInv, CallInv
<1>5. DiagInv(r)'
  <2>1. snap[r].provider \in Providers BY <1>2 DEF ReqInv, DiagInv, Busy, Held
  <2> QED BY <1>1, <2>1 DEF DiagInv, Busy, Held
<1>6. StopInv(r)' BY DEF StopInv, Busy, Held
<1> QED BY <1>3, <1>4, <1>5, <1>6 DEF ReqInv

LEMMA RunningRow ==
  ASSUME TypeInv, NEW r \in Requests, ReqInv(r), Ended(r)
  PROVE  /\ phase[r] = "calling" /\ stage[r] = "over" /\ turn[r] \in Attempts
         /\ rows[r][turn[r]] = "running" /\ snap[r].provider \in Providers
         /\ snap[r].rev <= diag[snap[r].provider].rev
         /\ snap[r].rev \in Nat /\ diag[snap[r].provider].rev \in Nat
         /\ verdict[r] \in Codes \cup {"ok"}
<1>1. phase[r] = "calling" /\ stage[r] = "over" BY DEF Ended
<1>2. turn[r] \in Attempts /\ rows[r][turn[r]] = "running"
  BY <1>1, Turns DEF ReqInv, RowInv
<1>3. snap[r].provider \in Providers /\ snap[r].rev <= diag[snap[r].provider].rev
  BY <1>1 DEF ReqInv, DiagInv, Busy, Held
<1>4. verdict[r] \in Codes \cup {"ok"} BY DEF TypeInv
<1>5. snap[r].rev \in Nat BY DEF TypeInv
<1>6. diag[snap[r].provider].rev \in Nat BY <1>3 DEF TypeInv
<1> QED BY <1>1, <1>2, <1>3, <1>4, <1>5, <1>6

\* A call's answer is the request's, whatever becomes of the diagnostic.
LEMMA SettleStep ==
  ASSUME Inv, NEW r \in Requests, Ended(r), EndCall(r),
         NEW code \in Codes \cup {"accepted"}, Leave(r, code), DiagGrows, disturbances' \in Nat,
         UNCHANGED <<route, snap, turn, stopped, drain, closes>>,
         diag' \in [Providers -> [status: DiagStatuses, model: Models, rev: Nat]],
         NEW mark \in Marks, rows' = [rows EXCEPT ![r][turn[r]] = mark],
         IF code = "accepted" THEN mark = "completed"
         ELSE mark \in {"failed", "cancelled"} \/ (code = "DATABASE" /\ mark # "none"),
         verdict[r] = "RESIDUAL_DATA" => code \in {"RESIDUAL_DATA", "DATABASE"},
         code = "RESIDUAL_DATA" => diag'[snap[r].provider].rev > snap[r].rev
  PROVE  Inv' /\ phase'[r] = "settled" /\ answer'[r] = code
<1>1. TypeInv /\ ReqInv(r) BY DEF Inv
<1>2. phase[r] = "calling" /\ turn[r] \in Attempts BY <1>1, RunningRow
<1>3. /\ rows' \in [Requests -> [Attempts -> Marks]]
      /\ \A k \in Attempts : rows'[r][k] = IF k = turn[r] THEN mark ELSE rows[r][k]
      /\ \A q \in Requests \ {r} : rows'[q] = rows[q]
  BY <1>1, <1>2, RowFacts
<1>4. phase'[r] = "settled" /\ answer'[r] = code => ReqInv(r)'
  BY <1>1, <1>3, SettledReq, ZenonT(40)
<1>5. CallTypes' /\ OtherCalls(r) /\ aborted' = aborted BY <1>1, EndFacts
<1>6. /\ phase[r] \in Held /\ UNCHANGED <<snap, stopped, drain, closes, route, turn>>
  BY <1>2, <1>5 DEF Held
<1> QED BY <1>3, <1>4, <1>5, <1>6, LeaveStep

LEMMA AcceptStep ==
  ASSUME Inv, NEW r \in Requests, Accept(r)
  PROVE  Inv' /\ DiagGrows
<1>1. TypeInv /\ ReqInv(r) BY DEF Inv
<1>2. /\ Ended(r) /\ EndCall(r) /\ verdict[r] = "ok" /\ ~aborted[r]
      /\ rows' = [rows EXCEPT ![r][turn[r]] = "completed"] /\ "completed" \in Marks
      /\ UNCHANGED <<route, snap, turn, stopped, drain, closes>>
  BY DEF Accept, CompleteRow, Marks
<1>3. CASE NoFault /\ UpdateDiagnostic(r, "ready") /\ Leave(r, "accepted")
  <2>1. /\ diag' \in [Providers -> [status: DiagStatuses, model: Models, rev: Nat]]
        /\ DiagGrows
    BY <1>1, <1>2, <1>3, UpdateFacts, RunningRow DEF DiagStatuses
  <2>2. disturbances' \in Nat BY <1>1, <1>3 DEF NoFault, TypeInv
  <2>3. "accepted" \in Codes \cup {"accepted"} /\ "accepted" # "RESIDUAL_DATA" OBVIOUS
  <2> QED BY <1>2, <1>3, <2>1, <2>2, <2>3, SettleStep
<1>4. CASE WriteFails /\ UNCHANGED diag /\ Leave(r, "DATABASE")
  <2>1. /\ diag' \in [Providers -> [status: DiagStatuses, model: Models, rev: Nat]]
        /\ DiagGrows
    BY <1>1, <1>4 DEF TypeInv, DiagGrows
  <2>2. disturbances' \in Nat BY <1>1, <1>4, DisturbedFacts DEF WriteFails
  <2>3. "DATABASE" \in Codes \cup {"accepted"} BY DEF Codes
  <2> QED BY <1>2, <1>4, <2>1, <2>2, <2>3, SettleStep
<1> QED BY <1>3, <1>4 DEF Accept

LEMMA CompleteFailsStep ==
  ASSUME Inv, NEW r \in Requests, CompleteFails(r)
  PROVE  Inv'
<1>1. TypeInv /\ ReqInv(r) BY DEF Inv
<1>2. /\ Ended(r) /\ EndCall(r) /\ Leave(r, "DATABASE") /\ WriteFails
      /\ UNCHANGED <<route, diag, rows, snap, turn, stopped, drain, closes>>
  BY DEF CompleteFails
<1>3. rows' = [rows EXCEPT ![r][turn[r]] = "running"]
  <2>1. rows \in [Requests -> [Attempts -> Marks]] BY <1>1 DEF TypeInv
  <2>2. rows[r][turn[r]] = "running" /\ turn[r] \in Attempts BY <1>1, <1>2, RunningRow
  <2> QED BY <1>2, <2>1, <2>2
<1>4. /\ diag' \in [Providers -> [status: DiagStatuses, model: Models, rev: Nat]]
      /\ DiagGrows
  BY <1>1, <1>2 DEF TypeInv, DiagGrows
<1>5. disturbances' \in Nat BY <1>1, <1>2, DisturbedFacts DEF WriteFails
<1>6. "DATABASE" \in Codes \cup {"accepted"} /\ "running" \in Marks BY DEF Codes, Marks
<1> QED BY <1>2, <1>3, <1>4, <1>5, <1>6, SettleStep

LEMMA FailureCodes ==
  ASSUME TypeInv, NEW r \in Requests, NEW code \in AttemptFailures(r)
  PROVE  /\ code \in Codes
         /\ verdict[r] = "RESIDUAL_DATA" => code = "RESIDUAL_DATA"
         /\ code = "RESIDUAL_DATA" => verdict[r] = "RESIDUAL_DATA"
         /\ aborted[r] => code \in {"CANCELLED", "RESIDUAL_DATA"}
<1>1. verdict[r] \in Codes \cup {"ok"} BY DEF TypeInv
<1>2. CASE verdict[r] = "ok"
  <2>1. code \in {"CANCELLED", "MODEL_INCOMPATIBLE", "OUTPUT_INVALID"}
        /\ (aborted[r] => code = "CANCELLED")
    BY <1>2 DEF AttemptFailures
  <2> QED BY <1>2, <2>1 DEF Codes
<1>3. CASE verdict[r] # "ok"
  <2>1. code = FailureCode(r) BY <1>3 DEF AttemptFailures
  <2> QED BY <1>1, <1>3, <2>1 DEF FailureCode, Codes
<1> QED BY <1>2, <1>3

LEMMA TerminalStatuses ==
  \A code : /\ TerminalStatus(code) \in DiagStatuses \cup {""}
            /\ TerminalStatus("RESIDUAL_DATA") # ""
BY DEF TerminalStatus, DiagStatuses

LEMMA FailStep ==
  ASSUME Inv, NEW r \in Requests, NEW code \in AttemptFailures(r), Fail(r, code)
  PROVE  Inv' /\ DiagGrows
<1>1. TypeInv /\ QueueInv /\ ReqInv(r) BY DEF Inv
<1> DEFINE mark == IF code = "CANCELLED" THEN "cancelled" ELSE "failed"
<1>2. /\ Ended(r) /\ EndCall(r) /\ rows' = [rows EXCEPT ![r][turn[r]] = mark]
      /\ UNCHANGED <<route, snap, turn, stopped, drain, closes>>
  BY DEF Fail, CompleteRow, Completion
<1>3. mark \in Marks /\ mark \in {"failed", "cancelled"} BY DEF Marks
<1>4. /\ code \in Codes /\ code # "accepted"
      /\ verdict[r] = "RESIDUAL_DATA" <=> code = "RESIDUAL_DATA"
      /\ aborted[r] => code \in {"CANCELLED", "RESIDUAL_DATA"}
  BY <1>1, FailureCodes DEF Codes
<1> HIDE DEF mark
<1>5. CASE Retries(code, turn[r])
  <2>1. /\ To(r, "delay") /\ UNCHANGED diag /\ UNCHANGED answer /\ UNCHANGED active
        /\ UNCHANGED queue /\ UNCHANGED disturbances /\ UNCHANGED route /\ UNCHANGED snap
        /\ UNCHANGED turn /\ UNCHANGED stopped /\ UNCHANGED drain /\ UNCHANGED closes
    BY <1>5 DEF Fail, NoFault
  <2>2. /\ phase[r] = "calling" /\ stage[r] = "over" /\ turn[r] \in Attempts
        /\ rows[r][turn[r]] = "running"
    BY <1>1, <1>2, RunningRow
  <2>3. /\ code \notin {"CANCELLED", "RESIDUAL_DATA"} /\ turn[r] = 1
    BY <1>5, <2>2, Turns DEF Retries, Retryable
  <2>4. /\ ~aborted[r] /\ verdict[r] # "RESIDUAL_DATA" BY <1>4, <2>3
  <2>5. /\ phase' \in [Requests -> Phases] /\ phase'[r] = "delay"
        /\ \A q \in Requests \ {r} : phase'[q] = phase[q]
    BY <1>1, <2>1, PhaseFacts DEF Phases
  <2>6. /\ rows' \in [Requests -> [Attempts -> Marks]]
        /\ \A k \in Attempts : rows'[r][k] = IF k = turn[r] THEN mark ELSE rows[r][k]
        /\ \A q \in Requests \ {r} : rows'[q] = rows[q]
    BY <1>1, <1>2, <1>3, <2>2, RowFacts
  <2>7. /\ CallTypes' /\ OtherCalls(r) /\ stage'[r] = "none"
        /\ aborted' = aborted /\ socket' = socket /\ space' = space
    BY <1>1, <1>2, EndFacts
  <2>8. RestTypes' /\ PlaceTypes'
    BY <1>1, <2>1, <2>5, <2>6, TypeParts DEF RestTypes, PlaceTypes
  <2>9. QueueInv'
    <3>1. \A q \in Requests : (phase'[q] \in Held <=> phase[q] \in Held)
                            /\ (phase'[q] = "queued" <=> phase[q] = "queued")
      BY <2>2, <2>5 DEF Held
    <3> QED BY <1>1, <2>1, <3>1, QueueSame
  <2>10. \A q \in Requests \ {r} : Untouched(q)
    BY <2>1, <2>5, <2>6, <2>7 DEF Untouched, OtherCalls
  <2>11. RowInv(r)'
    <3>1. /\ \A n \in Attempts : /\ rows[r][n] # "none" <=> n <= turn[r]
                                 /\ rows[r][n] # "completed"
                                 /\ rows[r][n] = "running" => n = turn[r]
          /\ answer[r] = ""
      BY <1>1, <2>2 DEF ReqInv, RowInv
    <3>2. \A n \in Attempts : /\ rows'[r][n] # "none" <=> n <= turn'[r]
                              /\ rows'[r][n] # "completed" /\ rows'[r][n] # "running"
      <4>1. \A n \in Attempts : rows'[r][n] # "none" <=> rows[r][n] # "none"
        BY <1>3, <2>2, <2>6
      <4>2. \A n \in Attempts : rows'[r][n] # "completed" /\ rows'[r][n] # "running"
        BY <1>3, <2>6, <3>1
      <4> QED BY <2>1, <3>1, <4>1, <4>2
    <3> QED BY <2>1, <2>3, <2>5, <3>1, <3>2 DEF RowInv, Before
  <2>12. CallInv(r)' BY <1>1, <2>1, <2>2, <2>4, <2>5, <2>7 DEF ReqInv, CallInv
  <2>13. DiagInv(r)' BY <1>1, <2>1, <2>2 DEF ReqInv, DiagInv, Busy, Held
  <2>14. StopInv(r)' BY <1>1, <2>1, <2>2, <2>4, <2>7 DEF ReqInv, StopInv, Busy, Held
  <2> QED BY <2>1, <2>7, <2>8, <2>9, <2>10, <2>11, <2>12, <2>13, <2>14, OneMoves
          DEF ReqInv, DiagGrows
<1>6. CASE /\ NoFault /\ Leave(r, code)
           /\ IF TerminalStatus(code) = "" THEN UNCHANGED diag
              ELSE UpdateDiagnostic(r, TerminalStatus(code))
  <2>1. /\ diag' \in [Providers -> [status: DiagStatuses, model: Models, rev: Nat]]
        /\ DiagGrows
        /\ TerminalStatus(code) # "" => diag'[snap[r].provider].rev > snap[r].rev
    <3>1. CASE TerminalStatus(code) = "" BY <1>1, <1>6, <3>1 DEF TypeInv, DiagGrows
    <3>2. CASE TerminalStatus(code) # ""
      BY <1>1, <1>2, <1>6, <3>2, TerminalStatuses, UpdateFacts, RunningRow
    <3> QED BY <3>1, <3>2
  <2>2. disturbances' \in Nat BY <1>1, <1>6 DEF NoFault, TypeInv
  <2>3. code = "RESIDUAL_DATA" => diag'[snap[r].provider].rev > snap[r].rev
    BY <2>1, TerminalStatuses
  <2> QED BY <1>2, <1>3, <1>4, <1>6, <2>1, <2>2, <2>3, SettleStep
<1>7. CASE WriteFails /\ UNCHANGED diag /\ Leave(r, "DATABASE")
  <2>1. /\ diag' \in [Providers -> [status: DiagStatuses, model: Models, rev: Nat]]
        /\ DiagGrows
    BY <1>1, <1>7 DEF TypeInv, DiagGrows
  <2>2. disturbances' \in Nat BY <1>1, <1>7, DisturbedFacts DEF WriteFails
  <2>3. "DATABASE" \in Codes \cup {"accepted"} BY DEF Codes
  <2> QED BY <1>2, <1>3, <1>7, <2>1, <2>2, <2>3, SettleStep
<1> QED BY <1>5, <1>6, <1>7 DEF Fail, Lower

-----------------------------------------------------------------------------
(* Aborts.                                                                 *)

LEMMA CancelFacts ==
  ASSUME TypeInv, NEW R, CancelCalls(R, turn)
  PROVE  /\ CallTypes' /\ space' = space
         /\ \A q \in Requests :
              /\ aborted'[q] <=> aborted[q] \/ q \in R
              /\ q \notin R => /\ aborted'[q] = aborted[q] /\ stage'[q] = stage[q]
                               /\ verdict'[q] = verdict[q] /\ socket'[q] = socket[q]
              /\ \/ stage'[q] = stage[q] /\ verdict'[q] = verdict[q] /\ socket'[q] = socket[q]
                 \/ /\ stage[q] \in {"headers", "body", "errorBody"} /\ stage'[q] = "over"
                    /\ \A n \in Attempts : socket'[q][n] =
                         IF n = turn[q] /\ stage[q] # "headers" THEN "none" ELSE socket[q][n]
<1> DEFINE cut(q) == q \in R /\ ~aborted[q] /\ InExchange(q)
<1>1. /\ aborted' = [q \in Requests |-> aborted[q] \/ q \in R]
      /\ stage' = [q \in Requests |-> IF cut(q) THEN "over" ELSE stage[q]]
      /\ verdict' = [q \in Requests |-> IF cut(q) THEN "CANCELLED" ELSE verdict[q]]
      /\ socket' = [q \in Requests |-> [n \in Attempts |->
           IF cut(q) /\ n = turn[q] /\ stage[q] # "headers" THEN "none" ELSE socket[q][n]]]
      /\ space' = space
  BY DEF CancelCalls
<1>2. \A q \in Requests : cut(q) => q \in R /\ stage[q] \in {"headers", "body", "errorBody"}
  BY DEF InExchange
<1> HIDE DEF cut
<1>3. /\ aborted \in [Requests -> BOOLEAN] /\ stage \in [Requests -> Stages]
      /\ verdict \in [Requests -> Codes \cup {"ok"}]
      /\ socket \in [Requests -> [Attempts -> Sockets]] /\ space \in [Requests -> Spaces]
      /\ "over" \in Stages /\ "CANCELLED" \in Codes /\ "none" \in Sockets
  BY DEF TypeInv, Stages, Codes, Sockets
<1>4. aborted' \in [Requests -> BOOLEAN] BY <1>1, <1>3
<1>5. stage' \in [Requests -> Stages] BY <1>1, <1>3
<1>6. verdict' \in [Requests -> Codes \cup {"ok"}] BY <1>1, <1>3
<1>7. socket' \in [Requests -> [Attempts -> Sockets]] BY <1>1, <1>3
<1>8. ASSUME NEW q \in Requests
      PROVE  /\ ~cut(q) => stage'[q] = stage[q] /\ verdict'[q] = verdict[q] /\ socket'[q] = socket[q]
             /\ cut(q) => /\ stage'[q] = "over"
                          /\ \A n \in Attempts : socket'[q][n] =
                               IF n = turn[q] /\ stage[q] # "headers" THEN "none" ELSE socket[q][n]
  <2>1. CASE ~cut(q)
    <3>1. socket'[q] = [n \in Attempts |-> socket[q][n]] BY <1>1, <2>1
    <3>2. socket[q] = [n \in Attempts |-> socket[q][n]] BY <1>3
    <3> QED BY <1>1, <2>1, <3>1, <3>2
  <2>2. CASE cut(q) BY <1>1, <2>2
  <2> QED BY <2>1, <2>2
<1>9. \A q \in Requests : /\ aborted'[q] <=> aborted[q] \/ q \in R
                          /\ q \notin R => aborted'[q] = aborted[q]
  BY <1>1, <1>3
<1> QED BY <1>1, <1>2, <1>3, <1>4, <1>5, <1>6, <1>7, <1>8, <1>9 DEF CallTypes

\* A request that stays where it is when it is aborted.
LEMMA CutReq ==
  ASSUME TypeInv, NEW r \in Requests, ReqInv(r), NEW R, CancelCalls(R, turn),
         phase[r] \in {"idle", "granted", "calling", "unmade", "settled"}, phase'[r] = phase[r],
         stopped' /\ phase[r] \in Busy => aborted[r] \/ r \in R,
         answer'[r] = answer[r], UNCHANGED <<diag, rows, snap, turn>>
  PROVE  ReqInv(r)'
<1>1. /\ rows' = rows /\ snap' = snap /\ turn' = turn /\ diag' = diag /\ space' = space
  BY DEF CancelCalls
<1>2. RowInv(r)' BY <1>1 DEF ReqInv, RowInv
<1>3. CallInv(r)'
  <2>1. CASE stage'[r] = stage[r] /\ verdict'[r] = verdict[r] /\ socket'[r] = socket[r]
    BY <1>1, <2>1 DEF ReqInv, CallInv
  <2>2. CASE /\ stage[r] \in {"headers", "body", "errorBody"} /\ stage'[r] = "over"
             /\ \A n \in Attempts : socket'[r][n] =
                  IF n = turn[r] /\ stage[r] # "headers" THEN "none" ELSE socket[r][n]
    BY <1>1, <2>2 DEF ReqInv, CallInv
  <2> QED BY <2>1, <2>2, CancelFacts
<1>4. DiagInv(r)' BY <1>1 DEF ReqInv, DiagInv
<1>5. StopInv(r)'
  <2>1. aborted'[r] <=> aborted[r] \/ r \in R BY CancelFacts
  <2> QED BY <2>1 DEF StopInv, Busy, Held
<1> QED BY <1>2, <1>3, <1>4, <1>5 DEF ReqInv

LEMMA AbortStep ==
  ASSUME Inv, NEW r \in Requests, Abort(r)
  PROVE  Inv'
<1>1. TypeInv /\ QueueInv /\ ReqInv(r) BY DEF Inv
<1>2. /\ phase[r] \notin {"unmade", "settled"} /\ CancelCalls({r}, turn)
      /\ UNCHANGED route /\ UNCHANGED diag /\ UNCHANGED rows /\ UNCHANGED snap
      /\ UNCHANGED turn /\ UNCHANGED stopped /\ UNCHANGED drain /\ UNCHANGED closes
      /\ UNCHANGED disturbances
  BY DEF Abort
<1>3. /\ CallTypes' /\ OtherCalls(r) /\ space' = space
      /\ stage[r] = "none" => stage'[r] = stage[r] /\ socket'[r] = socket[r]
  BY <1>1, <1>2, CancelFacts DEF OtherCalls
<1>4. /\ DiagGrows /\ diag' \in [Providers -> [status: DiagStatuses, model: Models, rev: Nat]]
      /\ rows' \in [Requests -> [Attempts -> Marks]] /\ disturbances' \in Nat
      /\ \A q \in Requests \ {r} : rows'[q] = rows[q]
  BY <1>1, <1>2 DEF TypeInv, DiagGrows
<1>5. "CANCELLED" \in Codes \ {"RESIDUAL_DATA"} /\ "settled" \in Phases BY DEF Codes, Phases
<1>6. phase[r] # "calling" => stage[r] = "none" BY <1>1 DEF ReqInv, CallInv
<1>7. CASE phase[r] = "queued"
  <2>1. /\ To(r, "settled") /\ answer' = [answer EXCEPT ![r] = "CANCELLED"]
        /\ queue' = OutOfQueue(r) /\ UNCHANGED active
    BY <1>7 DEF Abort, Settle
  <2>2. /\ answer' \in [Requests -> Codes \cup {"", "accepted"}] /\ answer'[r] = "CANCELLED"
        /\ \A q \in Requests \ {r} : answer'[q] = answer[q]
    BY <1>1, <1>5, <2>1, AnswerFacts
  <2>3. /\ phase' \in [Requests -> Phases] /\ phase'[r] = "settled"
        /\ \A q \in Requests \ {r} : phase'[q] = phase[q]
    BY <1>1, <1>5, <2>1, PhaseFacts
  <2>4. queue' \in [Providers -> Seq(Requests)] /\ QueueInv'
    BY <1>1, <1>2, <1>7, <2>1, OutFacts DEF ReqInv, To
  <2>5. RestTypes' /\ PlaceTypes'
    BY <1>1, <1>2, <2>1, <2>2, <2>3, <2>4, TypeParts DEF RestTypes, PlaceTypes
  <2>6. \A q \in Requests \ {r} : Untouched(q)
    BY <1>2, <1>3, <2>2, <2>3 DEF Untouched, OtherCalls
  <2>7. ReqInv(r)' BY <1>1, <1>2, <1>3, <1>5, <1>6, <1>7, <2>2, <2>3, RefusedReq
  <2> QED BY <1>2, <1>3, <1>4, <2>4, <2>5, <2>6, <2>7, OneMoves
<1>8. CASE phase[r] = "delay"
  <2>1. Leave(r, "CANCELLED") BY <1>8 DEF Abort
  <2>2. phase'[r] = "settled" /\ answer'[r] = "CANCELLED" => ReqInv(r)'
    BY <1>1, <1>2, <1>3, <1>5, <1>6, <1>8, RefusedReq
  <2> QED BY <1>2, <1>3, <1>4, <1>5, <1>8, <2>1, <2>2, LeaveStep DEF Held
<1>9. CASE phase[r] \notin {"queued", "delay"}
  <2>1. /\ UNCHANGED phase /\ UNCHANGED answer /\ UNCHANGED active /\ UNCHANGED queue
    BY <1>9 DEF Abort
  <2>2. RestTypes' /\ PlaceTypes'
    BY <1>1, <1>2, <2>1, TypeParts DEF RestTypes, PlaceTypes
  <2>3. QueueInv' BY <1>1, <1>2, <2>1, QueueSame
  <2>4. \A q \in Requests \ {r} : Untouched(q) BY <1>2, <1>3, <2>1 DEF Untouched, OtherCalls
  <2>5. phase[r] \in {"idle", "granted", "calling", "unmade", "settled"}
    BY <1>1, <1>9 DEF TypeInv, Phases
  <2>6. ReqInv(r)' BY <1>1, <1>2, <2>1, <2>5, CutReq
  <2> QED BY <1>2, <1>3, <1>4, <2>2, <2>3, <2>4, <2>6, OneMoves
<1> QED BY <1>7, <1>8, <1>9

LEMMA ShutdownStep ==
  ASSUME Inv, Shutdown
  PROVE  Inv'
<1> DEFINE settling == {q \in InFlight : phase[q] \in {"queued", "delay"}}
           leaving(p) == {q \in InFlight : phase[q] = "delay" /\ snap[q].provider = p}
<1>1. TypeInv /\ QueueInv /\ \A q \in Requests : ReqInv(q) BY DEF Inv
<1>2. /\ closes' = closes + 1 /\ closes < MaxCloses /\ stopped' = TRUE /\ drain' = "waiting"
      /\ CancelCalls(InFlight, turn)
      /\ queue' = [p \in Providers |-> <<>>]
      /\ phase' = [q \in Requests |-> IF q \in settling THEN "settled" ELSE phase[q]]
      /\ answer' = [q \in Requests |-> IF q \in settling THEN "CANCELLED" ELSE answer[q]]
      /\ active' = [p \in Providers |-> active[p] - Cardinality(leaving(p))]
      /\ UNCHANGED route /\ UNCHANGED diag /\ UNCHANGED rows /\ UNCHANGED snap
      /\ UNCHANGED turn /\ UNCHANGED disturbances
  BY DEF Shutdown
<1>3. \A q \in Requests : /\ q \in InFlight <=> phase[q] \notin {"unmade", "idle", "settled"}
                          /\ q \in settling <=> phase[q] \in {"queued", "delay"}
  BY DEF InFlight
<1>4. \A q \in Requests, p \in Providers : q \in leaving(p) <=> phase[q] = "delay" /\ snap[q].provider = p
  BY DEF InFlight
<1>5. \A p : leaving(p) \subseteq Holding(p) BY DEF InFlight, Holding
<1> HIDE DEF settling, leaving
<1>6. \A q \in Requests :
        /\ phase[q] \in {"queued", "delay"} => phase'[q] = "settled" /\ answer'[q] = "CANCELLED"
        /\ phase[q] \notin {"queued", "delay"} => phase'[q] = phase[q] /\ answer'[q] = answer[q]
  BY <1>2, <1>3
<1>7. CallTypes' /\ space' = space BY <1>1, <1>2, CancelFacts
<1>8. /\ phase \in [Requests -> Phases] /\ answer \in [Requests -> Codes \cup {"", "accepted"}]
      /\ active \in [Providers -> Int] /\ queue \in [Providers -> Seq(Requests)]
      /\ closes \in 0..MaxCloses /\ MaxCloses \in Nat
  BY <1>1, RouterAssumption DEF TypeInv
<1>9. ASSUME NEW p \in Providers
      PROVE  /\ Waiting(p)' = {} /\ Holding(p)' = Holding(p) \ leaving(p)
             /\ Cardinality(leaving(p)) \in Nat
             /\ Cardinality(Holding(p)') = Cardinality(Holding(p)) - Cardinality(leaving(p))
  <2>1. Waiting(p)' = {}
    <3>1. \A q \in Requests : phase'[q] # "queued" BY <1>6
    <3> QED BY <3>1 DEF Waiting
  <2>2. Holding(p)' = Holding(p) \ leaving(p)
    <3>1. ASSUME NEW q \in Requests PROVE q \in Holding(p)' <=> q \in Holding(p) \ leaving(p)
      <4>1. CASE phase[q] \in {"queued", "delay"} BY <1>2, <1>4, <1>6, <4>1, Places DEF Held
      <4>2. CASE phase[q] \notin {"queued", "delay"} BY <1>2, <1>4, <1>6, <4>2, Places DEF Held
      <4> QED BY <4>1, <4>2
    <3> QED BY <3>1, PlacesAre
  <2>3. IsFiniteSet(Holding(p)) /\ Cardinality(Holding(p)) \in Nat BY HoldingFinite
  <2>4. /\ IsFiniteSet(leaving(p)) /\ Cardinality(leaving(p)) \in Nat
    BY <1>5, <2>3, FS_Subset, FS_CardinalityType
  <2>5. Cardinality(Holding(p) \ leaving(p))
          = Cardinality(Holding(p)) - Cardinality(Holding(p) \cap leaving(p))
    BY <2>3, <2>4, FS_Difference
  <2>6. Holding(p) \cap leaving(p) = leaving(p) BY <1>5
  <2> QED BY <2>1, <2>2, <2>4, <2>5, <2>6
<1>10. PlaceTypes'
  <2>1. phase' \in [Requests -> Phases] BY <1>2, <1>8 DEF Phases
  <2>2. active' \in [Providers -> Int]
    <3>1. \A p \in Providers : active[p] - Cardinality(leaving(p)) \in Int
      <4>1. \A p \in Providers : active[p] \in Int /\ Cardinality(leaving(p)) \in Nat
        BY <1>8, <1>9
      <4> QED BY <4>1
    <3> QED BY <1>2, <3>1
  <2>3. queue' \in [Providers -> Seq(Requests)]
    <3>1. <<>> \in Seq(Requests) OBVIOUS
    <3> QED BY <1>2, <3>1, Zenon
  <2> QED BY <2>1, <2>2, <2>3 DEF PlaceTypes
<1>11. RestTypes'
  <2>1. answer' \in [Requests -> Codes \cup {"", "accepted"}]
    <3>1. "CANCELLED" \in Codes \cup {"", "accepted"} BY DEF Codes
    <3> QED BY <1>2, <1>8, <3>1
  <2>2. closes' \in 0..MaxCloses
    <3>1. closes \in 0..MaxCloses /\ MaxCloses \in Nat BY <1>8
    <3>2. closes' = closes + 1 /\ closes < MaxCloses BY <1>2
    <3> QED BY <3>1, <3>2
  <2> QED BY <1>1, <1>2, <2>1, <2>2, TypeParts DEF RestTypes
<1>12. QueueInv'
  <2> SUFFICES ASSUME NEW p \in Providers
      PROVE  /\ Line(queue'[p], Waiting(p)')
             /\ active'[p] = Cardinality(Holding(p)') /\ active'[p] <= Limit(p)
             /\ Waiting(p)' # {} => active'[p] = Limit(p) /\ ~stopped'
    BY DEF QueueInv
  <2>1. /\ active[p] = Cardinality(Holding(p)) /\ active[p] <= Limit(p)
    BY <1>1 DEF QueueInv
  <2>2. active[p] \in Int /\ Limit(p) \in {1, 2} BY <1>8 DEF Limit
  <2>3. active'[p] = active[p] - Cardinality(leaving(p)) BY <1>2
  <2>4. active'[p] = Cardinality(Holding(p)') BY <1>9, <2>1, <2>3
  <2>5. active'[p] <= Limit(p) BY <1>9, <2>1, <2>2, <2>3
  <2>6. Line(queue'[p], Waiting(p)') BY <1>2, <1>9, LineEmpty
  <2> QED BY <1>9, <2>4, <2>5, <2>6
<1>13. ASSUME NEW q \in Requests PROVE ReqInv(q)'
  <2>1. CASE phase[q] \in {"queued", "delay"}
    <3>1. stage[q] = "none" BY <1>1, <2>1 DEF ReqInv, CallInv
    <3>2. stage'[q] = stage[q] /\ socket'[q] = socket[q] BY <1>1, <1>2, <3>1, CancelFacts
    <3>3. "CANCELLED" \in Codes \ {"RESIDUAL_DATA"} BY DEF Codes
    <3> QED BY <1>1, <1>2, <1>6, <1>7, <2>1, <3>2, <3>3, RefusedReq
  <2>2. CASE phase[q] \notin {"queued", "delay"}
    <3>1. phase[q] \in {"idle", "granted", "calling", "unmade", "settled"}
      BY <1>8, <2>2 DEF Phases
    <3>2. phase[q] \in Busy => q \in InFlight BY <1>3 DEF Busy, Held
    <3> QED BY <1>1, <1>2, <1>6, <2>2, <3>1, <3>2, CutReq
  <2> QED BY <2>1, <2>2
<1> QED BY <1>7, <1>10, <1>11, <1>12, <1>13, TypePartsNext DEF Inv

LEMMA InvNext == Inv /\ [Next]_vars => Inv'
<1> SUFFICES ASSUME Inv, [Next]_vars PROVE Inv' OBVIOUS
<1>1. ASSUME NEW r \in Requests, Execute(r) PROVE Inv' BY <1>1, ExecuteStep
<1>2. ASSUME NEW r \in Requests, ExecuteRefused(r) PROVE Inv' BY <1>2, ExecuteRefusedStep
<1>3. ASSUME NEW r \in Requests, QueueTimeout(r) PROVE Inv' BY <1>3, QueueTimeoutStep
<1>4. ASSUME NEW r \in Requests, RequestStep(r) PROVE Inv'
  BY <1>4, StartStep, AcceptStep, CompleteFailsStep, FailStep DEF RequestStep
<1>5. ASSUME NEW r \in Requests, LocalStep(r) \/ RemoteStep(r) PROVE Inv' BY <1>5, CallStep
<1>6. ASSUME NEW r \in Requests, Abort(r) PROVE Inv' BY <1>6, AbortStep
<1>7. CASE Shutdown BY <1>7, ShutdownStep
<1>8. CASE Drained \/ DrainFails BY <1>8, DrainStep
<1>9. ASSUME NEW f \in Features, NEW p \in Providers \cup {None}, NEW m \in Models, SaveRoute(f, p, m)
      PROVE  Inv'
  BY <1>9, SaveRouteStep
<1>10. ASSUME NEW p \in Providers, NEW s \in {"ready", "auth_required"}, NEW m \in Models,
              CheckProvider(p, s, m)
       PROVE  Inv'
  BY <1>10, CheckProviderStep DEF DiagStatuses
<1>11. CASE UNCHANGED vars
  <2>1. /\ UNCHANGED <<callVars, rows, phase, snap, turn, answer, active, queue, stopped>>
        /\ UNCHANGED <<route, diag, drain, closes, disturbances>>
    BY <1>11 DEF vars, routerVars
  <2>2. RestTypes' BY <2>1, TypeParts DEF Inv, RestTypes
  <2> QED BY <2>1, <2>2, QuietStep DEF DiagGrows
<1> QED BY <1>1, <1>2, <1>3, <1>4, <1>5, <1>6, <1>7, <1>8, <1>9, <1>10, <1>11 DEF Next

LEMMA InvAlways == Spec => []Inv
<1>1. Init => Inv BY InvInit
<1>2. Inv /\ [Next]_vars => Inv' BY InvNext
<1> QED BY <1>1, <1>2, PTL DEF Spec

-----------------------------------------------------------------------------
(* What the invariant says of every state.                                 *)

(* Every variable has its type (ProviderRouter's TypeOK).                  *)
THEOREM RouterTypesAlways == Spec => []TypeOK
<1>1. Inv => TypeOK
  <2> SUFFICES ASSUME Inv PROVE TypeOK OBVIOUS
  <2>1. ASSUME NEW p \in Providers PROVE active[p] \in 0..2
    <3>1. active[p] = Cardinality(Holding(p)) /\ active[p] <= Limit(p) BY DEF Inv, QueueInv
    <3>2. Limit(p) \in {1, 2} BY DEF Limit
    <3> QED BY <3>1, <3>2, HoldingFinite
  <2>2. active \in [Providers -> Int] BY DEF Inv, TypeInv
  <2>3. active \in [Providers -> 0..2] BY <2>1, <2>2
  <2> QED BY <2>3 DEF Inv, TypeInv, TypeOK, Marks
<1> QED BY <1>1, InvAlways, PTL

(* The counter of a provider is the leases its requests hold, never more    *)
(* than its limit, and its queue is exactly who waits for one               *)
(* (providerConcurrency.ts).                                               *)
THEOREM SlotsHeldAlways == Spec => []SlotsHeld
<1>1. Inv => SlotsHeld
  <2> SUFFICES ASSUME Inv, NEW p \in Providers
      PROVE  /\ active[p] = Cardinality(Holding(p)) /\ active[p] <= Limit(p)
             /\ ToSet(queue[p]) = Waiting(p) /\ Len(queue[p]) = Cardinality(Waiting(p))
             /\ queue[p] # <<>> => active[p] = Limit(p) /\ ~stopped
    BY DEF SlotsHeld
  <2>1. queue[p] \in Seq(Requests) BY DEF Inv, TypeInv
  <2>2. /\ active[p] = Cardinality(Holding(p)) /\ active[p] <= Limit(p)
        /\ Line(queue[p], Waiting(p))
        /\ Waiting(p) # {} => active[p] = Limit(p) /\ ~stopped
    BY DEF Inv, QueueInv
  <2>3. ToSet(queue[p]) = Waiting(p) /\ Len(queue[p]) = Cardinality(Waiting(p))
    BY <2>1, <2>2, LineCount
  <2>4. queue[p] # <<>> => Waiting(p) # {} BY <2>1, <2>2, LineTail
  <2> QED BY <2>2, <2>3, <2>4
<1> QED BY <1>1, InvAlways, PTL

(* The invocation rows tell what became of a request (aiProviderRouter.ts). *)
THEOREM RowsTellTruthAlways == Spec => []RowsTellTruth
<1>1. Inv => RowsTellTruth
  <2> SUFFICES ASSUME Inv, NEW r \in Requests
      PROVE  /\ answer[r] = "accepted" => {n \in Attempts : rows[r][n] = "completed"} = {turn[r]}
             /\ answer[r] \notin {"accepted", "DATABASE"} =>
                  {n \in Attempts : rows[r][n] = "completed"} = {}
             /\ phase[r] = "settled" /\ answer[r] # "DATABASE" =>
                  \A n \in Attempts : rows[r][n] # "running"
             /\ \A n \in Attempts : rows[r][n] # "none" <=> n <= turn[r]
    BY DEF RowsTellTruth
  <2>1. RowInv(r) BY DEF Inv, ReqInv
  <2>2. answer[r] = "accepted" => turn[r] \in Attempts BY <2>1, Turns DEF RowInv, Inv
  <2> QED BY <2>1, <2>2 DEF RowInv
<1> QED BY <1>1, InvAlways, PTL

(* A settled request has no body open; copies of its sources that could not *)
(* be removed are its answer (providerApiMedia.ts, providerHttpClient.ts).   *)
THEOREM NothingLeftAlways == Spec => []NothingLeftBehind
<1>1. Inv => NothingLeftBehind
  <2> SUFFICES ASSUME Inv, NEW r \in Requests
      PROVE  /\ phase[r] = "settled" => \A n \in Attempts : socket[r][n] # "open"
             /\ phase[r] = "settled" /\ space[r] = "made" =>
                  answer[r] \in {"RESIDUAL_DATA", "DATABASE"}
             /\ answer[r] = "RESIDUAL_DATA" => diag[snap[r].provider].rev > snap[r].rev
             /\ InExchange(r) => space[r] # "made"
    BY DEF NothingLeftBehind
  <2> QED BY DEF Inv, ReqInv, CallInv, DiagInv, InExchange
<1> QED BY <1>1, InvAlways, PTL

-----------------------------------------------------------------------------
(* What a step never does.                                                 *)

\* Only an attempt's end and a check from outside write a diagnostic.
LEMMA DiagnosticWriters ==
  ASSUME [Next]_vars, disturbances' = disturbances, TypeInv
  PROVE  diag' = diag \/ \E r \in Requests : Accept(r) \/ \E c \in AttemptFailures(r) : Fail(r, c)
<1>1. ASSUME NEW p \in Providers, NEW s, NEW m, CheckProvider(p, s, m) PROVE FALSE
  BY <1>1, DisturbedFacts DEF CheckProvider
<1>2. ASSUME NEW r \in Requests,
             Execute(r) \/ ExecuteRefused(r) \/ QueueTimeout(r) \/ LocalStep(r) \/ RemoteStep(r)
             \/ Abort(r) \/ Start(r) \/ DelayEnds(r) \/ CompleteFails(r)
      PROVE  diag' = diag
  BY <1>2 DEF Execute, ExecuteRefused, QueueTimeout, LocalStep, RemoteStep, Abort, Start,
              DelayEnds, CompleteFails, routerVars
<1>3. CASE Shutdown \/ Drained \/ DrainFails BY <1>3 DEF Shutdown, Drained, DrainFails
<1>4. ASSUME NEW f, NEW p, NEW m, SaveRoute(f, p, m) PROVE diag' = diag
  BY <1>4 DEF SaveRoute
<1>5. CASE UNCHANGED vars BY <1>5 DEF vars, routerVars
<1> QED BY <1>1, <1>2, <1>3, <1>4, <1>5 DEF Next, RequestStep

(* Only evidence about the current revision counts (#updateDiagnostic).     *)
THEOREM VerdictsFreshAlways == Spec => VerdictsAreFresh
<1>1. Inv /\ [Next]_vars =>
        [disturbances' = disturbances =>
           \A p \in Providers : diag'[p] # diag[p] =>
             /\ diag[p].status = "ready"
             /\ \E r \in Holding(p) : phase'[r] = "settled" /\ snap[r].rev = diag[p].rev
                  /\ answer'[r] \in {"accepted"} \cup {c \in Codes : TerminalStatus(c) = diag'[p].status}
                  /\ aborted[r] => answer'[r] = "RESIDUAL_DATA"]_vars
  <2> SUFFICES ASSUME Inv, [Next]_vars, disturbances' = disturbances,
                      NEW p \in Providers, diag'[p] # diag[p]
      PROVE  /\ diag[p].status = "ready"
             /\ \E r \in Holding(p) : phase'[r] = "settled" /\ snap[r].rev = diag[p].rev
                  /\ answer'[r] \in {"accepted"} \cup {c \in Codes : TerminalStatus(c) = diag'[p].status}
                  /\ aborted[r] => answer'[r] = "RESIDUAL_DATA"
    OBVIOUS
  <2>0. TypeInv BY DEF Inv
  <2>1. PICK r \in Requests : Accept(r) \/ \E c \in AttemptFailures(r) : Fail(r, c)
    BY <2>0, DiagnosticWriters
  <2>2. /\ Ended(r) /\ ReqInv(r) /\ TypeInv BY <2>1 DEF Accept, Fail, Inv
  <2>3. ~WriteFails BY <2>0, DisturbedFacts DEF WriteFails
  <2>4. /\ phase[r] = "calling" /\ snap[r].provider \in Providers BY <2>2, RunningRow
  <2>5. PICK code, s : /\ Leave(r, code) /\ UpdateDiagnostic(r, s)
                       /\ \/ code = "accepted" /\ s = "ready" /\ ~aborted[r]
                          \/ code \in AttemptFailures(r) /\ s = TerminalStatus(code) /\ s # ""
    <3>1. ASSUME Accept(r)
          PROVE  Leave(r, "accepted") /\ UpdateDiagnostic(r, "ready") /\ ~aborted[r]
      BY <2>3, <3>1 DEF Accept
    <3>2. ASSUME NEW c \in AttemptFailures(r), Fail(r, c)
          PROVE  Leave(r, c) /\ TerminalStatus(c) # "" /\ UpdateDiagnostic(r, TerminalStatus(c))
      BY <2>3, <3>2 DEF Fail, Lower
    <3> DEFINE F(c, t) == /\ Leave(r, c) /\ UpdateDiagnostic(r, t)
                          /\ \/ c = "accepted" /\ t = "ready" /\ ~aborted[r]
                             \/ c \in AttemptFailures(r) /\ t = TerminalStatus(c) /\ t # ""
    <3>3. Accept(r) => F("accepted", "ready") BY <3>1
    <3>4. \A c \in AttemptFailures(r) : Fail(r, c) => F(c, TerminalStatus(c)) BY <3>2
    <3> HIDE DEF F
    <3>5. \E c, t : F(c, t) BY <2>1, <3>3, <3>4
    <3> QED BY <3>5 DEF F
  <2>6. s \in DiagStatuses BY <2>5, TerminalStatuses DEF DiagStatuses
  <2>7. p = snap[r].provider /\ diag[p].rev = snap[r].rev /\ diag'[p].status = s
    BY <2>2, <2>4, <2>5, <2>6, UpdateFacts
  <2>8. diag[p].status = "ready" BY <2>2, <2>4, <2>7 DEF ReqInv, DiagInv, Busy, Held
  <2>9. r \in Holding(p) BY <2>4, <2>7 DEF Holding
  <2>10. phase'[r] = "settled" /\ answer'[r] = code
    <3>1. answer \in [Requests -> Codes \cup {"", "accepted"}] BY <2>0 DEF TypeInv
    <3> QED BY <2>5, <3>1 DEF Leave
  <2>11. /\ code \in {"accepted"} \cup {c \in Codes : TerminalStatus(c) = diag'[p].status}
         /\ aborted[r] => code = "RESIDUAL_DATA"
    <3>1. CASE code = "accepted" /\ s = "ready" /\ ~aborted[r] BY <3>1
    <3>2. CASE code \in AttemptFailures(r) /\ s = TerminalStatus(code) /\ s # ""
      <4>1. code \in Codes /\ (aborted[r] => code \in {"CANCELLED", "RESIDUAL_DATA"})
        BY <2>0, <3>2, FailureCodes
      <4>2. TerminalStatus("CANCELLED") = "" BY DEF TerminalStatus
      <4> QED BY <2>7, <3>2, <4>1, <4>2
    <3> QED BY <2>5, <3>1, <3>2
  <2> QED BY <2>7, <2>8, <2>9, <2>10, <2>11
<1> QED BY <1>1, InvAlways, PTL DEF Spec, VerdictsAreFresh

LEMMA StoppedMeansAborted ==
  ASSUME Inv, NEW r \in Requests, phase[r] \in Busy
  PROVE  (stopped => aborted[r]) /\ (phase[r] = "delay" => ~aborted[r])
BY DEF Inv, ReqInv, StopInv

(* No attempt begins and no request is sent after an abort or once the      *)
(* router is stopped (aiProviderRouter.ts, openAiApiAdapter.ts).             *)
THEOREM NoCallAfterStopAlways == Spec => NoCallAfterStop
<1>1. Inv /\ [Next]_vars =>
        [\A r \in Requests :
           (turn'[r] # turn[r] \/ \E n \in Attempts : socket[r][n] = "none" /\ socket'[r][n] = "sent")
             => ~aborted[r] /\ ~stopped]_vars
  <2> SUFFICES
        ASSUME Inv, [Next]_vars, NEW q \in Requests,
               turn'[q] # turn[q] \/ \E n \in Attempts : socket[q][n] = "none" /\ socket'[q][n] = "sent"
        PROVE  ~aborted[q] /\ ~stopped
    OBVIOUS
  <2>0. TypeInv /\ ReqInv(q) BY DEF Inv
  <2>1. ASSUME turn' = turn, \A n \in Attempts : socket'[q][n] \in {socket[q][n], "none"} PROVE FALSE
    BY <2>1
  <2>2. ASSUME NEW r \in Requests, Start(r) \/ DelayEnds(r) PROVE ~aborted[q] /\ ~stopped
    <3>1. phase[r] \in {"granted", "delay"} /\ phase[r] \in Busy
      BY <2>2 DEF Start, DelayEnds, Busy, Held
    <3>2. snap[r].provider \in Providers BY <3>1 DEF Inv, ReqInv, DiagInv
    <3>3. socket' = socket
      BY <2>2 DEF Start, DelayEnds, BeginAttempt, EnterAdapter, BeginCall, callVars
    <3>4. turn' # turn BY <2>1, <3>3
    <3>5. BeginAttempt(r) /\ turn' = [turn EXCEPT ![r] = @ + 1]
      BY <2>2, <3>4 DEF Start, DelayEnds, BeginAttempt
    <3>6. ~aborted[r]
      <4>1. CASE Start(r) BY <3>4, <4>1 DEF Start
      <4>2. CASE DelayEnds(r) BY <3>1, <4>2, StoppedMeansAborted DEF DelayEnds
      <4> QED BY <2>2, <4>1, <4>2
    <3>7. q = r BY <2>0, <3>3, <3>5 DEF TypeInv
    <3> QED BY <3>1, <3>6, <3>7, StoppedMeansAborted
  <2>3. ASSUME NEW r \in Requests, LocalStep(r), SendRequest(r, turn[r])
        PROVE  ~aborted[q] /\ ~stopped
    <3>1. stage[r] = "secret" /\ ~aborted[r] /\ turn' = turn
      BY <2>3 DEF LocalStep, SendRequest, routerVars
    <3>2. phase[r] = "calling" BY <3>1 DEF Inv, ReqInv, CallInv
    <3>3. q = r
      <4>1. socket \in [Requests -> [Attempts -> Sockets]] BY <2>0 DEF TypeInv
      <4>2. q # r => socket'[q] = socket[q] BY <2>3, <4>1 DEF SendRequest, Socket
      <4> QED BY <2>1, <3>1, <4>2
    <3> QED BY <3>1, <3>2, <3>3, StoppedMeansAborted DEF Busy, Held
  <2>4. ASSUME NEW r \in Requests, (LocalStep(r) /\ ~SendRequest(r, turn[r])) \/ RemoteStep(r)
        PROVE  FALSE
    <3>1. turn' = turn BY <2>4 DEF LocalStep, RemoteStep, routerVars
    <3>2. socket \in [Requests -> [Attempts -> Sockets]] BY <2>0 DEF TypeInv
    <3>3. \/ socket' = socket
          \/ \E n \in Attempts \cup {turn[r]}, s \in {"open", "none"} : Socket(r, n, s)
      BY <2>4 DEF LocalStep, RemoteStep, MakeSpace, CopySources, ReadCopies, CleanSpace,
                  CleanFails, KeyRefused, HttpTimeout, CutExchange, CliEnds, Respond,
                  TransportFails, ReadBody, ReadErrorBody, LateResponse, DropResponse
    <3>4. \A n \in Attempts : socket'[q][n] \in {socket[q][n], "none", "open"}
      <4>1. CASE socket' = socket BY <4>1
      <4>2. ASSUME NEW n, NEW s \in {"open", "none"}, Socket(r, n, s)
            PROVE  \A k \in Attempts : socket'[q][k] \in {socket[q][k], "none", "open"}
        <5>1. socket' = [socket EXCEPT ![r] = [socket[r] EXCEPT ![n] = s]] BY <4>2 DEF Socket
        <5> QED BY <3>2, <5>1
      <4> QED BY <3>3, <4>1, <4>2
    <3> QED BY <3>1, <3>4
  <2>5. ASSUME NEW r \in Requests,
               Execute(r) \/ ExecuteRefused(r) \/ QueueTimeout(r) \/ Accept(r) \/ CompleteFails(r)
               \/ \E code \in AttemptFailures(r) : Fail(r, code)
        PROVE  FALSE
    <3>1. turn' = turn /\ socket' = socket
      BY <2>5 DEF Execute, ExecuteRefused, QueueTimeout, Accept, CompleteFails, Fail, EndCall, callVars
    <3> QED BY <2>1, <3>1
  <2>6. ASSUME \/ Shutdown \/ \E r \in Requests : Abort(r) PROVE FALSE
    <3>1. PICK R : CancelCalls(R, turn) BY <2>6 DEF Shutdown, Abort
    <3>2. turn' = turn BY <2>6 DEF Shutdown, Abort
    <3>3. \A n \in Attempts : socket'[q][n] \in {socket[q][n], "none"}
      BY <2>0, <3>1, CancelFacts
    <3> QED BY <2>1, <3>2, <3>3
  <2>7. ASSUME \/ Drained \/ DrainFails \/ UNCHANGED vars
               \/ \E f, p, m : SaveRoute(f, p, m)
               \/ \E p, s, m : CheckProvider(p, s, m)
        PROVE  FALSE
    <3>1. turn' = turn /\ socket' = socket
      BY <2>7 DEF Drained, DrainFails, SaveRoute, CheckProvider, vars, callVars, routerVars
    <3> QED BY <2>1, <3>1
  <2>8. \A r \in Requests : RequestStep(r) =>
          \/ Start(r) \/ DelayEnds(r) \/ Accept(r) \/ CompleteFails(r)
          \/ \E code \in AttemptFailures(r) : Fail(r, code)
    BY DEF RequestStep
  <2>9. CASE UNCHANGED vars BY <2>7, <2>9
  <2>10. CASE Next
    <3>1. CASE Shutdown \/ Drained \/ DrainFails BY <2>6, <2>7, <3>1
    <3>2. CASE \/ \E f \in Features, p \in Providers \cup {None}, m \in Models : SaveRoute(f, p, m)
               \/ \E p \in Providers, s \in {"ready", "auth_required"}, m \in Models :
                    CheckProvider(p, s, m)
      BY <2>7, <3>2
    <3>3. ASSUME NEW r \in Requests,
                 Execute(r) \/ ExecuteRefused(r) \/ QueueTimeout(r) \/ RequestStep(r)
                 \/ LocalStep(r) \/ RemoteStep(r) \/ Abort(r)
          PROVE  ~aborted[q] /\ ~stopped
      BY <2>2, <2>3, <2>4, <2>5, <2>6, <2>8, <3>3
    <3> QED BY <2>10, <3>1, <3>2, <3>3 DEF Next
  <2> QED BY <2>9, <2>10
<1> QED BY <1>1, InvAlways, PTL DEF Spec, NoCallAfterStop

-----------------------------------------------------------------------------
(* The router does what CallPromise says.                                  *)

\* What a caller sees of a request.
OutcomeOf(r) ==
  CASE phase[r] \in {"unmade", "idle"} -> "idle"
    [] phase[r] = "settled" -> (IF answer[r] = "accepted" THEN "accepted" ELSE "refused")
    [] OTHER -> "open"

LEMMA OutcomeIs ==
  ASSUME NEW r
  PROVE  /\ phase[r] \in {"unmade", "idle"} => OutcomeOf(r) = "idle"
         /\ phase[r] \in Busy => OutcomeOf(r) = "open"
         /\ phase[r] = "settled" /\ answer[r] = "accepted" => OutcomeOf(r) = "accepted"
         /\ phase[r] = "settled" /\ answer[r] # "accepted" => OutcomeOf(r) = "refused"
BY DEF OutcomeOf, Busy, Held

LEMMA OutcomeIsNext ==
  ASSUME NEW r
  PROVE  /\ phase'[r] \in {"unmade", "idle"} => OutcomeOf(r)' = "idle"
         /\ phase'[r] \in Busy => OutcomeOf(r)' = "open"
         /\ phase'[r] = "settled" /\ answer'[r] = "accepted" => OutcomeOf(r)' = "accepted"
         /\ phase'[r] = "settled" /\ answer'[r] # "accepted" => OutcomeOf(r)' = "refused"
BY DEF OutcomeOf, Busy, Held

\* At most one request changes for its caller, in one of the ways promised.
LEMMA OneOutcome ==
  ASSUME NEW r \in Requests, \A q \in Requests \ {r} : OutcomeOf(q)' = OutcomeOf(q),
         aborted' = aborted, stopped' = stopped,
         \/ OutcomeOf(r)' = OutcomeOf(r)
         \/ OutcomeOf(r) = "idle" /\ OutcomeOf(r)' = "open" /\ ~stopped /\ ~aborted[r]
         \/ OutcomeOf(r) \in {"idle", "open"} /\ OutcomeOf(r)' = "refused"
         \/ OutcomeOf(r) = "open" /\ OutcomeOf(r)' = "accepted" /\ ~aborted[r]
  PROVE  [Promise!Next]_(Promise!vars)
<1> DEFINE out == [q \in Requests |-> OutcomeOf(q)]
<1>1. out' = [out EXCEPT ![r] = OutcomeOf(r)'] OBVIOUS
<1>2. CASE OutcomeOf(r)' = OutcomeOf(r)
  <2>1. out' = out BY <1>2
  <2> QED BY <2>1 DEF Promise!vars, OutcomeOf
<1>3. CASE OutcomeOf(r) = "idle" /\ OutcomeOf(r)' = "open" /\ ~stopped /\ ~aborted[r]
  <2>1. Promise!Open(r) BY <1>1, <1>3 DEF Promise!Open, OutcomeOf
  <2> QED BY <2>1 DEF Promise!Next
<1>4. CASE OutcomeOf(r) \in {"idle", "open"} /\ OutcomeOf(r)' = "refused"
  <2>1. Promise!Refuse(r) BY <1>1, <1>4 DEF Promise!Refuse, OutcomeOf
  <2> QED BY <2>1 DEF Promise!Next
<1>5. CASE OutcomeOf(r) = "open" /\ OutcomeOf(r)' = "accepted" /\ ~aborted[r]
  <2>1. Promise!Accept(r) BY <1>1, <1>5 DEF Promise!Accept, Promise!Live, OutcomeOf
  <2> QED BY <2>1 DEF Promise!Next
<1> QED BY <1>2, <1>3, <1>4, <1>5

LEMMA LeaveOutcome ==
  ASSUME Inv, NEW r \in Requests, phase[r] \in Held, NEW code \in Codes \cup {"accepted"},
         Leave(r, code), UNCHANGED <<snap, stopped>>
  PROVE  /\ OutcomeOf(r) = "open"
         /\ OutcomeOf(r)' = IF code = "accepted" THEN "accepted" ELSE "refused"
         /\ \A q \in Requests \ {r} : OutcomeOf(q)' = OutcomeOf(q)
<1>0. TypeInv /\ QueueInv /\ DiagInv(r) BY DEF Inv, ReqInv
<1>1. /\ answer' = [answer EXCEPT ![r] = code] /\ phase'[r] = "settled"
      /\ \A q \in Requests \ {r} :
           phase'[q] = phase[q] \/ (phase[q] = "queued" /\ phase'[q] = "granted")
  BY <1>0, LeaveFacts
<1>2. answer'[r] = code /\ \A q \in Requests \ {r} : answer'[q] = answer[q]
  BY <1>0, <1>1, AnswerFacts
<1>3. \A q \in Requests \ {r} : OutcomeOf(q)' = OutcomeOf(q) BY <1>1, <1>2 DEF OutcomeOf
<1> QED BY <1>1, <1>2, <1>3, OutcomeIs, OutcomeIsNext DEF Busy

LEMMA ExecutePromise ==
  ASSUME Inv, NEW r \in Requests, Execute(r) \/ ExecuteRefused(r) \/ QueueTimeout(r)
  PROVE  [Promise!Next]_(Promise!vars)
<1>0. /\ phase \in [Requests -> Phases] /\ answer \in [Requests -> Codes \cup {"", "accepted"}]
  BY DEF Inv, TypeInv
<1>1. aborted' = aborted /\ stopped' = stopped
  BY DEF Execute, ExecuteRefused, QueueTimeout, callVars
<1>2. CASE Execute(r)
  <2>1. phase[r] = "idle" /\ ~stopped /\ ~aborted[r] /\ answer' = answer
    BY <1>2, RefusalCodes DEF Execute
  <2>2. phase' \in {[phase EXCEPT ![r] = "granted"], [phase EXCEPT ![r] = "queued"]}
    BY <1>2 DEF Execute, To
  <2>3. phase'[r] \in Busy /\ \A q \in Requests \ {r} : phase'[q] = phase[q]
    BY <1>0, <2>2 DEF Busy, Held
  <2>4. \A q \in Requests \ {r} : OutcomeOf(q)' = OutcomeOf(q) BY <2>1, <2>3 DEF OutcomeOf
  <2>5. OutcomeOf(r) = "idle" /\ OutcomeOf(r)' = "open" BY <2>1, <2>3, OutcomeIs, OutcomeIsNext
  <2> QED BY <1>1, <2>1, <2>4, <2>5, OneOutcome
<1>3. CASE ExecuteRefused(r) \/ QueueTimeout(r)
  <2>1. PICK code \in Codes : Settle(r, code)
    BY <1>3, RefusalCodes DEF ExecuteRefused, QueueTimeout, Codes
  <2>2. /\ phase' = [phase EXCEPT ![r] = "settled"] /\ answer' = [answer EXCEPT ![r] = code]
        /\ code # "accepted"
    BY <2>1 DEF Settle, To, Codes
  <2>3. /\ phase'[r] = "settled" /\ \A q \in Requests \ {r} : phase'[q] = phase[q] BY <1>0, <2>2
  <2>4. /\ answer'[r] = code /\ \A q \in Requests \ {r} : answer'[q] = answer[q]
    BY <1>0, <2>2, Zenon
  <2>5. \A q \in Requests \ {r} : OutcomeOf(q)' = OutcomeOf(q) BY <2>3, <2>4 DEF OutcomeOf
  <2>6. phase[r] \in {"idle", "queued"} BY <1>3 DEF ExecuteRefused, QueueTimeout
  <2>7. OutcomeOf(r) \in {"idle", "open"} /\ OutcomeOf(r)' = "refused"
    BY <2>2, <2>3, <2>4, <2>6, OutcomeIs, OutcomeIsNext DEF Busy
  <2> QED BY <1>1, <2>5, <2>7, OneOutcome
<1> QED BY <1>2, <1>3

LEMMA BeginPromise ==
  ASSUME Inv, NEW r \in Requests, Start(r) \/ DelayEnds(r)
  PROVE  [Promise!Next]_(Promise!vars)
<1>0. /\ phase \in [Requests -> Phases] /\ TypeInv BY DEF Inv, TypeInv
<1>1. /\ phase[r] \in {"granted", "delay"} /\ snap' = snap /\ stopped' = stopped
      /\ aborted' = aborted
      /\ \/ \E code \in {"CANCELLED", "DATABASE"} : Leave(r, code)
         \/ To(r, "calling") /\ answer' = answer
  BY DEF Start, DelayEnds, BeginAttempt, EnterAdapter, BeginCall, callVars
<1>2. ASSUME NEW code \in {"CANCELLED", "DATABASE"}, Leave(r, code)
      PROVE  [Promise!Next]_(Promise!vars)
  <2>1. code \in Codes \cup {"accepted"} /\ code # "accepted" /\ phase[r] \in Held
    BY <1>1 DEF Codes, Held
  <2> QED BY <1>1, <1>2, <2>1, LeaveOutcome, OneOutcome
<1>3. CASE To(r, "calling") /\ answer' = answer
  <2>1. phase'[r] = "calling" /\ \A q \in Requests \ {r} : phase'[q] = phase[q]
    BY <1>0, <1>3, PhaseFacts DEF Phases
  <2>2. \A q \in Requests \ {r} : OutcomeOf(q)' = OutcomeOf(q) BY <1>3, <2>1 DEF OutcomeOf
  <2>3. OutcomeOf(r)' = "open" /\ OutcomeOf(r) = "open"
    BY <1>1, <2>1, OutcomeIs, OutcomeIsNext DEF Busy, Held
  <2> QED BY <1>1, <2>2, <2>3, OneOutcome
<1> QED BY <1>1, <1>2, <1>3

LEMMA EndPromise ==
  ASSUME Inv, NEW r \in Requests,
         Accept(r) \/ CompleteFails(r) \/ \E code \in AttemptFailures(r) : Fail(r, code)
  PROVE  [Promise!Next]_(Promise!vars)
<1>0. /\ phase \in [Requests -> Phases] /\ TypeInv BY DEF Inv, TypeInv
<1>1. /\ phase[r] = "calling" /\ snap' = snap /\ stopped' = stopped /\ aborted' = aborted
  BY DEF Accept, CompleteFails, Fail, EndCall, Ended
<1>2. \/ Leave(r, "accepted") /\ ~aborted[r]
      \/ \E code \in Codes : Leave(r, code)
      \/ To(r, "delay") /\ answer' = answer
  <2>1. "DATABASE" \in Codes BY DEF Codes
  <2>2. CASE Accept(r) \/ CompleteFails(r) BY <2>1, <2>2 DEF Accept, CompleteFails
  <2>3. ASSUME NEW code \in AttemptFailures(r), Fail(r, code) PROVE <1>2
    <3>1. code \in Codes BY <1>0, FailureCodes
    <3> QED BY <2>1, <2>3, <3>1 DEF Fail
  <2> QED BY <2>2, <2>3
<1>3. CASE Leave(r, "accepted") /\ ~aborted[r]
  BY <1>1, <1>3, LeaveOutcome, OneOutcome DEF Held
<1>4. ASSUME NEW code \in Codes, Leave(r, code) PROVE [Promise!Next]_(Promise!vars)
  <2>1. code # "accepted" /\ phase[r] \in Held BY <1>1 DEF Codes, Held
  <2> QED BY <1>1, <1>4, <2>1, LeaveOutcome, OneOutcome
<1>5. CASE To(r, "delay") /\ answer' = answer
  <2>1. phase'[r] = "delay" /\ \A q \in Requests \ {r} : phase'[q] = phase[q]
    BY <1>0, <1>5, PhaseFacts DEF Phases
  <2>2. \A q \in Requests \ {r} : OutcomeOf(q)' = OutcomeOf(q) BY <1>5, <2>1 DEF OutcomeOf
  <2>3. OutcomeOf(r)' = "open" /\ OutcomeOf(r) = "open"
    BY <1>1, <2>1, OutcomeIs, OutcomeIsNext DEF Busy, Held
  <2> QED BY <1>1, <2>2, <2>3, OneOutcome
<1> QED BY <1>2, <1>3, <1>4, <1>5

LEMMA AbortPromise ==
  ASSUME Inv, NEW r \in Requests, Abort(r)
  PROVE  [Promise!Next]_(Promise!vars)
<1> DEFINE out == [q \in Requests |-> OutcomeOf(q)]
           rev == {q \in Requests : aborted[q]}
<1>0. /\ phase \in [Requests -> Phases] /\ TypeInv /\ DiagInv(r) /\ QueueInv
  BY DEF Inv, TypeInv, ReqInv
<1>1. /\ phase[r] \notin {"unmade", "settled"} /\ ~aborted[r] /\ CancelCalls({r}, turn)
      /\ stopped' = stopped /\ snap' = snap
  BY DEF Abort
<1>2. rev' = rev \cup {r} /\ r \notin rev
  <2>1. \A q \in Requests : aborted'[q] <=> aborted[q] \/ q \in {r} BY <1>0, <1>1, CancelFacts
  <2> QED BY <1>1, <2>1
<1>3. OutcomeOf(r) \in {"idle", "open"}
  <2>1. phase[r] \in {"idle"} \cup Busy BY <1>0, <1>1 DEF Phases, Busy, Held
  <2> QED BY <2>1, OutcomeIs
<1>4. /\ \A q \in Requests \ {r} : OutcomeOf(q)' = OutcomeOf(q)
      /\ OutcomeOf(r)' = OutcomeOf(r) \/ OutcomeOf(r)' = "refused"
  <2>1. CASE phase[r] = "queued"
    <3>1. phase' = [phase EXCEPT ![r] = "settled"] /\ answer' = [answer EXCEPT ![r] = "CANCELLED"]
      BY <2>1 DEF Abort, Settle, To
    <3>2. "CANCELLED" \in Codes \cup {"accepted"} BY DEF Codes
    <3>3. answer'[r] = "CANCELLED" /\ \A q \in Requests \ {r} : answer'[q] = answer[q]
      BY <1>0, <3>1, <3>2, AnswerFacts
    <3>4. phase'[r] = "settled" /\ \A q \in Requests \ {r} : phase'[q] = phase[q] BY <1>0, <3>1
    <3> QED BY <3>3, <3>4, OutcomeIsNext DEF OutcomeOf
  <2>2. CASE phase[r] = "delay"
    <3>1. Leave(r, "CANCELLED") BY <2>2 DEF Abort
    <3>2. "CANCELLED" \in Codes \cup {"accepted"} /\ phase[r] \in Held BY <2>2 DEF Codes, Held
    <3> QED BY <1>1, <3>1, <3>2, LeaveOutcome
  <2>3. CASE phase[r] \notin {"queued", "delay"}
    <3>1. phase' = phase /\ answer' = answer BY <2>3 DEF Abort
    <3> QED BY <3>1 DEF OutcomeOf
  <2> QED BY <2>1, <2>2, <2>3
<1>5. out' \in {out, [out EXCEPT ![r] = "refused"]} BY <1>4
<1>6. Promise!Revoke(r) BY <1>1, <1>2, <1>3, <1>5 DEF Promise!Revoke, OutcomeOf
<1> QED BY <1>6 DEF Promise!Next

LEMMA ShutdownPromise ==
  ASSUME Inv, Shutdown
  PROVE  [Promise!Next]_(Promise!vars)
<1> DEFINE out == [q \in Requests |-> OutcomeOf(q)]
           rev == {q \in Requests : aborted[q]}
           live == {q \in Requests : OutcomeOf(q) = "open"}
           gone == {q \in Requests : phase[q] \in {"queued", "delay"}}
<1>0. phase \in [Requests -> Phases] /\ TypeInv BY DEF Inv, TypeInv
<1>1. /\ CancelCalls(InFlight, turn) /\ stopped' = TRUE
      /\ phase' = [q \in Requests |-> IF q \in gone THEN "settled" ELSE phase[q]]
      /\ answer' = [q \in Requests |-> IF q \in gone THEN "CANCELLED" ELSE answer[q]]
  <2>1. {q \in InFlight : phase[q] \in {"queued", "delay"}} = gone BY DEF InFlight
  <2> QED BY <2>1 DEF Shutdown
<1>2. \A q \in Requests : phase[q] \in {"unmade", "idle", "settled"} \cup Busy
  BY <1>0 DEF Phases, Busy, Held
<1>3. \A q \in Requests : q \in live <=> q \in InFlight
  <2>1. \A q \in Requests : phase[q] = "settled" => OutcomeOf(q) # "open" BY OutcomeIs
  <2> QED BY <1>2, <2>1, OutcomeIs DEF InFlight, Busy, Held
<1>4. rev' = rev \cup live
  <2>1. \A q \in Requests : aborted'[q] <=> aborted[q] \/ q \in InFlight
    BY <1>0, <1>1, CancelFacts
  <2> QED BY <1>3, <2>1
<1>5. gone \in SUBSET live BY <1>3 DEF InFlight
<1>6. \A q \in Requests : OutcomeOf(q)' = IF q \in gone THEN "refused" ELSE OutcomeOf(q)
  <2>1. ASSUME NEW q \in Requests PROVE OutcomeOf(q)' = IF q \in gone THEN "refused" ELSE OutcomeOf(q)
    <3>1. CASE q \in gone BY <1>1, <3>1, OutcomeIsNext
    <3>2. CASE q \notin gone BY <1>1, <3>2 DEF OutcomeOf
    <3> QED BY <3>1, <3>2
  <2> QED BY <2>1
<1>7. out' = [q \in Requests |-> IF q \in gone THEN "refused" ELSE out[q]] BY <1>6
<1>8. Promise!Close
  BY <1>1, <1>4, <1>5, <1>7 DEF Promise!Close, Promise!Live, OutcomeOf
<1> QED BY <1>8 DEF Promise!Next

(* A request is opened at most once, is accepted only while its caller has  *)
(* not taken it back, and closing takes back every open one: the safety of  *)
(* KeepsCallPromise (aiProviderRouter.ts).                                 *)
THEOREM RouterKeepsPromise == Spec => Promise!Init /\ [][Promise!Next]_(Promise!vars)
<1>1. Init => Promise!Init
  <2> SUFFICES ASSUME Init PROVE Promise!Init OBVIOUS
  <2>1. \A q \in Requests : phase[q] \in {"unmade", "idle"} /\ ~aborted[q] BY DEF Init, CallInit
  <2>2. stopped = FALSE BY DEF Init
  <2> QED BY <2>1, <2>2 DEF Promise!Init
<1>2. Inv /\ [Next]_vars => [Promise!Next]_(Promise!vars)
  <2> SUFFICES ASSUME Inv, [Next]_vars PROVE [Promise!Next]_(Promise!vars) OBVIOUS
  <2>1. ASSUME phase' = phase, answer' = answer, aborted' = aborted, stopped' = stopped
        PROVE  [Promise!Next]_(Promise!vars)
    BY <2>1 DEF Promise!vars
  <2>2. ASSUME NEW r \in Requests, LocalStep(r) \/ RemoteStep(r)
        PROVE  [Promise!Next]_(Promise!vars)
    <3>1. phase' = phase /\ answer' = answer /\ stopped' = stopped
      BY <2>2 DEF LocalStep, RemoteStep, routerVars
    <3>2. aborted' = aborted
      BY <2>2 DEF LocalStep, RemoteStep, MakeSpace, CopySources, ReadCopies, CleanSpace,
           CleanFails, KeyRefused, SendRequest, HttpTimeout, CliEnds, Respond, TransportFails,
           ReadBody, ReadErrorBody, LateResponse
    <3> QED BY <2>1, <3>1, <3>2
  <2>3. ASSUME \/ Drained \/ DrainFails \/ UNCHANGED vars
               \/ \E f, p, m : SaveRoute(f, p, m)
               \/ \E p, s, m : CheckProvider(p, s, m)
        PROVE  [Promise!Next]_(Promise!vars)
    <3>1. phase' = phase /\ answer' = answer /\ stopped' = stopped /\ aborted' = aborted
      BY <2>3 DEF Drained, DrainFails, SaveRoute, CheckProvider, vars, callVars, routerVars
    <3> QED BY <2>1, <3>1
  <2>4. ASSUME NEW r \in Requests,
               Execute(r) \/ ExecuteRefused(r) \/ QueueTimeout(r) \/ RequestStep(r)
               \/ LocalStep(r) \/ RemoteStep(r) \/ Abort(r)
        PROVE  [Promise!Next]_(Promise!vars)
    BY <2>2, <2>4, ExecutePromise, BeginPromise, EndPromise, AbortPromise DEF RequestStep
  <2>5. CASE Shutdown BY <2>5, ShutdownPromise
  <2>6. CASE UNCHANGED vars BY <2>3, <2>6
  <2>7. CASE \/ \E f \in Features, p \in Providers \cup {None}, m \in Models : SaveRoute(f, p, m)
             \/ \E p \in Providers, s \in {"ready", "auth_required"}, m \in Models :
                  CheckProvider(p, s, m)
             \/ Drained \/ DrainFails
    BY <2>3, <2>7
  <2> QED BY <2>4, <2>5, <2>6, <2>7 DEF Next
<1> QED BY <1>1, <1>2, InvAlways, PTL DEF Spec
=============================================================================
