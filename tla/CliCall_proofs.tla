---------------------------- MODULE CliCall_proofs ----------------------------
(***************************************************************************)
(* The safety properties of CliCall for any calls, letters and workloads:  *)
(* first the alias manager with what the calls hold of it, then each call,  *)
(* then what a failure leaves and how it is told, then the processes that   *)
(* outlive the program.                                                    *)
(***************************************************************************)
EXTENDS CliCall, FiniteSetTheorems, WellFoundedInduction, TLAPS

Limits == [faults: Nat, crashes: Nat, aborts: Nat, tampers: Nat, cleans: BOOLEAN]

\* A root below the other is given a letter after it, and gives it back before it.
Holds == {{}, {"runtime"}, roots}

Typed ==
  /\ roots \in {{"runtime"}, Roots}
  /\ limits \in Limits
  /\ mapped \in [Drives -> Roots \cup {None}] /\ marked \in [Drives -> Roots \cup {None}]
  /\ taken \subseteq Drives
  /\ child \in [Calls -> [Kinds -> {"none", "alive", "gone"}]] 
  /\ space \in [Calls -> SUBSET (Kinds \cup {"kept"})]
  /\ place \in [Roots -> Drives \cup {None}] /\ refs \in [Roots -> Nat]
  /\ poisoned \in BOOLEAN /\ busy \in (Calls \X Threads) \cup {None} /\ fresh \in Drives \cup {None}
  /\ at \in [Calls -> Adapters] /\ run \in [Calls -> Runs] /\ part \in [Calls -> Parts]
  /\ aborted \in [Calls -> BOOLEAN]
  /\ fail \in [Calls -> Codes \cup {"lost"}] /\ inner \in [Calls -> Codes]
  /\ hold \in [Calls -> [Layers -> Holds]]

-----------------------------------------------------------------------------
(* The alias manager.                                                       *)

Holders(t) == {x \in Calls \X Layers: t \in hold[x[1]][x[2]]}

Gives(l) == {"undo", IF l = "outer" THEN "leave" ELSE "release"}
InLease(c, l) == Where(c, l) \in {"take"} \cup Gives(l)

\* A letter that its root can be reached by, or that others took, or that is being given back.
Record(t) ==
  /\ marked[place[t]] = t
  /\ mapped[place[t]] = t \/ place[t] \in taken \/ fresh = place[t]

RefsInv ==
  \A t \in Roots:
    /\ IsFiniteSet(Holders(t)) /\ Cardinality(Holders(t)) <= refs[t]
    /\ refs[t] > 0 <=> place[t] # None
    /\ refs[t] > 0 /\ (Holders(t) # {} \/ ~poisoned) => Record(t)

PlacesInv == \A t, u \in Roots: t # u /\ place[t] # None => place[t] # place[u]

\* The thread whose turn it is, and the letter it is at.
BusyInv ==
  /\ busy # None => \E c \in Calls, l \in Threads: busy = <<c, l>> /\ InLease(c, l)
  /\ fresh # None =>
       \E c \in Calls, l \in Threads:
         /\ busy = <<c, l>>
         /\ \/ /\ Where(c, l) = "take" /\ refs[Wanted(c, l)] = 0 /\ \A t \in Roots: place[t] # fresh
               /\ mapped[fresh] = Wanted(c, l) \/ fresh \in taken
            \/ /\ Where(c, l) \in Gives(l) /\ hold[c][Key(c, l)] # {}
               /\ refs[Given(c, l)] = 1 /\ place[Given(c, l)] = fresh /\ mapped[fresh] = None

\* An acquisition starts with nothing and sees no poisoned manager before its end.
TurnInv ==
  \A c \in Calls, l \in Threads: Where(c, l) = "take" =>
    /\ hold[c][Key(c, l)] # roots
    /\ busy # <<c, l>> => hold[c][Key(c, l)] = {}
    /\ busy = <<c, l>> => ~poisoned

AliasInv == RefsInv /\ PlacesInv /\ BusyInv /\ TurnInv

-----------------------------------------------------------------------------
(* A call.                                                                  *)

\* Only the runner of the last check outlives its adapter's wait, and that is told.
Order(c) ==
  /\ run[c] # "none" => \/ at[c] = "running"
                        \/ part[c] = "after" /\ at[c] \in {"leave", "over"} /\ fail[c] = "RESIDUAL_DATA"
  /\ at[c] = "running" => run[c] # "none" /\ part[c] # "none"
  /\ part[c] = "after" => at[c] \in {"running", "leave", "over"}
  /\ at[c] \in {"idle", "take", "enter", "prepare"} => fail[c] = "ok"
  /\ at[c] = "running" /\ part[c] # "after" => fail[c] = "ok"
  /\ at[c] = "tidy" => fail[c] # "RESIDUAL_DATA"
  /\ fail[c] = "lost" => at[c] = "over" /\ run[c] = "none"
  /\ run[c] \in {"dirs", "take", "spawn", "capture", "wait", "judge"} => inner[c] = "ok"
  /\ run[c] = "kill" => inner[c] # "RESIDUAL_DATA"

Leases(c) ==
  /\ at[c] \in {"idle", "over"} => hold[c]["outer"] = {}
  /\ at[c] \in {"enter", "running", "prepare", "tidy", "close"} => hold[c]["outer"] = roots
  /\ part[c] # "after" => hold[c]["check"] = {}
  /\ run[c] = "dirs" => hold[c][Own(c)] = {}
  /\ run[c] \in {"spawn", "capture", "wait", "kill", "judge"} => hold[c][Own(c)] = roots
  /\ run[c] = "clean" => hold[c][Own(c)] \in {{}, roots}

Processes(c) ==
  /\ part[c] # "after" => child[c]["check"] # "alive" /\ "check" \notin space[c]
  /\ run[c] \in {"take", "spawn", "capture", "wait", "kill", "judge"} => Own(c) \in space[c]
  /\ run[c] \in {"dirs", "take", "undo", "spawn", "judge", "clean", "release"} => ~Alive(c)
  /\ \A k \in Kinds: child[c][k] = "alive" => k \in space[c] /\ hold[c][k] \in {{}, roots}

\* What a call will end with says that something may be left.
Debt(c) ==
  fail[c] \in {"RESIDUAL_DATA", "lost"} \/ (run[c] # "none" /\ inner[c] = "RESIDUAL_DATA")

\* Nothing is left of what a process was given.
Empty(c, k) == hold[c][k] = {} /\ child[c][k] # "alive"

\* A call without such a debt has put away all but what it is at.
Tidied(c) ==
  ~Debt(c) =>
    /\ run[c] = "none" => /\ Empty(c, "own") /\ Empty(c, "check")
                          /\ space[c] \subseteq {"kept"} \cup IF at[c] = "tidy" THEN {"own"} ELSE {}
    /\ run[c] # "none" /\ part[c] = "after" => Empty(c, "own") /\ "own" \notin space[c]
    /\ run[c] = "return" => Empty(c, Own(c))
    /\ run[c] = "release" => Own(c) \notin space[c]
    /\ run[c] \in {"dirs", "return"} /\ part[c] # "model" => Own(c) \notin space[c]
    /\ "kept" \in space[c] => fail[c] # "ok"

CallInv(c) == Order(c) /\ Leases(c) /\ Processes(c) /\ Tidied(c)

-----------------------------------------------------------------------------
\* The references, the markers and the letters are those of the leases.
Accounted ==
  /\ \A t \in Roots: refs[t] = Cardinality(Holders(t))
  /\ \A d \in Drives: marked[d] # None => \E t \in Roots: place[t] = d
  /\ \A d \in Drives: mapped[d] # None => fresh = d \/ \E t \in Roots: place[t] = d

\* They are unless a call has such a debt.
LettersInv == (\A c \in Calls: ~Debt(c)) => Accounted

\* The letters of a process that outlives the program are nobody else's.
OrphansInv ==
  ~limits.cleans /\ taken = {} =>
    \A c \in Calls, k \in Kinds: child[c][k] = "alive" /\ hold[c][k] = {} =>
      \A t \in roots: \E d \in Drives:
        marked[d] = t /\ mapped[d] = t /\ fresh # d /\ \A u \in Roots: place[u] # d

CliInv ==
  Typed /\ AliasInv /\ (\A c \in Calls: CallInv(c)) /\ LettersInv /\ OrphansInv

-----------------------------------------------------------------------------
(* What the proofs keep needing.                                            *)

LEMMA HasLeast ==
  ASSUME NEW T \in SUBSET Nat, T # {}
  PROVE  \E d \in T: \A e \in T: d <= e
<1> DEFINE R == {ss \in Nat \X Nat: ss[1] < ss[2]}
<1>1. IsWellFoundedOn(R, Nat) BY NatLessThanWellFounded DEF OpToRel
<1>2. \E d \in T: \A e \in T: ~ (<<e, d>> \in R)
  <2> HIDE DEF R
  <2> QED BY <1>1, WFMin
<1>3. PICK d \in T: \A e \in T: ~(<<e, d>> \in R) BY <1>2
<1>4. ASSUME NEW e \in T PROVE d <= e
  <2>1. d \in Nat /\ e \in Nat OBVIOUS
  <2>2. ~(e < d) BY <1>3, <2>1
  <2> QED BY <2>1, <2>2
<1> QED BY <1>4

\* The first free letter is one.
LEMMA LetterIsFree ==
  ASSUME Typed, FreeLetters # {}
  PROVE  Letter \in Drives /\ mapped[Letter] = None /\ \A t \in Roots: place[t] # Letter
<1>1. FreeLetters \in SUBSET Nat BY CliAssumption DEF FreeLetters
<1>2. \E d \in FreeLetters: \A e \in FreeLetters: d <= e BY <1>1, HasLeast
<1>3. Letter \in FreeLetters BY <1>2 DEF Letter
<1> QED BY <1>3 DEF FreeLetters

LEMMA BoundsTyped ==
  ASSUME limits \in Limits, Fault \/ NoFault
  PROVE  limits' \in Limits /\ limits'.cleans = limits.cleans
  BY DEF Limits, Fault, NoFault

LEMMA KeysTyped ==
  ASSUME NEW c \in Calls, NEW l \in Threads
  PROVE  /\ Own(c) \in Kinds /\ Key(c, l) \in Layers /\ Own(c) # "outer" /\ Own(c) \in Layers
         /\ Key(c, l) = "outer" <=> l = "outer"
         /\ l = "inner" => Key(c, l) = Own(c)
  BY DEF Own, Key, Kinds, Layers, Threads

LEMMA RootsAre ==
  ASSUME Typed
  PROVE  /\ roots \in {{"runtime"}, Roots} /\ roots # {} /\ roots \subseteq Roots /\ "runtime" \in roots
         /\ None \notin Roots /\ None \notin Drives
  BY CliAssumption DEF Typed, Roots

LEMMA HeldTyped ==
  ASSUME Typed, NEW c \in Calls, NEW k \in Layers
  PROVE  hold[c][k] \in Holds /\ hold[c][k] \subseteq roots
<1>1. hold[c][k] \in Holds BY DEF Typed
<1> QED BY <1>1, RootsAre DEF Holds

\* What an acquisition wants next, and what a release gives back next.
LEMMA WantedIs ==
  ASSUME Typed, NEW c \in Calls, NEW l \in Threads, hold[c][Key(c, l)] # roots
  PROVE  /\ Wanted(c, l) \in roots /\ Wanted(c, l) \in Roots /\ Wanted(c, l) \notin hold[c][Key(c, l)]
         /\ hold[c][Key(c, l)] \cup {Wanted(c, l)} \in Holds
<1>1. hold[c][Key(c, l)] \in Holds BY KeysTyped, HeldTyped
<1> QED BY <1>1, RootsAre DEF Holds, Wanted, Roots

LEMMA GivenIs ==
  ASSUME Typed, NEW c \in Calls, NEW l \in Threads, hold[c][Key(c, l)] # {}
  PROVE  /\ Given(c, l) \in roots /\ Given(c, l) \in Roots /\ Given(c, l) \in hold[c][Key(c, l)]
         /\ hold[c][Key(c, l)] \ {Given(c, l)} \in Holds
<1>1. hold[c][Key(c, l)] \in Holds BY KeysTyped, HeldTyped
<1> QED BY <1>1, RootsAre DEF Holds, Given, Roots

\* One layer of one call is changed.
LEMMA HoldIs ==
  ASSUME Typed, NEW c \in Calls, NEW k \in Layers, NEW S \in Holds,
         hold' = [hold EXCEPT ![c][k] = S], roots' = roots
  PROVE  /\ hold' \in [Calls -> [Layers -> Holds']] /\ hold'[c][k] = S
         /\ \A j \in Layers: j # k => hold'[c][j] = hold[c][j]
         /\ \A d \in Calls: d # c => hold'[d] = hold[d]
<1>1. hold \in [Calls -> [Layers -> Holds]] /\ Holds' = Holds BY DEF Typed, Holds
<1> QED BY <1>1

\* A holder more, or one less.
LEMMA HoldersGain ==
  ASSUME Typed, NEW c \in Calls, NEW k \in Layers, NEW t \in Roots, t \notin hold[c][k],
         hold[c][k] \cup {t} \in Holds,
         hold' = [hold EXCEPT ![c][k] = @ \cup {t}], roots' = roots, IsFiniteSet(Holders(t))
  PROVE  /\ IsFiniteSet(Holders(t)') /\ Cardinality(Holders(t)') = Cardinality(Holders(t)) + 1
         /\ Cardinality(Holders(t)) \in Nat
         /\ \A u \in Roots: u # t => Holders(u)' = Holders(u)
<1>1. /\ hold'[c][k] = hold[c][k] \cup {t}
      /\ \A j \in Layers: j # k => hold'[c][j] = hold[c][j]
      /\ \A d \in Calls: d # c => hold'[d] = hold[d]
  BY HoldIs
<1>2. \A d \in Calls, j \in Layers: hold'[d][j] = IF d = c /\ j = k THEN hold[c][k] \cup {t} ELSE hold[d][j]
  BY <1>1
<1>3. Holders(t)' = Holders(t) \cup {<<c, k>>}
  <2>1. ASSUME NEW x \in Calls \X Layers PROVE x \in Holders(t)' <=> x \in Holders(t) \cup {<<c, k>>}
    <3>1. x[1] \in Calls /\ x[2] \in Layers /\ x = <<x[1], x[2]>> OBVIOUS
    <3>2. x = <<c, k>> <=> x[1] = c /\ x[2] = k BY <3>1
    <3> QED BY <1>2, <3>1, <3>2 DEF Holders
  <2>2. Holders(t)' \subseteq Calls \X Layers /\ Holders(t) \cup {<<c, k>>} \subseteq Calls \X Layers
    BY DEF Holders
  <2> QED BY <2>1, <2>2
<1>4. <<c, k>> \notin Holders(t) BY DEF Holders
<1>5. ASSUME NEW u \in Roots, u # t PROVE Holders(u)' = Holders(u)
  <2>1. \A d \in Calls, j \in Layers: u \in hold'[d][j] <=> u \in hold[d][j] BY <1>2, <1>5
  <2> QED BY <2>1 DEF Holders
<1>6. Cardinality(Holders(t)) \in Nat BY FS_CardinalityType
<1> QED BY <1>3, <1>4, <1>5, <1>6, FS_AddElement

LEMMA HoldersLose ==
  ASSUME Typed, NEW c \in Calls, NEW k \in Layers, NEW t \in Roots, t \in hold[c][k],
         hold[c][k] \ {t} \in Holds,
         hold' = [hold EXCEPT ![c][k] = @ \ {t}], roots' = roots, IsFiniteSet(Holders(t))
  PROVE  /\ IsFiniteSet(Holders(t)') /\ Cardinality(Holders(t)') = Cardinality(Holders(t)) - 1
         /\ Cardinality(Holders(t)) \in Nat /\ Cardinality(Holders(t)') \in Nat
         /\ Cardinality(Holders(t)') = 0 => Holders(t)' = {}
         /\ Holders(t) # {}
         /\ \A u \in Roots: u # t => Holders(u)' = Holders(u)
<1>1. /\ hold'[c][k] = hold[c][k] \ {t}
      /\ \A j \in Layers: j # k => hold'[c][j] = hold[c][j]
      /\ \A d \in Calls: d # c => hold'[d] = hold[d]
  BY HoldIs
<1>2. \A d \in Calls, j \in Layers: hold'[d][j] = IF d = c /\ j = k THEN hold[c][k] \ {t} ELSE hold[d][j]
  BY <1>1
<1>3. Holders(t)' = Holders(t) \ {<<c, k>>}
  <2>1. ASSUME NEW x \in Calls \X Layers PROVE x \in Holders(t)' <=> x \in Holders(t) \ {<<c, k>>}
    <3>1. x[1] \in Calls /\ x[2] \in Layers /\ x = <<x[1], x[2]>> OBVIOUS
    <3>2. x = <<c, k>> <=> x[1] = c /\ x[2] = k BY <3>1
    <3> QED BY <1>2, <3>1, <3>2 DEF Holders
  <2>2. Holders(t)' \subseteq Calls \X Layers /\ Holders(t) \subseteq Calls \X Layers
    BY DEF Holders
  <2> QED BY <2>1, <2>2
<1>4. <<c, k>> \in Holders(t) BY DEF Holders
<1>5. ASSUME NEW u \in Roots, u # t PROVE Holders(u)' = Holders(u)
  <2>1. \A d \in Calls, j \in Layers: u \in hold'[d][j] <=> u \in hold[d][j] BY <1>2, <1>5
  <2> QED BY <2>1 DEF Holders
<1>6. Cardinality(Holders(t)) \in Nat BY FS_CardinalityType
<1>7. IsFiniteSet(Holders(t)') /\ Cardinality(Holders(t)') = Cardinality(Holders(t)) - 1
  BY <1>3, <1>4, FS_RemoveElement
<1>8. Cardinality(Holders(t)') \in Nat BY <1>7, FS_CardinalityType
<1>9. Cardinality(Holders(t)') = 0 => Holders(t)' = {} BY <1>7, FS_EmptySet
<1> QED BY <1>4, <1>5, <1>6, <1>7, <1>8, <1>9

-----------------------------------------------------------------------------
(* A step of one thread of one call.                                        *)

\* Where the letter is that the thread whose turn it is works at.
AtLetter(c, l) ==
  \/ /\ Where(c, l) = "take" /\ refs[Wanted(c, l)] = 0 /\ \A t \in Roots: place[t] # fresh
     /\ mapped[fresh] = Wanted(c, l) \/ fresh \in taken
  \/ /\ Where(c, l) \in Gives(l) /\ hold[c][Key(c, l)] # {}
     /\ refs[Given(c, l)] = 1 /\ place[Given(c, l)] = fresh /\ mapped[fresh] = None

LEMMA TurnIs ==
  ASSUME Typed, BusyInv, NEW c \in Calls, NEW l \in Threads, MyTurn(c, l), fresh # None
  PROVE  busy = <<c, l>> /\ fresh \in Drives /\ AtLetter(c, l)
<1>1. PICK d \in Calls, m \in Threads: busy = <<d, m>> /\ AtLetter(d, m)
  BY DEF BusyInv, AtLetter
<1>2. <<d, m>> # None BY CliAssumption
<1>3. <<d, m>> = <<c, l>> BY <1>1, <1>2 DEF MyTurn
<1>4. d = c /\ m = l BY <1>3
<1> QED BY <1>1, <1>4 DEF Typed

\* All that belongs to other threads is left alone.
OnlyThread(c, l) ==
  /\ \A d \in Calls, m \in Threads: d # c \/ m # l =>
       Where(d, m)' = Where(d, m) /\ hold'[d][Key(d, m)] = hold[d][Key(d, m)]
  /\ part' = part /\ roots' = roots /\ busy' \in {None, <<c, l>>}

LEMMA MoveIs ==
  ASSUME Typed, NEW c \in Calls, NEW l \in Threads, NEW s, Move(c, l, s)
  PROVE  /\ Where(c, l)' = s
         /\ \A d \in Calls, m \in Threads: d # c \/ m # l => Where(d, m)' = Where(d, m)
         /\ \A d \in Calls: d # c => at'[d] = at[d] /\ run'[d] = run[d]
         /\ l = "outer" => at'[c] = s /\ run' = run
         /\ l = "inner" => run'[c] = s /\ at' = at
<1>1. CASE l = "outer"
  <2>1. at' = [at EXCEPT ![c] = s] /\ run' = run BY <1>1 DEF Move, At
  <2> QED BY <1>1, <2>1 DEF Typed, Where, Threads
<1>2. CASE l = "inner"
  <2>1. run' = [run EXCEPT ![c] = s] /\ at' = at BY <1>2 DEF Move, Run
  <2> QED BY <1>2, <2>1 DEF Typed, Where, Threads
<1> QED BY <1>1, <1>2 DEF Threads

LEMMA OnlyThreadBy ==
  ASSUME Typed, NEW c \in Calls, NEW l \in Threads, UNCHANGED <<roots, part>>,
         busy' \in {None, <<c, l>>},
         hold' = hold \/ \E S \in Holds: hold' = [hold EXCEPT ![c][Key(c, l)] = S],
         UNCHANGED <<at, run>> \/ \E s \in Adapters \cup Runs: Move(c, l, s)
  PROVE  OnlyThread(c, l)
<1>1. ASSUME NEW d \in Calls, NEW m \in Threads, d # c \/ m # l
      PROVE  Where(d, m)' = Where(d, m) /\ hold'[d][Key(d, m)] = hold[d][Key(d, m)]
  <2>1. Where(d, m)' = Where(d, m) BY <1>1, MoveIs DEF Where
  <2>2. d # c \/ Key(d, m) # Key(c, l) BY <1>1, KeysTyped DEF Threads
  <2>3. Key(d, m) \in Layers /\ Key(c, l) \in Layers BY KeysTyped
  <2>4. hold'[d][Key(d, m)] = hold[d][Key(d, m)]
    <3>1. CASE hold' = hold BY <3>1
    <3>2. CASE hold' # hold
      <4>1. PICK S \in Holds: hold' = [hold EXCEPT ![c][Key(c, l)] = S] BY <3>2
      <4> QED BY <2>2, <2>3, <4>1, HoldIs
    <3> QED BY <3>1, <3>2
  <2> QED BY <2>1, <2>4
<1> QED BY <1>1 DEF OnlyThread

LEMMA TurnStep ==
  ASSUME Typed, AliasInv, NEW c \in Calls, NEW l \in Threads, MyTurn(c, l), OnlyThread(c, l),
         busy' # None => InLease(c, l)',
         Where(c, l)' = "take" =>
           /\ hold'[c][Key(c, l)] # roots
           /\ busy' # <<c, l>> => hold'[c][Key(c, l)] = {}
           /\ busy' = <<c, l>> => ~poisoned',
         fresh' # None => busy' = <<c, l>> /\ AtLetter(c, l)'
  PROVE  TurnInv' /\ BusyInv'
<1>1. \A d \in Calls, m \in Threads: Key(d, m)' = Key(d, m) BY DEF OnlyThread, Key, Own
<1>2. <<c, l>> # None BY CliAssumption
<1>3. ASSUME NEW d \in Calls, NEW m \in Threads, Where(d, m)' = "take"
      PROVE  /\ hold'[d][Key(d, m)'] # roots'
             /\ busy' # <<d, m>> => hold'[d][Key(d, m)'] = {}
             /\ busy' = <<d, m>> => ~poisoned'
  <2>1. CASE d = c /\ m = l BY <1>1, <1>3, <2>1 DEF OnlyThread
  <2>2. CASE d # c \/ m # l
    <3>1. Where(d, m) = "take" /\ hold'[d][Key(d, m)] = hold[d][Key(d, m)] BY <1>3, <2>2 DEF OnlyThread
    <3>2. <<d, m>> # <<c, l>> /\ <<d, m>> # None BY <2>2, CliAssumption
    <3>3. busy # <<d, m>> /\ busy' # <<d, m>> BY <3>2 DEF MyTurn, OnlyThread
    <3> QED BY <1>1, <3>1, <3>3 DEF AliasInv, TurnInv, OnlyThread
  <2> QED BY <2>1, <2>2
<1>4. TurnInv' BY <1>3 DEF TurnInv
<1>5. BusyInv'
  <2>1. busy' # None => busy' = <<c, l>> /\ InLease(c, l)' BY DEF OnlyThread
  <2> QED BY <2>1 DEF BusyInv, AtLetter
<1> QED BY <1>4, <1>5

\* Where the records and the holders of every root are what they were.
LEMMA RefsStay ==
  ASSUME Typed, RefsInv, PlacesInv, UNCHANGED <<roots, place, refs, hold>>,
         poisoned => poisoned',
         \A t \in Roots: refs[t] > 0 => marked'[place[t]] = marked[place[t]],
         \A t \in Roots: refs[t] > 0 =>
           \/ mapped'[place[t]] = mapped[place[t]] /\ (fresh = place[t] => fresh' = fresh)
           \/ place[t] \in taken' \/ fresh' = place[t],
         taken \subseteq taken'
  PROVE  RefsInv' /\ PlacesInv'
<1>1. \A t \in Roots: Holders(t)' = Holders(t) BY DEF Holders
<1>2. \A t \in Roots: refs[t] > 0 /\ Record(t) => Record(t)' BY DEF Record
<1> QED BY <1>1, <1>2 DEF RefsInv, PlacesInv, Typed

-----------------------------------------------------------------------------
(* What a step means to the calls.                                          *)

LEMMA CallStays ==
  ASSUME NEW d \in Calls, CallInv(d), roots' = roots, at'[d] = at[d], run'[d] = run[d], part'[d] = part[d],
         fail'[d] = fail[d], inner'[d] = inner[d], hold'[d] = hold[d], child'[d] = child[d],
         space'[d] = space[d]
  PROVE  CallInv(d)' /\ (Debt(d) <=> Debt(d)')
<1>1. Own(d)' = Own(d) BY DEF Own
<1>2. Order(d)' BY DEF CallInv, Order
<1>3. Leases(d)' BY <1>1 DEF CallInv, Leases
<1>4. Processes(d)' BY <1>1 DEF CallInv, Processes, Alive
<1>5. Debt(d) <=> Debt(d)' BY DEF Debt
<1>6. Tidied(d)' BY <1>1, <1>5 DEF CallInv, Tidied, Empty
<1> QED BY <1>2, <1>3, <1>4, <1>5, <1>6 DEF CallInv

Status(c, l) == IF l = "outer" THEN fail[c] ELSE inner[c]

\* A thread in its lease keeps at it, has all, stops, gives back or is done.
Goal(c, l) ==
  \/ Where(c, l)' = Where(c, l) /\ Status(c, l)' = Status(c, l)
  \/ /\ Where(c, l) = "take" /\ Where(c, l)' = (IF l = "outer" THEN "enter" ELSE "spawn")
     /\ hold'[c][Key(c, l)] = roots /\ Status(c, l)' = Status(c, l)
  \/ /\ Where(c, l) = "take" /\ Where(c, l)' = "undo"
     /\ Status(c, l)' \in {"CANCELLED", "RESIDUAL_DATA"}
  \/ /\ Where(c, l) \in Gives(l) /\ Where(c, l)' = Where(c, l) /\ Status(c, l)' = "RESIDUAL_DATA"
  \/ /\ Where(c, l) \in Gives(l) /\ hold'[c][Key(c, l)] = {} /\ Status(c, l)' = Status(c, l)
     /\ Where(c, l)' = (IF l = "outer" THEN "over" ELSE IF run[c] = "undo" THEN "clean" ELSE "return")

\* The rest of the calls is what it was.
Beside(c, l) ==
  /\ UNCHANGED <<roots, part, child, space>>
  /\ \A d \in Calls: d # c => /\ at'[d] = at[d] /\ run'[d] = run[d] /\ fail'[d] = fail[d]
                              /\ inner'[d] = inner[d] /\ hold'[d] = hold[d]
  /\ l = "outer" => run'[c] = run[c] /\ inner'[c] = inner[c]
  /\ l = "inner" => at'[c] = at[c] /\ fail'[c] = fail[c]
  /\ \A j \in Layers: j # Key(c, l) => hold'[c][j] = hold[c][j]

LEMMA LeaseCallOuter ==
  ASSUME Typed, NEW c \in Calls, CallInv(c), InLease(c, "outer"), Beside(c, "outer"), Goal(c, "outer")
  PROVE  CallInv(c)' /\ (Debt(c) => Debt(c)')
<1>1. /\ run'[c] = run[c] /\ inner'[c] = inner[c] /\ part'[c] = part[c] /\ roots' = roots
      /\ child'[c] = child[c] /\ space'[c] = space[c] /\ Own(c)' = Own(c) /\ Own(c) \in {"own", "check"}
      /\ hold'[c]["own"] = hold[c]["own"] /\ hold'[c]["check"] = hold[c]["check"]
  BY DEF Beside, Own, Key, Layers, Kinds
<1>2. at[c] \in {"take", "undo", "leave"} BY DEF InLease, Where, Gives
<1>3. \/ at'[c] = at[c] /\ fail'[c] = fail[c]
      \/ at[c] = "take" /\ at'[c] = "enter" /\ hold'[c]["outer"] = roots /\ fail'[c] = fail[c]
      \/ at[c] = "take" /\ at'[c] = "undo" /\ fail'[c] \in {"CANCELLED", "RESIDUAL_DATA"}
      \/ at[c] \in {"undo", "leave"} /\ at'[c] = at[c] /\ fail'[c] = "RESIDUAL_DATA"
      \/ /\ at[c] \in {"undo", "leave"} /\ hold'[c]["outer"] = {} /\ fail'[c] = fail[c]
         /\ at'[c] = "over"
  BY DEF Goal, Where, Status, Gives, Key
<1>4. Order(c)' BY <1>1, <1>2, <1>3 DEF CallInv, Order
<1>5. Leases(c)' BY <1>1, <1>2, <1>3 DEF CallInv, Leases
<1>6. Processes(c)' BY <1>1 DEF CallInv, Processes, Alive, Kinds
<1>7. Debt(c) => Debt(c)' BY <1>1, <1>2, <1>3 DEF CallInv, Order, Debt
<1>8. Tidied(c)'
  <2>1. Tidied(c) BY DEF CallInv
  <2> QED BY <2>1, <1>1, <1>2, <1>3, <1>7 DEF Tidied, Empty
<1> QED BY <1>4, <1>5, <1>6, <1>7, <1>8 DEF CallInv

LEMMA LeaseCallInner ==
  ASSUME Typed, NEW c \in Calls, CallInv(c), InLease(c, "inner"), Beside(c, "inner"), Goal(c, "inner"),
         hold'[c][Own(c)] \in Holds
  PROVE  CallInv(c)' /\ (Debt(c) => Debt(c)')
<1>1. /\ at'[c] = at[c] /\ fail'[c] = fail[c] /\ part'[c] = part[c] /\ roots' = roots
      /\ child'[c] = child[c] /\ space'[c] = space[c] /\ Own(c)' = Own(c) /\ Own(c) \in {"own", "check"}
      /\ hold'[c]["outer"] = hold[c]["outer"]
      /\ part[c] # "after" <=> Own(c) = "own"
      /\ Own(c) = "own" => hold'[c]["check"] = hold[c]["check"]
      /\ Own(c) = "check" => hold'[c]["own"] = hold[c]["own"]
  BY DEF Beside, Own, Key, Layers, Kinds
<1>2. run[c] \in {"take", "undo", "release"} BY DEF InLease, Where, Gives
<1>3. \/ run'[c] = run[c] /\ inner'[c] = inner[c]
      \/ run[c] = "take" /\ run'[c] = "spawn" /\ hold'[c][Own(c)] = roots /\ inner'[c] = inner[c]
      \/ run[c] = "take" /\ run'[c] = "undo" /\ inner'[c] \in {"CANCELLED", "RESIDUAL_DATA"}
      \/ run[c] \in {"undo", "release"} /\ run'[c] = run[c] /\ inner'[c] = "RESIDUAL_DATA"
      \/ /\ run[c] \in {"undo", "release"} /\ hold'[c][Own(c)] = {} /\ inner'[c] = inner[c]
         /\ run'[c] = IF run[c] = "undo" THEN "clean" ELSE "return"
  BY DEF Goal, Where, Status, Gives, Key
<1>4. Order(c)' BY <1>1, <1>2, <1>3 DEF CallInv, Order
<1>5. Leases(c)' BY <1>1, <1>2, <1>3 DEF CallInv, Leases
<1>6. Processes(c)'
  <2>1. Processes(c) BY DEF CallInv
  <2>2. child[c][Own(c)] # "alive" BY <1>2, <2>1 DEF Processes, Alive
  <2> QED BY <2>1, <2>2, <1>1, <1>2, <1>3 DEF Processes, Alive, Kinds
<1>7. Debt(c) => Debt(c)' BY <1>1, <1>2, <1>3 DEF CallInv, Order, Debt
<1>8. Tidied(c)'
  <2>1. Tidied(c) BY DEF CallInv
  <2>2. child[c][Own(c)] # "alive" BY <1>2 DEF CallInv, Processes, Alive
  <2> QED BY <2>1, <2>2, <1>1, <1>2, <1>3, <1>7 DEF Tidied, Empty
<1> QED BY <1>4, <1>5, <1>6, <1>7, <1>8 DEF CallInv

LEMMA LeaseCalls ==
  ASSUME Typed, NEW c \in Calls, NEW l \in Threads, \A d \in Calls: CallInv(d), InLease(c, l), Beside(c, l),
         Goal(c, l), hold'[c][Key(c, l)] \in Holds
  PROVE  \A d \in Calls: CallInv(d)' /\ (Debt(d) => Debt(d)')
<1>1. CallInv(c)' /\ (Debt(c) => Debt(c)')
  <2>1. CASE l = "outer" BY <2>1, LeaseCallOuter
  <2>2. CASE l = "inner" BY <2>2, KeysTyped, LeaseCallInner
  <2> QED BY <2>1, <2>2 DEF Threads
<1>2. ASSUME NEW d \in Calls, d # c PROVE CallInv(d)' /\ (Debt(d) => Debt(d)')
  BY <1>2, CallStays DEF Beside
<1> QED BY <1>1, <1>2

\* The letters of a process that outlives the program are not touched.
LEMMA OrphansStay ==
  ASSUME OrphansInv, roots' = roots, limits'.cleans = limits.cleans, taken \subseteq taken',
         \A c \in Calls, k \in Kinds:
           child'[c][k] = "alive" /\ hold'[c][k] = {} => child[c][k] = "alive" /\ hold[c][k] = {},
         \A d \in Drives: mapped[d] # None /\ marked[d] = mapped[d] /\ fresh # d
                            /\ (\A u \in Roots: place[u] # d) =>
           /\ mapped'[d] = mapped[d] /\ marked'[d] = marked[d] /\ fresh' # d
           /\ \A u \in Roots: place'[u] # d,
         None \notin roots
  PROVE  OrphansInv'
  BY DEF OrphansInv

LEMMA LeaseStays ==
  ASSUME CliInv, Typed', NEW c \in Calls, NEW l \in Threads, InLease(c, l), MyTurn(c, l),
         Beside(c, l), Goal(c, l), OnlyThread(c, l), UNCHANGED taken, limits'.cleans = limits.cleans,
         RefsInv', PlacesInv',
         busy' # None => InLease(c, l)',
         Where(c, l)' = "take" =>
           /\ hold'[c][Key(c, l)] # roots
           /\ busy' # <<c, l>> => hold'[c][Key(c, l)] = {}
           /\ busy' = <<c, l>> => ~poisoned',
         fresh' # None => busy' = <<c, l>> /\ AtLetter(c, l)',
         Debt(c)' \/ (Accounted => Accounted'),
         \A d \in Drives: mapped[d] # None /\ marked[d] = mapped[d] /\ fresh # d
                            /\ (\A u \in Roots: place[u] # d) =>
           /\ mapped'[d] = mapped[d] /\ marked'[d] = marked[d] /\ fresh' # d
           /\ \A u \in Roots: place'[u] # d
  PROVE  CliInv'
<1>0. Typed /\ AliasInv /\ (\A d \in Calls: CallInv(d)) /\ LettersInv /\ OrphansInv BY DEF CliInv
<1>1. TurnInv' /\ BusyInv' BY <1>0, TurnStep
<1>2. AliasInv' BY <1>1 DEF AliasInv
<1>3. Holds' = Holds /\ Key(c, l) \in Layers BY KeysTyped DEF Beside, Holds
<1>4. hold'[c][Key(c, l)] \in Holds
  <2>1. hold' \in [Calls -> [Layers -> Holds']] BY DEF Typed
  <2> QED BY <1>3, <2>1
<1>5. \A d \in Calls: CallInv(d)' /\ (Debt(d) => Debt(d)') BY <1>0, <1>4, LeaseCalls
<1>6. LettersInv' BY <1>0, <1>5 DEF LettersInv
<1>7. ASSUME NEW d \in Calls, NEW k \in Kinds, child'[d][k] = "alive", hold'[d][k] = {}
      PROVE  child[d][k] = "alive" /\ hold[d][k] = {}
  <2>1. child[d][k] = "alive" BY <1>7 DEF Beside
  <2>2. k # Key(c, l) \/ d # c
    <3>1. SUFFICES ASSUME k = Key(c, l), d = c PROVE FALSE OBVIOUS
    <3>2. k # "outer" BY DEF Kinds
    <3>3. l = "inner" /\ k = Own(c) BY <3>1, <3>2, KeysTyped DEF Threads
    <3>4. run[c] \in {"take", "undo", "release"} BY <3>3 DEF InLease, Where, Gives
    <3>5. child[c][Own(c)] # "alive" BY <1>0, <3>4 DEF CallInv, Processes, Alive
    <3> QED BY <2>1, <3>1, <3>3, <3>5
  <2>3. k \in Layers BY DEF Layers
  <2>4. hold[d][k] = hold'[d][k] BY <2>2, <2>3 DEF Beside
  <2> QED BY <1>7, <2>1, <2>4
<1>8. OrphansInv' BY <1>0, <1>7, OrphansStay, RootsAre DEF Beside
<1> QED BY <1>2, <1>5, <1>6, <1>8 DEF CliInv

\* A thread that moves within its lease, or out of it, disturbs no other.
LEMMA MoveLeaves ==
  ASSUME Typed, NEW c \in Calls, NEW l \in Threads, NEW s, Move(c, l, s),
         s \in IF l = "outer" THEN Adapters ELSE Runs
  PROVE  /\ at' \in [Calls -> Adapters] /\ run' \in [Calls -> Runs]
         /\ s \in Adapters \cup Runs
  BY DEF Typed, Move, At, Run

LEMMA CodeIs ==
  ASSUME Typed, NEW c \in Calls, NEW l \in Threads, NEW code \in Codes, Code(c, l, code)
  PROVE  /\ fail' \in [Calls -> Codes \cup {"lost"}] /\ inner' \in [Calls -> Codes]
         /\ Status(c, l)' = code
         /\ \A d \in Calls: d # c => fail'[d] = fail[d] /\ inner'[d] = inner[d]
         /\ l = "outer" => inner' = inner
         /\ l = "inner" => fail' = fail
  BY DEF Typed, Code, Fail, Inner, Status, Threads

LEMMA BesideBy ==
  ASSUME Typed, NEW c \in Calls, NEW l \in Threads, UNCHANGED <<roots, part, child, space>>,
         UNCHANGED <<at, run>> \/ \E s \in Adapters \cup Runs: Move(c, l, s),
         UNCHANGED <<fail, inner>> \/ \E code \in Codes: Code(c, l, code),
         hold' = hold \/ \E S \in Holds: hold' = [hold EXCEPT ![c][Key(c, l)] = S]
  PROVE  Beside(c, l)
<1>1. \A d \in Calls: d # c => at'[d] = at[d] /\ run'[d] = run[d] BY MoveIs
<1>2. \A d \in Calls: d # c => fail'[d] = fail[d] /\ inner'[d] = inner[d] BY CodeIs
<1>3. /\ \A d \in Calls: d # c => hold'[d] = hold[d]
      /\ \A j \in Layers: j # Key(c, l) => hold'[c][j] = hold[c][j]
  <2>1. CASE hold' = hold BY <2>1
  <2>2. CASE hold' # hold
    <3>1. PICK S \in Holds: hold' = [hold EXCEPT ![c][Key(c, l)] = S] BY <2>2
    <3>2. Key(c, l) \in Layers BY KeysTyped
    <3> QED BY <3>1, <3>2, HoldIs
  <2> QED BY <2>1, <2>2
<1>4. l = "outer" => run'[c] = run[c] /\ inner'[c] = inner[c] BY MoveIs, CodeIs
<1>5. l = "inner" => at'[c] = at[c] /\ fail'[c] = fail[c] BY MoveIs, CodeIs
<1> QED BY <1>1, <1>2, <1>3, <1>4, <1>5 DEF Beside

\* One root more, and the lease is complete or goes on.
LEMMA GotIs ==
  ASSUME Typed, TurnInv, NEW c \in Calls, NEW l \in Threads, Taking(c, l), Got(c, l, Wanted(c, l)),
         UNCHANGED <<roots, part, child, space, fail, inner>>
  PROVE  /\ InLease(c, l) /\ hold[c][Key(c, l)] # roots
         /\ Wanted(c, l) \in Roots /\ Wanted(c, l) \notin hold[c][Key(c, l)]
         /\ hold[c][Key(c, l)] \cup {Wanted(c, l)} \in Holds
         /\ hold' = [hold EXCEPT ![c][Key(c, l)] = @ \cup {Wanted(c, l)}]
         /\ hold' \in [Calls -> [Layers -> Holds']]
         /\ at' \in [Calls -> Adapters] /\ run' \in [Calls -> Runs]
         /\ busy' \in (Calls \X Threads) \cup {None} /\ busy' \in {None, <<c, l>>}
         /\ Beside(c, l) /\ OnlyThread(c, l) /\ Goal(c, l)
         /\ busy' # None => InLease(c, l)'
         /\ Where(c, l)' = "take" => hold'[c][Key(c, l)] # roots /\ busy' = <<c, l>>
<1> DEFINE S == hold[c][Key(c, l)] \cup {Wanted(c, l)}
           s == IF l = "outer" THEN "enter" ELSE "spawn"
<1>1. InLease(c, l) /\ Where(c, l) = "take" BY DEF Taking, InLease
<1>2. hold[c][Key(c, l)] # roots BY <1>1 DEF TurnInv
<1>3. Wanted(c, l) \in Roots /\ Wanted(c, l) \notin hold[c][Key(c, l)] /\ S \in Holds BY <1>2, WantedIs
<1>4. hold' = [hold EXCEPT ![c][Key(c, l)] = @ \cup {Wanted(c, l)}] BY DEF Got
<1>5. hold' = [hold EXCEPT ![c][Key(c, l)] = S] BY <1>4
<1>6. Key(c, l) \in Layers BY KeysTyped
<1>7. hold' \in [Calls -> [Layers -> Holds']] /\ hold'[c][Key(c, l)] = S BY <1>3, <1>5, <1>6, HoldIs
<1>8. <<c, l>> \in Calls \X Threads OBVIOUS
<1>9. CASE S = roots
  <2>1. busy' = None /\ Move(c, l, s) BY <1>9 DEF Got
  <2>2. s \in (IF l = "outer" THEN Adapters ELSE Runs) /\ s # "take" BY DEF Adapters, Runs
  <2>3. at' \in [Calls -> Adapters] /\ run' \in [Calls -> Runs] /\ s \in Adapters \cup Runs
    BY <2>1, <2>2, MoveLeaves
  <2>4. Where(c, l)' = s BY <2>1, MoveIs
  <2>5. Status(c, l)' = Status(c, l) BY DEF Status
  <2>6. Goal(c, l) BY <1>1, <1>7, <1>9, <2>4, <2>5 DEF Goal
  <2>7. Beside(c, l) BY <1>3, <1>5, <2>1, <2>3, BesideBy
  <2>8. OnlyThread(c, l) BY <1>3, <1>5, <2>1, <2>3, OnlyThreadBy
  <2> HIDE DEF s, S
  <2> QED BY <1>1, <1>2, <1>3, <1>4, <1>7, <2>1, <2>2, <2>3, <2>4, <2>6, <2>7, <2>8 DEF S
<1>10. CASE S # roots
  <2>1. busy' = <<c, l>> /\ UNCHANGED <<at, run>> BY <1>10 DEF Got
  <2>2. at' \in [Calls -> Adapters] /\ run' \in [Calls -> Runs] BY <2>1 DEF Typed
  <2>3. Where(c, l)' = Where(c, l) BY <2>1 DEF Where
  <2>4. Status(c, l)' = Status(c, l) BY DEF Status
  <2>5. Goal(c, l) BY <2>3, <2>4 DEF Goal
  <2>6. Beside(c, l) BY <1>3, <1>5, <2>1, BesideBy
  <2>7. OnlyThread(c, l) BY <1>3, <1>5, <2>1, OnlyThreadBy
  <2>8. InLease(c, l)' BY <1>1, <2>3 DEF InLease
  <2> HIDE DEF S
  <2> QED BY <1>1, <1>2, <1>3, <1>4, <1>7, <1>8, <1>10, <2>1, <2>2, <2>5, <2>6, <2>7, <2>8 DEF S
<1> QED BY <1>9, <1>10

-----------------------------------------------------------------------------
(* The steps of a lease.                                                    *)

LEMMA TakerSees ==
  ASSUME Typed, AliasInv, NEW c \in Calls, NEW l \in Threads, Taking(c, l)
  PROVE  /\ Where(c, l) = "take" /\ MyTurn(c, l) /\ InLease(c, l)
         /\ hold[c][Key(c, l)] # roots
         /\ Wanted(c, l) \in roots /\ Wanted(c, l) \in Roots
         /\ Wanted(c, l) \notin hold[c][Key(c, l)]
         /\ (hold[c][Key(c, l)] = {} => ~poisoned) => ~poisoned
         /\ fresh # None =>
              /\ busy = <<c, l>> /\ ~poisoned /\ fresh \in Drives
              /\ refs[Wanted(c, l)] = 0 /\ \A t \in Roots: place[t] # fresh
              /\ mapped[fresh] = Wanted(c, l) \/ fresh \in taken
<1>1. Where(c, l) = "take" /\ MyTurn(c, l) /\ InLease(c, l) BY DEF Taking, InLease
<1>2. /\ hold[c][Key(c, l)] # roots
      /\ busy # <<c, l>> => hold[c][Key(c, l)] = {}
      /\ busy = <<c, l>> => ~poisoned
  BY <1>1 DEF AliasInv, TurnInv
<1>3. Where(c, l) \notin Gives(l) BY <1>1 DEF Gives
<1>4. fresh # None => busy = <<c, l>> /\ fresh \in Drives /\ AtLetter(c, l) BY <1>1, TurnIs DEF AliasInv
<1> QED BY <1>1, <1>2, <1>3, <1>4, WantedIs DEF AtLetter

LEMMA ShareLetterStays ==
  ASSUME CliInv, NEW c \in Calls, NEW l \in Threads, ShareLetter(c, l)
  PROVE  CliInv'
<1>0. PICK t: t = Wanted(c, l) OBVIOUS
<1>1. Typed /\ AliasInv /\ RefsInv /\ PlacesInv /\ TurnInv BY DEF CliInv, AliasInv
<1>2. /\ Taking(c, l) /\ MayTake(c, l) /\ refs[t] > 0
      /\ refs' = [refs EXCEPT ![t] = @ + 1] /\ Got(c, l, t)
      /\ UNCHANGED <<roots, limits, mapped, marked, child, taken, space, place, poisoned, fresh, part,
                     aborted, fail, inner>>
  BY <1>0 DEF ShareLetter, machine, codes
<1>3. /\ InLease(c, l) /\ hold[c][Key(c, l)] # roots
      /\ t \in Roots /\ t \notin hold[c][Key(c, l)]
      /\ hold[c][Key(c, l)] \cup {t} \in Holds
      /\ hold' = [hold EXCEPT ![c][Key(c, l)] = @ \cup {t}]
      /\ hold' \in [Calls -> [Layers -> Holds']]
      /\ at' \in [Calls -> Adapters] /\ run' \in [Calls -> Runs]
      /\ busy' \in (Calls \X Threads) \cup {None} /\ busy' \in {None, <<c, l>>}
      /\ Beside(c, l) /\ OnlyThread(c, l) /\ Goal(c, l)
      /\ busy' # None => InLease(c, l)'
      /\ Where(c, l)' = "take" => hold'[c][Key(c, l)] # roots /\ busy' = <<c, l>>
  BY <1>0, <1>1, <1>2, GotIs
<1>4. MyTurn(c, l) /\ ~poisoned /\ fresh = None BY <1>0, <1>1, <1>2, TakerSees DEF MayTake
<1>5. Typed'
  <2>1. refs' \in [Roots -> Nat] BY <1>1, <1>2, <1>3 DEF Typed
  <2> QED BY <1>1, <1>2, <1>3, <2>1 DEF Typed
<1>6. Key(c, l) \in Layers BY KeysTyped
<1>7. /\ IsFiniteSet(Holders(t)') /\ Cardinality(Holders(t)') = Cardinality(Holders(t)) + 1
      /\ Cardinality(Holders(t)) \in Nat
      /\ \A u \in Roots: u # t => Holders(u)' = Holders(u)
  <2>1. IsFiniteSet(Holders(t)) BY <1>1, <1>3 DEF RefsInv
  <2> QED BY <1>1, <1>2, <1>3, <1>6, <2>1, HoldersGain
<1>8. refs'[t] = refs[t] + 1 /\ \A u \in Roots: u # t => refs'[u] = refs[u] BY <1>1, <1>2, <1>3 DEF Typed
<1>9. \A u \in Roots: Record(u)' <=> Record(u) BY <1>2 DEF Record
<1>10. RefsInv'
  <2>1. ASSUME NEW u \in Roots
        PROVE  /\ IsFiniteSet(Holders(u)') /\ Cardinality(Holders(u)') <= refs'[u]
               /\ refs'[u] > 0 <=> place'[u] # None
               /\ refs'[u] > 0 => Record(u)'
    <3>1. refs[u] \in Nat BY <1>1 DEF Typed
    <3>2. /\ IsFiniteSet(Holders(u)) /\ Cardinality(Holders(u)) <= refs[u]
          /\ refs[u] > 0 <=> place[u] # None
          /\ refs[u] > 0 => Record(u)
      BY <1>1, <1>4 DEF RefsInv
    <3>3. CASE u = t BY <3>1, <3>2, <3>3, <1>2, <1>7, <1>8, <1>9
    <3>4. CASE u # t BY <3>1, <3>2, <3>4, <1>2, <1>7, <1>8, <1>9
    <3> QED BY <3>3, <3>4
  <2> QED BY <2>1 DEF RefsInv
<1>11. PlacesInv' BY <1>1, <1>2 DEF PlacesInv
<1>12. Accounted => Accounted'
  <2>1. ASSUME Accounted, NEW u \in Roots PROVE refs'[u] = Cardinality(Holders(u)')
    BY <2>1, <1>7, <1>8 DEF Accounted
  <2> QED BY <2>1, <1>2 DEF Accounted
<1>13. limits'.cleans = limits.cleans /\ taken' = taken BY <1>2
<1> QED BY <1>2, <1>3, <1>4, <1>5, <1>10, <1>11, <1>12, <1>13, LeaseStays

LEMMA MarkLetterStays ==
  ASSUME CliInv, NEW c \in Calls, NEW l \in Threads, MarkLetter(c, l)
  PROVE  CliInv'
<1>0. PICK t: t = Wanted(c, l) OBVIOUS
<1>1. Typed /\ AliasInv /\ RefsInv /\ PlacesInv /\ TurnInv BY DEF CliInv, AliasInv
<1>2. /\ Taking(c, l) /\ fresh # None
      /\ marked' = [marked EXCEPT ![fresh] = t] /\ place' = [place EXCEPT ![t] = fresh]
      /\ refs' = [refs EXCEPT ![t] = 1] /\ Got(c, l, t) /\ fresh' = None
      /\ UNCHANGED <<roots, limits, mapped, child, taken, space, poisoned, part, aborted, fail, inner>>
  BY <1>0 DEF MarkLetter, codes
<1>3. /\ InLease(c, l) /\ hold[c][Key(c, l)] # roots
      /\ t \in Roots /\ t \notin hold[c][Key(c, l)]
      /\ hold[c][Key(c, l)] \cup {t} \in Holds
      /\ hold' = [hold EXCEPT ![c][Key(c, l)] = @ \cup {t}]
      /\ hold' \in [Calls -> [Layers -> Holds']]
      /\ at' \in [Calls -> Adapters] /\ run' \in [Calls -> Runs]
      /\ busy' \in (Calls \X Threads) \cup {None} /\ busy' \in {None, <<c, l>>}
      /\ Beside(c, l) /\ OnlyThread(c, l) /\ Goal(c, l)
      /\ busy' # None => InLease(c, l)'
      /\ Where(c, l)' = "take" => hold'[c][Key(c, l)] # roots /\ busy' = <<c, l>>
  BY <1>0, <1>1, <1>2, GotIs
<1>4. /\ MyTurn(c, l) /\ ~poisoned /\ fresh \in Drives /\ refs[t] = 0
      /\ \A u \in Roots: place[u] # fresh
      /\ mapped[fresh] = t \/ fresh \in taken
  BY <1>0, <1>1, <1>2, TakerSees
<1>5. Typed'
  <2>1. refs' \in [Roots -> Nat] BY <1>1, <1>2, <1>3 DEF Typed
  <2>2. marked' \in [Drives -> Roots \cup {None}] /\ place' \in [Roots -> Drives \cup {None}]
    BY <1>1, <1>2, <1>3, <1>4 DEF Typed
  <2> QED BY <1>1, <1>2, <1>3, <2>1, <2>2 DEF Typed
<1>6. Key(c, l) \in Layers BY KeysTyped
<1>7. /\ IsFiniteSet(Holders(t)') /\ Cardinality(Holders(t)') = Cardinality(Holders(t)) + 1
      /\ Cardinality(Holders(t)) \in Nat
      /\ \A u \in Roots: u # t => Holders(u)' = Holders(u)
  <2>1. IsFiniteSet(Holders(t)) BY <1>1, <1>3 DEF RefsInv
  <2> QED BY <1>1, <1>2, <1>3, <1>6, <2>1, HoldersGain
<1>8. /\ refs'[t] = 1 /\ \A u \in Roots: u # t => refs'[u] = refs[u]
      /\ place'[t] = fresh /\ \A u \in Roots: u # t => place'[u] = place[u]
      /\ marked'[fresh] = t /\ \A d \in Drives: d # fresh => marked'[d] = marked[d]
  BY <1>1, <1>2, <1>3, <1>4 DEF Typed
<1>9. None \notin Drives BY CliAssumption
<1>10. RefsInv'
  <2>1. ASSUME NEW u \in Roots
        PROVE  /\ IsFiniteSet(Holders(u)') /\ Cardinality(Holders(u)') <= refs'[u]
               /\ refs'[u] > 0 <=> place'[u] # None
               /\ refs'[u] > 0 => Record(u)'
    <3>1. refs[u] \in Nat /\ place[u] \in Drives \cup {None} BY <1>1 DEF Typed
    <3>2. /\ IsFiniteSet(Holders(u)) /\ Cardinality(Holders(u)) <= refs[u]
          /\ refs[u] > 0 <=> place[u] # None
          /\ refs[u] > 0 => Record(u)
      BY <1>1, <1>4 DEF RefsInv
    <3>3. CASE u = t
      <4>1. Record(t)' BY <1>2, <1>4, <1>8 DEF Record
      <4>2. Cardinality(Holders(t)') <= 1 BY <3>2, <3>3, <1>4, <1>7
      <4> QED BY <3>3, <4>1, <4>2, <1>4, <1>7, <1>8, <1>9
    <3>4. CASE u # t
      <4>1. refs[u] > 0 => Record(u)'
        <5>1. place[u] # fresh BY <1>4
        <5> QED BY <3>1, <3>2, <3>4, <5>1, <1>2, <1>8 DEF Record
      <4> QED BY <3>1, <3>2, <3>4, <4>1, <1>7, <1>8
    <3> QED BY <3>3, <3>4
  <2> QED BY <2>1 DEF RefsInv
<1>11. PlacesInv' BY <1>1, <1>3, <1>4, <1>8 DEF PlacesInv
<1>12. Accounted => Accounted'
  <2>1. ASSUME Accounted, NEW u \in Roots PROVE refs'[u] = Cardinality(Holders(u)')
    <3>1. Cardinality(Holders(t)) = 0 BY <2>1, <1>3, <1>4 DEF Accounted
    <3> QED BY <2>1, <3>1, <1>7, <1>8 DEF Accounted
  <2>2. ASSUME NEW d \in Drives, \E u \in Roots: place[u] = d PROVE \E u \in Roots: place'[u] = d
    <3>1. PICK u \in Roots: place[u] = d BY <2>2
    <3>2. u # t
      <4>1. place[t] = None BY <1>1, <1>3, <1>4 DEF RefsInv
      <4> QED BY <3>1, <4>1, <1>9
    <3> QED BY <3>1, <3>2, <1>8
  <2>3. \E u \in Roots: place'[u] = fresh BY <1>3, <1>8
  <2> QED BY <2>1, <2>2, <2>3, <1>2, <1>8 DEF Accounted
<1>13. limits'.cleans = limits.cleans /\ taken' = taken BY <1>2
<1>14. ASSUME NEW d \in Drives, fresh # d, \A u \in Roots: place[u] # d
       PROVE  /\ mapped'[d] = mapped[d] /\ marked'[d] = marked[d] /\ fresh' # d
              /\ \A u \in Roots: place'[u] # d
  BY <1>14, <1>2, <1>8, <1>9
<1> QED BY <1>2, <1>3, <1>4, <1>5, <1>10, <1>11, <1>12, <1>13, <1>14, LeaseStays

LEMMA MapLetterStays ==
  ASSUME CliInv, NEW c \in Calls, NEW l \in Threads, MapLetter(c, l)
  PROVE  CliInv'
<1>0. PICK t, n: t = Wanted(c, l) /\ n = Letter OBVIOUS
<1>1. Typed /\ AliasInv /\ RefsInv /\ PlacesInv /\ TurnInv BY DEF CliInv, AliasInv
<1>2. /\ Taking(c, l) /\ MayTake(c, l) /\ refs[t] = 0 /\ fresh = None /\ FreeLetters # {}
      /\ mapped' = [mapped EXCEPT ![n] = t] /\ fresh' = n /\ busy' = <<c, l>>
      /\ UNCHANGED <<roots, limits, marked, child, taken, space, place, refs, poisoned, at, run, part,
                     aborted, fail, inner, hold>>
  BY <1>0 DEF MapLetter, threads, codes
<1>3. n \in Drives /\ mapped[n] = None /\ \A u \in Roots: place[u] # n BY <1>0, <1>1, <1>2, LetterIsFree
<1>4. /\ MyTurn(c, l) /\ ~poisoned /\ InLease(c, l) /\ t \in Roots /\ hold[c][Key(c, l)] # roots
      /\ Where(c, l) = "take"
  BY <1>0, <1>1, <1>2, TakerSees DEF MayTake
<1>5. Wanted(c, l)' = t BY <1>0, <1>2 DEF Wanted, Key, Own
<1>6. mapped'[n] = t /\ \A d \in Drives: d # n => mapped'[d] = mapped[d] BY <1>1, <1>2, <1>3 DEF Typed
<1>7. Typed'
  <2>1. mapped' \in [Drives -> Roots \cup {None}] BY <1>1, <1>2, <1>3, <1>4 DEF Typed
  <2>2. busy' \in (Calls \X Threads) \cup {None} /\ fresh' \in Drives \cup {None} BY <1>2, <1>3
  <2>3. hold' \in [Calls -> [Layers -> Holds']] BY <1>1, <1>2 DEF Typed, Holds
  <2>4. limits' \in Limits /\ taken' \subseteq Drives BY <1>1, <1>2 DEF Typed
  <2> QED BY <1>1, <1>2, <2>1, <2>2, <2>3, <2>4 DEF Typed
<1>8. Beside(c, l) BY <1>1, <1>2, BesideBy
<1>9. OnlyThread(c, l) BY <1>1, <1>2, OnlyThreadBy
<1>10. Where(c, l)' = Where(c, l) /\ Status(c, l)' = Status(c, l) BY <1>2 DEF Where, Status
<1>11. Goal(c, l) BY <1>10 DEF Goal
<1>12. InLease(c, l)' BY <1>4, <1>10 DEF InLease
<1>13. RefsInv' /\ PlacesInv'
  <2>1. \A u \in Roots: refs[u] > 0 => place[u] \in Drives BY <1>1 DEF RefsInv, Typed
  <2>2. \A u \in Roots: refs[u] > 0 => mapped'[place[u]] = mapped[place[u]] BY <2>1, <1>3, <1>6
  <2>3. \A u \in Roots: refs[u] > 0 => fresh # place[u] BY <2>1, <1>2, CliAssumption
  <2> QED BY <1>1, <1>2, <2>2, <2>3, RefsStay
<1>14. AtLetter(c, l)'
  <2>1. mapped'[fresh'] = t /\ \A u \in Roots: place'[u] # fresh' BY <1>2, <1>3, <1>6
  <2>2. refs'[t] = 0 BY <1>2
  <2> QED BY <2>1, <2>2, <1>4, <1>5, <1>10 DEF AtLetter
<1>15. Accounted => Accounted'
  <2>1. \A u \in Roots: Holders(u)' = Holders(u) BY <1>2 DEF Holders
  <2>2. None \notin Drives BY CliAssumption
  <2> QED BY <2>1, <2>2, <1>2, <1>6 DEF Accounted
<1>16. ASSUME NEW d \in Drives, mapped[d] # None, \A u \in Roots: place[u] # d
       PROVE  /\ mapped'[d] = mapped[d] /\ marked'[d] = marked[d] /\ fresh' # d
              /\ \A u \in Roots: place'[u] # d
  BY <1>16, <1>2, <1>3, <1>6
<1>17. limits'.cleans = limits.cleans /\ taken' = taken BY <1>2
<1> QED
  BY <1>0, <1>2, <1>4, <1>7, <1>8, <1>9, <1>11, <1>12, <1>13, <1>14, <1>15, <1>16, <1>17, LeaseStays

LEMMA StopIs ==
  ASSUME Typed, NEW c \in Calls, NEW l \in Threads, Where(c, l) = "take",
         NEW code \in {"CANCELLED", "RESIDUAL_DATA"}, StopTaking(c, l, code)
  PROVE  /\ at' \in [Calls -> Adapters] /\ run' \in [Calls -> Runs]
         /\ fail' \in [Calls -> Codes \cup {"lost"}] /\ inner' \in [Calls -> Codes]
         /\ Beside(c, l) /\ OnlyThread(c, l) /\ Goal(c, l)
         /\ Where(c, l)' = "undo" /\ InLease(c, l)' /\ busy' = <<c, l>> /\ fresh' = None
         /\ code = "RESIDUAL_DATA" => Debt(c)'
         /\ UNCHANGED <<roots, taken, child, space, place, refs, part, aborted, hold>>
<1>1. /\ Code(c, l, code) /\ Move(c, l, "undo") /\ busy' = <<c, l>> /\ fresh' = None
      /\ UNCHANGED <<roots, taken, child, space, place, refs, part, aborted, hold>>
  BY DEF StopTaking
<1>2. code \in Codes /\ "undo" \in Adapters /\ "undo" \in Runs BY DEF Codes, Adapters, Runs
<1>3. at' \in [Calls -> Adapters] /\ run' \in [Calls -> Runs] BY <1>1, <1>2, MoveLeaves
<1>4. /\ fail' \in [Calls -> Codes \cup {"lost"}] /\ inner' \in [Calls -> Codes]
      /\ Status(c, l)' = code
  BY <1>1, <1>2, CodeIs
<1>5. Where(c, l)' = "undo" BY <1>1, MoveIs
<1>6. Beside(c, l) BY <1>1, <1>2, BesideBy
<1>7. OnlyThread(c, l) BY <1>1, <1>2, OnlyThreadBy
<1>8. Goal(c, l) BY <1>4, <1>5 DEF Goal
<1>9. InLease(c, l)' BY <1>5 DEF InLease, Gives
<1>10. code = "RESIDUAL_DATA" => Debt(c)' BY <1>4, <1>5 DEF Debt, Status, Where
<1> QED BY <1>1, <1>3, <1>4, <1>5, <1>6, <1>7, <1>8, <1>9, <1>10

LEMMA StopStays ==
  ASSUME CliInv, NEW c \in Calls, NEW l \in Threads, Taking(c, l),
         NEW code \in {"CANCELLED", "RESIDUAL_DATA"}, StopTaking(c, l, code), Fault \/ NoFault,
         mapped' \in [Drives -> Roots \cup {None}], marked' \in [Drives -> Roots \cup {None}],
         poisoned' \in BOOLEAN, poisoned => poisoned',
         \A d \in Drives: (\E u \in Roots: place[u] = d) \/ (mapped[d] # None /\ fresh # d) =>
           mapped'[d] = mapped[d] /\ marked'[d] = marked[d],
         \/ code = "RESIDUAL_DATA"
         \/ marked' = marked /\ \A d \in Drives: mapped'[d] # None => mapped[d] # None /\ fresh # d
  PROVE  CliInv'
<1>1. Typed /\ AliasInv /\ RefsInv /\ PlacesInv /\ TurnInv BY DEF CliInv, AliasInv
<1>2. /\ Where(c, l) = "take" /\ MyTurn(c, l) /\ InLease(c, l)
      /\ fresh # None => \A u \in Roots: place[u] # fresh
  BY <1>1, TakerSees
<1>3. /\ at' \in [Calls -> Adapters] /\ run' \in [Calls -> Runs]
      /\ fail' \in [Calls -> Codes \cup {"lost"}] /\ inner' \in [Calls -> Codes]
      /\ Beside(c, l) /\ OnlyThread(c, l) /\ Goal(c, l)
      /\ Where(c, l)' = "undo" /\ InLease(c, l)' /\ busy' = <<c, l>> /\ fresh' = None
      /\ code = "RESIDUAL_DATA" => Debt(c)'
      /\ UNCHANGED <<roots, taken, child, space, place, refs, part, aborted, hold>>
  BY <1>1, <1>2, StopIs
<1>4. limits' \in Limits /\ limits'.cleans = limits.cleans BY <1>1, BoundsTyped DEF Typed
<1>5. Typed'
  <2>1. hold' \in [Calls -> [Layers -> Holds']] BY <1>1, <1>3 DEF Typed, Holds
  <2>2. busy' \in (Calls \X Threads) \cup {None} /\ fresh' \in Drives \cup {None} BY <1>3
  <2> QED BY <1>1, <1>3, <1>4, <2>1, <2>2 DEF Typed
<1>6. RefsInv' /\ PlacesInv'
  <2>1. \A u \in Roots: refs[u] > 0 => place[u] \in Drives BY <1>1 DEF RefsInv, Typed
  <2>2. \A u \in Roots: refs[u] > 0 => mapped'[place[u]] = mapped[place[u]]
                                       /\ marked'[place[u]] = marked[place[u]]
    BY <2>1
  <2>3. \A u \in Roots: refs[u] > 0 => fresh # place[u] BY <2>1, <1>2, CliAssumption
  <2> QED BY <1>1, <1>3, <2>2, <2>3, RefsStay
<1>7. Debt(c)' \/ (Accounted => Accounted')
  <2>1. \A u \in Roots: Holders(u)' = Holders(u) BY <1>3 DEF Holders
  <2> QED BY <2>1, <1>3 DEF Accounted
<1>8. ASSUME NEW d \in Drives, mapped[d] # None, fresh # d, \A u \in Roots: place[u] # d
      PROVE  /\ mapped'[d] = mapped[d] /\ marked'[d] = marked[d] /\ fresh' # d
             /\ \A u \in Roots: place'[u] # d
  BY <1>8, <1>3, CliAssumption
<1>9. Where(c, l)' # "take" /\ fresh' = None /\ taken' = taken BY <1>3
<1> QED BY <1>2, <1>3, <1>4, <1>5, <1>6, <1>7, <1>8, <1>9, LeaseStays

LEMMA TakeRefusedStays ==
  ASSUME CliInv, NEW c \in Calls, NEW l \in Threads, TakeRefused(c, l)
  PROVE  CliInv'
<1>1. Typed BY DEF CliInv
<1>2. PICK code \in {"CANCELLED", "RESIDUAL_DATA"}:
        Taking(c, l) /\ fresh = None /\ StopTaking(c, l, code) /\ (Fault \/ NoFault)
          /\ UNCHANGED <<mapped, marked, poisoned>>
  BY DEF TakeRefused
<1>3. /\ mapped' \in [Drives -> Roots \cup {None}] /\ marked' \in [Drives -> Roots \cup {None}]
      /\ poisoned' \in BOOLEAN
  BY <1>1, <1>2 DEF Typed
<1>4. None \notin Drives BY CliAssumption
<1> QED BY <1>2, <1>3, <1>4, StopStays

LEMMA MapFailsStays ==
  ASSUME CliInv, NEW c \in Calls, NEW l \in Threads, MapFails(c, l)
  PROVE  CliInv'
<1>0. PICK t, n: t = Wanted(c, l) /\ n = Letter OBVIOUS
<1>1. Typed /\ AliasInv BY DEF CliInv
<1>2. /\ Taking(c, l) /\ fresh = None /\ FreeLetters # {} /\ (Fault \/ NoFault) /\ poisoned' = TRUE
      /\ mapped' = mapped \/ mapped' = [mapped EXCEPT ![n] = t]
      /\ StopTaking(c, l, "RESIDUAL_DATA") /\ marked' = marked
  BY <1>0 DEF MapFails
<1>3. n \in Drives /\ mapped[n] = None /\ \A u \in Roots: place[u] # n BY <1>0, <1>1, <1>2, LetterIsFree
<1>4. t \in Roots BY <1>0, <1>1, <1>2, TakerSees
<1>5. /\ mapped' \in [Drives -> Roots \cup {None}] /\ marked' \in [Drives -> Roots \cup {None}]
      /\ \A d \in Drives: d # n => mapped'[d] = mapped[d]
  BY <1>1, <1>2, <1>3, <1>4 DEF Typed
<1>6. \A d \in Drives: (\E u \in Roots: place[u] = d) \/ (mapped[d] # None /\ fresh # d) =>
        mapped'[d] = mapped[d] /\ marked'[d] = marked[d]
  BY <1>2, <1>3, <1>5
<1> QED BY <1>2, <1>5, <1>6, StopStays

LEMMA MarkFailsStays ==
  ASSUME CliInv, NEW c \in Calls, NEW l \in Threads, MarkFails(c, l)
  PROVE  CliInv'
<1>0. PICK t: t = Wanted(c, l) OBVIOUS
<1>1. Typed /\ AliasInv BY DEF CliInv
<1>2. Taking(c, l) /\ fresh # None BY DEF MarkFails
<1>3. fresh \in Drives /\ t \in Roots /\ \A u \in Roots: place[u] # fresh BY <1>0, <1>1, <1>2, TakerSees
<1>4. CASE /\ mapped' = [mapped EXCEPT ![fresh] = None] /\ UNCHANGED <<marked, poisoned>>
           /\ \E code \in {"CANCELLED", "RESIDUAL_DATA"}: Stops(c, l, code) /\ StopTaking(c, l, code)
  <2>1. PICK code \in {"CANCELLED", "RESIDUAL_DATA"}: Stops(c, l, code) /\ StopTaking(c, l, code) BY <1>4
  <2>2. Fault \/ NoFault BY <2>1 DEF Stops
  <2>3. /\ mapped' \in [Drives -> Roots \cup {None}] /\ marked' \in [Drives -> Roots \cup {None}]
        /\ poisoned' \in BOOLEAN /\ mapped'[fresh] = None
        /\ \A d \in Drives: d # fresh => mapped'[d] = mapped[d]
    BY <1>1, <1>3, <1>4 DEF Typed
  <2>4. \A d \in Drives: (\E u \in Roots: place[u] = d) \/ (mapped[d] # None /\ fresh # d) =>
          mapped'[d] = mapped[d] /\ marked'[d] = marked[d]
    BY <1>3, <1>4, <2>3
  <2>5. marked' = marked /\ \A d \in Drives: mapped'[d] # None => mapped[d] # None /\ fresh # d
    BY <1>4, <2>3
  <2> QED BY <1>2, <1>4, <2>1, <2>2, <2>3, <2>4, <2>5, StopStays
<1>5. CASE /\ Fault /\ mapped' \in {mapped, [mapped EXCEPT ![fresh] = None]}
           /\ marked' \in {marked, [marked EXCEPT ![fresh] = t]}
           /\ poisoned' = TRUE /\ StopTaking(c, l, "RESIDUAL_DATA")
  <2>0. mapped \in [Drives -> Roots \cup {None}] /\ marked \in [Drives -> Roots \cup {None}]
    BY <1>1 DEF Typed
  <2>3. /\ mapped' \in [Drives -> Roots \cup {None}]
        /\ \A d \in Drives: d # fresh => mapped'[d] = mapped[d]
    BY <2>0, <1>3, <1>5
  <2>4. /\ marked' \in [Drives -> Roots \cup {None}]
        /\ \A d \in Drives: d # fresh => marked'[d] = marked[d]
    BY <2>0, <1>3, <1>5
  <2>1. /\ mapped' \in [Drives -> Roots \cup {None}] /\ marked' \in [Drives -> Roots \cup {None}]
        /\ \A d \in Drives: d # fresh => mapped'[d] = mapped[d] /\ marked'[d] = marked[d]
    BY <2>3, <2>4
  <2>2. \A d \in Drives: (\E u \in Roots: place[u] = d) \/ (mapped[d] # None /\ fresh # d) =>
          mapped'[d] = mapped[d] /\ marked'[d] = marked[d]
    BY <1>3, <2>1
  <2> QED BY <1>2, <1>5, <2>1, <2>2, StopStays
<1> QED BY <1>0, <1>4, <1>5 DEF MarkFails

LEMMA GiverSees ==
  ASSUME Typed, AliasInv, NEW c \in Calls, NEW l \in Threads, Giving(c, l)
  PROVE  /\ Where(c, l) \in Gives(l) /\ Where(c, l) # "take" /\ MyTurn(c, l) /\ InLease(c, l)
         /\ hold[c][Key(c, l)] # {} =>
              /\ Given(c, l) \in Roots /\ Given(c, l) \in hold[c][Key(c, l)]
              /\ hold[c][Key(c, l)] \ {Given(c, l)} \in Holds
              /\ Holders(Given(c, l)) # {} /\ refs[Given(c, l)] > 0
              /\ place[Given(c, l)] \in Drives
         /\ fresh # None =>
              /\ busy = <<c, l>> /\ fresh \in Drives /\ hold[c][Key(c, l)] # {}
              /\ refs[Given(c, l)] = 1 /\ place[Given(c, l)] = fresh /\ mapped[fresh] = None
<1>1. Where(c, l) \in Gives(l) /\ MyTurn(c, l) BY DEF Giving, Gives
<1>2. Where(c, l) # "take" /\ InLease(c, l) BY <1>1 DEF InLease, Gives
<1>3. fresh # None => busy = <<c, l>> /\ fresh \in Drives /\ AtLetter(c, l) BY <1>1, TurnIs DEF AliasInv
<1>4. ASSUME hold[c][Key(c, l)] # {}
      PROVE  /\ Given(c, l) \in Roots /\ Given(c, l) \in hold[c][Key(c, l)]
             /\ hold[c][Key(c, l)] \ {Given(c, l)} \in Holds
             /\ Holders(Given(c, l)) # {} /\ refs[Given(c, l)] > 0
             /\ place[Given(c, l)] \in Drives
  <2>0. PICK t: t = Given(c, l) OBVIOUS
  <2>1. /\ t \in Roots /\ t \in hold[c][Key(c, l)] /\ hold[c][Key(c, l)] \ {t} \in Holds
    BY <1>4, <2>0, GivenIs
  <2>2. Key(c, l) \in Layers BY KeysTyped
  <2>3. <<c, Key(c, l)>> \in Holders(t) BY <2>1, <2>2 DEF Holders
  <2>4. IsFiniteSet(Holders(t)) /\ Cardinality(Holders(t)) <= refs[t] /\ (refs[t] > 0 <=> place[t] # None)
    BY <2>1 DEF AliasInv, RefsInv
  <2>5. Cardinality(Holders(t)) \in Nat /\ Cardinality(Holders(t)) # 0
    BY <2>3, <2>4, FS_CardinalityType, FS_EmptySet
  <2>6. refs[t] \in Nat /\ place[t] \in Drives \cup {None} BY <2>1 DEF Typed
  <2> QED BY <2>0, <2>1, <2>3, <2>4, <2>5, <2>6
<1> QED BY <1>1, <1>2, <1>3, <1>4 DEF AtLetter

\* One root less; the thread goes on giving back.
LEMMA GoneIs ==
  ASSUME Typed, AliasInv, NEW c \in Calls, NEW l \in Threads, Giving(c, l), hold[c][Key(c, l)] # {},
         Gone(c, l), UNCHANGED <<roots, at, run, part, child, space>>,
         UNCHANGED <<fail, inner>> \/ Code(c, l, "RESIDUAL_DATA")
  PROVE  /\ hold' \in [Calls -> [Layers -> Holds']]
         /\ hold' = [hold EXCEPT ![c][Key(c, l)] = @ \ {Given(c, l)}]
         /\ at' \in [Calls -> Adapters] /\ run' \in [Calls -> Runs]
         /\ fail' \in [Calls -> Codes \cup {"lost"}] /\ inner' \in [Calls -> Codes]
         /\ busy' = <<c, l>> /\ busy' \in (Calls \X Threads) \cup {None}
         /\ Beside(c, l) /\ OnlyThread(c, l) /\ Goal(c, l) /\ InLease(c, l)' /\ Where(c, l)' # "take"
         /\ Code(c, l, "RESIDUAL_DATA") => Debt(c)'
<1> DEFINE S == hold[c][Key(c, l)] \ {Given(c, l)}
<1>1. Where(c, l) \in Gives(l) /\ Where(c, l) # "take" /\ InLease(c, l) /\ S \in Holds BY GiverSees
<1>2. hold' = [hold EXCEPT ![c][Key(c, l)] = @ \ {Given(c, l)}] /\ busy' = <<c, l>> BY DEF Gone
<1>3. hold' = [hold EXCEPT ![c][Key(c, l)] = S] BY <1>2
<1>4. Key(c, l) \in Layers BY KeysTyped
<1> HIDE DEF S
<1>5. hold' \in [Calls -> [Layers -> Holds']] BY <1>1, <1>3, <1>4, HoldIs
<1>6. Where(c, l)' = Where(c, l) BY DEF Where
<1>7. "RESIDUAL_DATA" \in Codes BY DEF Codes
<1>8. Beside(c, l) BY <1>1, <1>3, <1>7, BesideBy
<1>9. OnlyThread(c, l) BY <1>1, <1>2, <1>3, OnlyThreadBy
<1>10. Status(c, l)' = Status(c, l) \/ (Code(c, l, "RESIDUAL_DATA") /\ Status(c, l)' = "RESIDUAL_DATA")
  BY <1>7, CodeIs DEF Status
<1>11. Goal(c, l) BY <1>1, <1>6, <1>10 DEF Goal
<1>12. InLease(c, l)' BY <1>1, <1>6 DEF InLease
<1>13. ASSUME Code(c, l, "RESIDUAL_DATA") PROVE Debt(c)'
  <2>1. Status(c, l)' = "RESIDUAL_DATA" BY <1>7, <1>13, CodeIs
  <2>2. l # "outer" => run'[c] # "none" BY <1>1, <1>6 DEF Where, Gives
  <2> QED BY <2>1, <2>2 DEF Debt, Status
<1>14. /\ at' \in [Calls -> Adapters] /\ run' \in [Calls -> Runs] BY DEF Typed
<1>15. fail' \in [Calls -> Codes \cup {"lost"}] /\ inner' \in [Calls -> Codes] BY <1>7, CodeIs DEF Typed
<1>16. busy' \in (Calls \X Threads) \cup {None} BY <1>2
<1> QED
  BY <1>1, <1>2, <1>5, <1>6, <1>8, <1>9, <1>11, <1>12, <1>13, <1>14, <1>15, <1>16

LEMMA DropReferenceStays ==
  ASSUME CliInv, NEW c \in Calls, NEW l \in Threads, DropReference(c, l)
  PROVE  CliInv'
<1>0. PICK t: t = Given(c, l) OBVIOUS
<1>1. Typed /\ AliasInv /\ RefsInv /\ PlacesInv BY DEF CliInv, AliasInv
<1>2. /\ Giving(c, l) /\ hold[c][Key(c, l)] # {} /\ refs[t] > 1
      /\ refs' = [refs EXCEPT ![t] = @ - 1] /\ Gone(c, l)
      /\ UNCHANGED <<roots, limits, mapped, marked, child, taken, space, place, poisoned, fresh, at, run,
                     part, aborted, fail, inner>>
  BY <1>0 DEF DropReference, machine, threads, codes
<1>3. /\ hold' \in [Calls -> [Layers -> Holds']]
      /\ hold' = [hold EXCEPT ![c][Key(c, l)] = @ \ {t}]
      /\ at' \in [Calls -> Adapters] /\ run' \in [Calls -> Runs]
      /\ busy' = <<c, l>> /\ busy' \in (Calls \X Threads) \cup {None}
      /\ Beside(c, l) /\ OnlyThread(c, l) /\ Goal(c, l) /\ InLease(c, l)' /\ Where(c, l)' # "take"
  BY <1>0, <1>1, <1>2, GoneIs
<1>4. /\ InLease(c, l) /\ MyTurn(c, l) /\ t \in Roots /\ t \in hold[c][Key(c, l)]
      /\ hold[c][Key(c, l)] \ {t} \in Holds /\ Holders(t) # {} /\ fresh = None
  BY <1>0, <1>1, <1>2, GiverSees
<1>5. Typed'
  <2>1. refs' \in [Roots -> Nat] BY <1>1, <1>2, <1>4 DEF Typed
  <2> QED BY <1>1, <1>2, <1>3, <2>1 DEF Typed
<1>6. Key(c, l) \in Layers BY KeysTyped
<1>7. /\ IsFiniteSet(Holders(t)') /\ Cardinality(Holders(t)') = Cardinality(Holders(t)) - 1
      /\ Cardinality(Holders(t)) \in Nat /\ Cardinality(Holders(t)') \in Nat
      /\ \A u \in Roots: u # t => Holders(u)' = Holders(u)
  <2>1. IsFiniteSet(Holders(t)) BY <1>1, <1>4 DEF RefsInv
  <2> QED BY <1>1, <1>2, <1>3, <1>4, <1>6, <2>1, HoldersLose
<1>8. refs[t] \in Nat /\ refs'[t] = refs[t] - 1 /\ \A u \in Roots: u # t => refs'[u] = refs[u]
  BY <1>1, <1>2, <1>4 DEF Typed
<1>9. \A u \in Roots: Record(u)' <=> Record(u) BY <1>2 DEF Record
<1>10. RefsInv'
  <2>1. ASSUME NEW u \in Roots
        PROVE  /\ IsFiniteSet(Holders(u)') /\ Cardinality(Holders(u)') <= refs'[u]
               /\ refs'[u] > 0 <=> place'[u] # None
               /\ refs'[u] > 0 /\ (Holders(u)' # {} \/ ~poisoned') => Record(u)'
    <3>1. /\ IsFiniteSet(Holders(u)) /\ Cardinality(Holders(u)) <= refs[u]
          /\ refs[u] > 0 <=> place[u] # None
          /\ refs[u] > 0 /\ (Holders(u) # {} \/ ~poisoned) => Record(u)
      BY <1>1 DEF RefsInv
    <3>2. CASE u = t BY <3>1, <3>2, <1>2, <1>4, <1>7, <1>8, <1>9
    <3>3. CASE u # t BY <3>1, <3>3, <1>2, <1>7, <1>8, <1>9
    <3> QED BY <3>2, <3>3
  <2> QED BY <2>1 DEF RefsInv
<1>11. PlacesInv' BY <1>1, <1>2 DEF PlacesInv
<1>12. Accounted => Accounted'
  <2>1. ASSUME Accounted, NEW u \in Roots PROVE refs'[u] = Cardinality(Holders(u)')
    BY <2>1, <1>7, <1>8 DEF Accounted
  <2> QED BY <2>1, <1>2 DEF Accounted
<1>13. limits'.cleans = limits.cleans /\ taken' = taken BY <1>2
<1> QED BY <1>2, <1>3, <1>4, <1>5, <1>10, <1>11, <1>12, <1>13, LeaseStays

LEMMA UnmapLetterStays ==
  ASSUME CliInv, NEW c \in Calls, NEW l \in Threads, UnmapLetter(c, l)
  PROVE  CliInv'
<1>0. PICK t: t = Given(c, l) OBVIOUS
<1>1. Typed /\ AliasInv /\ RefsInv /\ PlacesInv BY DEF CliInv, AliasInv
<1>2. /\ Giving(c, l) /\ hold[c][Key(c, l)] # {} /\ fresh = None /\ refs[t] = 1
      /\ mapped' = [mapped EXCEPT ![place[t]] = None] /\ fresh' = place[t] /\ busy' = <<c, l>>
      /\ UNCHANGED <<roots, limits, marked, child, taken, space, place, refs, poisoned, at, run,
                     part, aborted, fail, inner, hold>>
  BY <1>0 DEF UnmapLetter, threads, codes
<1>3. /\ InLease(c, l) /\ MyTurn(c, l) /\ t \in Roots /\ place[t] \in Drives
      /\ Where(c, l) \in Gives(l) /\ Where(c, l) # "take"
  BY <1>0, <1>1, <1>2, GiverSees
<1>4. Given(c, l)' = t BY <1>0, <1>2 DEF Given, Key, Own
<1>5. mapped'[place[t]] = None /\ \A d \in Drives: d # place[t] => mapped'[d] = mapped[d]
  BY <1>1, <1>2, <1>3 DEF Typed
<1>6. Typed'
  <2>1. mapped' \in [Drives -> Roots \cup {None}] BY <1>1, <1>2, <1>3 DEF Typed
  <2>2. busy' \in (Calls \X Threads) \cup {None} /\ fresh' \in Drives \cup {None} BY <1>2, <1>3
  <2>3. hold' \in [Calls -> [Layers -> Holds']] BY <1>1, <1>2 DEF Typed, Holds
  <2>4. limits' \in Limits /\ taken' \subseteq Drives BY <1>1, <1>2 DEF Typed
  <2> QED BY <1>1, <1>2, <2>1, <2>2, <2>3, <2>4 DEF Typed
<1>7. Beside(c, l) BY <1>1, <1>2, BesideBy
<1>8. OnlyThread(c, l) BY <1>1, <1>2, OnlyThreadBy
<1>9. Where(c, l)' = Where(c, l) /\ Status(c, l)' = Status(c, l) BY <1>2 DEF Where, Status
<1>10. Goal(c, l) BY <1>9 DEF Goal
<1>11. InLease(c, l)' BY <1>3, <1>9 DEF InLease
<1>12. RefsInv' /\ PlacesInv'
  <2>1. ASSUME NEW u \in Roots, refs[u] > 0
        PROVE  \/ mapped'[place[u]] = mapped[place[u]] /\ (fresh = place[u] => fresh' = fresh)
               \/ fresh' = place[u]
    <3>1. place[u] \in Drives BY <1>1, <2>1 DEF RefsInv, Typed
    <3>2. fresh # place[u] BY <3>1, <1>2, CliAssumption
    <3> QED BY <3>1, <3>2, <1>2, <1>5
  <2>2. \A u \in Roots: marked'[place[u]] = marked[place[u]] BY <1>2
  <2> QED BY <1>1, <1>2, <2>1, <2>2, RefsStay
<1>13. AtLetter(c, l)'
  <2>1. Key(c, l)' = Key(c, l) BY <1>2 DEF Key, Own
  <2> QED BY <2>1, <1>2, <1>3, <1>4, <1>5, <1>9 DEF AtLetter
<1>14. Accounted => Accounted'
  <2>1. \A u \in Roots: Holders(u)' = Holders(u) BY <1>2 DEF Holders
  <2>2. \A d \in Drives: mapped'[d] # None => mapped[d] # None /\ fresh # d
    BY <1>2, <1>5, CliAssumption
  <2> QED BY <2>1, <2>2, <1>2 DEF Accounted
<1>15. ASSUME NEW d \in Drives, \A u \in Roots: place[u] # d
       PROVE  /\ mapped'[d] = mapped[d] /\ marked'[d] = marked[d] /\ fresh' # d
              /\ \A u \in Roots: place'[u] # d
  BY <1>15, <1>2, <1>3, <1>5
<1>16. limits'.cleans = limits.cleans /\ taken' = taken BY <1>2
<1>17. Where(c, l)' # "take" BY <1>3, <1>9
<1> QED
  BY <1>2, <1>3, <1>6, <1>7, <1>8, <1>10, <1>11, <1>12, <1>13, <1>14, <1>15, <1>16, <1>17, LeaseStays

LEMMA UnmarkLetterStays ==
  ASSUME CliInv, NEW c \in Calls, NEW l \in Threads, UnmarkLetter(c, l)
  PROVE  CliInv'
<1>0. PICK t: t = Given(c, l) OBVIOUS
<1>1. Typed /\ AliasInv /\ RefsInv /\ PlacesInv BY DEF CliInv, AliasInv
<1>2. /\ Giving(c, l) /\ fresh # None /\ fresh' = None
      /\ marked' = [marked EXCEPT ![fresh] = None] /\ place' = [place EXCEPT ![t] = None]
      /\ refs' = [refs EXCEPT ![t] = 0] /\ Gone(c, l)
      /\ UNCHANGED <<roots, limits, mapped, child, taken, space, poisoned, at, run, part, aborted,
                     fail, inner>>
  BY <1>0 DEF UnmarkLetter, threads, codes
<1>3. /\ InLease(c, l) /\ MyTurn(c, l) /\ fresh \in Drives /\ hold[c][Key(c, l)] # {}
      /\ refs[t] = 1 /\ place[t] = fresh /\ mapped[fresh] = None
  BY <1>0, <1>1, <1>2, GiverSees
<1>4. /\ t \in Roots /\ t \in hold[c][Key(c, l)] /\ hold[c][Key(c, l)] \ {t} \in Holds
  BY <1>0, <1>1, <1>2, <1>3, GiverSees
<1>5. /\ hold' \in [Calls -> [Layers -> Holds']]
      /\ hold' = [hold EXCEPT ![c][Key(c, l)] = @ \ {t}]
      /\ at' \in [Calls -> Adapters] /\ run' \in [Calls -> Runs]
      /\ busy' = <<c, l>> /\ busy' \in (Calls \X Threads) \cup {None}
      /\ Beside(c, l) /\ OnlyThread(c, l) /\ Goal(c, l) /\ InLease(c, l)' /\ Where(c, l)' # "take"
  BY <1>0, <1>1, <1>2, <1>3, GoneIs
<1>6. Typed'
  <2>1. refs' \in [Roots -> Nat] BY <1>1, <1>2, <1>4 DEF Typed
  <2>2. marked' \in [Drives -> Roots \cup {None}] /\ place' \in [Roots -> Drives \cup {None}]
    BY <1>1, <1>2, <1>3, <1>4 DEF Typed
  <2> QED BY <1>1, <1>2, <1>5, <2>1, <2>2 DEF Typed
<1>7. Key(c, l) \in Layers BY KeysTyped
<1>8. /\ IsFiniteSet(Holders(t)') /\ Cardinality(Holders(t)') = Cardinality(Holders(t)) - 1
      /\ Cardinality(Holders(t)) \in Nat /\ Cardinality(Holders(t)') \in Nat
      /\ \A u \in Roots: u # t => Holders(u)' = Holders(u)
  <2>1. IsFiniteSet(Holders(t)) BY <1>1, <1>4 DEF RefsInv
  <2> QED BY <1>1, <1>2, <1>4, <1>5, <1>7, <2>1, HoldersLose
<1>9. Cardinality(Holders(t)') = 0
  <2>1. Cardinality(Holders(t)) <= 1 BY <1>1, <1>3, <1>4 DEF RefsInv
  <2> QED BY <2>1, <1>8
<1>10. /\ refs'[t] = 0 /\ \A u \in Roots: u # t => refs'[u] = refs[u]
       /\ place'[t] = None /\ \A u \in Roots: u # t => place'[u] = place[u]
       /\ marked'[fresh] = None /\ \A d \in Drives: d # fresh => marked'[d] = marked[d]
  BY <1>1, <1>2, <1>3, <1>4 DEF Typed
<1>11. \A u \in Roots: u # t /\ place[u] # None => place[u] # fresh BY <1>1, <1>3, <1>4 DEF PlacesInv
<1>12. RefsInv'
  <2>1. ASSUME NEW u \in Roots
        PROVE  /\ IsFiniteSet(Holders(u)') /\ Cardinality(Holders(u)') <= refs'[u]
               /\ refs'[u] > 0 <=> place'[u] # None
               /\ refs'[u] > 0 /\ (Holders(u)' # {} \/ ~poisoned') => Record(u)'
    <3>1. /\ IsFiniteSet(Holders(u)) /\ Cardinality(Holders(u)) <= refs[u]
          /\ refs[u] > 0 <=> place[u] # None
          /\ refs[u] > 0 /\ (Holders(u) # {} \/ ~poisoned) => Record(u)
      BY <1>1 DEF RefsInv
    <3>2. refs[u] \in Nat /\ place[u] \in Drives \cup {None} BY <1>1 DEF Typed
    <3>3. CASE u = t BY <3>3, <1>8, <1>9, <1>10
    <3>4. CASE u # t
      <4>1. refs[u] > 0 /\ Record(u) => Record(u)'
        <5>1. refs[u] > 0 => place[u] \in Drives /\ place[u] # fresh BY <3>1, <3>2, <3>4, <1>11
        <5> QED BY <5>1, <3>4, <1>2, <1>10 DEF Record
      <4> QED BY <3>1, <3>4, <4>1, <1>2, <1>8, <1>10
    <3> QED BY <3>3, <3>4
  <2> QED BY <2>1 DEF RefsInv
<1>13. PlacesInv'
  <2>1. ASSUME NEW u \in Roots, NEW v \in Roots, u # v, place'[u] # None PROVE place'[u] # place'[v]
    <3>1. u # t /\ place'[u] = place[u] BY <2>1, <1>10
    <3>2. CASE v = t BY <2>1, <3>2, <1>10
    <3>3. CASE v # t BY <2>1, <3>1, <3>3, <1>1, <1>10 DEF PlacesInv
    <3> QED BY <3>2, <3>3
  <2> QED BY <2>1 DEF PlacesInv
<1>14. Accounted => Accounted'
  <2>1. ASSUME Accounted, NEW u \in Roots PROVE refs'[u] = Cardinality(Holders(u)')
    BY <2>1, <1>8, <1>9, <1>10 DEF Accounted
  <2>2. ASSUME NEW d \in Drives, d # fresh, \E u \in Roots: place[u] = d
        PROVE  \E u \in Roots: place'[u] = d
    <3>1. PICK u \in Roots: place[u] = d BY <2>2
    <3>2. u # t BY <2>2, <3>1, <1>3
    <3> QED BY <3>1, <3>2, <1>10
  <2>3. ASSUME Accounted, NEW d \in Drives, marked'[d] # None PROVE \E u \in Roots: place'[u] = d
    <3>1. d # fresh BY <2>3, <1>10
    <3>2. \E u \in Roots: place[u] = d BY <2>3, <3>1, <1>10 DEF Accounted
    <3> QED BY <2>2, <3>1, <3>2
  <2>4. ASSUME Accounted, NEW d \in Drives, mapped'[d] # None PROVE \E u \in Roots: place'[u] = d
    <3>1. d # fresh /\ mapped[d] # None BY <2>4, <1>2, <1>3
    <3>2. \E u \in Roots: place[u] = d BY <2>4, <3>1 DEF Accounted
    <3> QED BY <2>2, <3>1, <3>2
  <2> QED BY <2>1, <2>3, <2>4 DEF Accounted
<1>15. limits'.cleans = limits.cleans /\ taken' = taken BY <1>2
<1>16. ASSUME NEW d \in Drives, fresh # d, \A u \in Roots: place[u] # d
       PROVE  /\ mapped'[d] = mapped[d] /\ marked'[d] = marked[d] /\ fresh' # d
              /\ \A u \in Roots: place'[u] # d
  BY <1>16, <1>2, <1>10, CliAssumption
<1> QED BY <1>2, <1>3, <1>5, <1>6, <1>12, <1>13, <1>14, <1>15, <1>16, LeaseStays

LEMMA GiveFailsStays ==
  ASSUME CliInv, NEW c \in Calls, NEW l \in Threads, GiveFails(c, l)
  PROVE  CliInv'
<1>0. PICK t, n: t = Given(c, l) /\ n = place[t] OBVIOUS
<1>1. Typed /\ AliasInv /\ RefsInv /\ PlacesInv BY DEF CliInv, AliasInv
<1>2. /\ Giving(c, l) /\ hold[c][Key(c, l)] # {} /\ poisoned' = TRUE /\ fresh' = None /\ Gone(c, l)
      /\ Fault \/ NoFault
      /\ IF refs[t] > 1
         THEN mapped' = mapped /\ (refs' = refs \/ refs' = [refs EXCEPT ![t] = @ - 1])
         ELSE /\ mapped' = mapped \/ mapped' = [mapped EXCEPT ![n] = IF mapped[n] = t THEN None ELSE @]
              /\ refs' = refs
      /\ Code(c, l, "RESIDUAL_DATA")
      /\ UNCHANGED <<roots, marked, taken, child, space, place, at, run, part, aborted>>
  BY <1>0 DEF GiveFails, threads
<1>3. /\ InLease(c, l) /\ MyTurn(c, l) /\ t \in Roots /\ t \in hold[c][Key(c, l)]
      /\ hold[c][Key(c, l)] \ {t} \in Holds /\ Holders(t) # {} /\ refs[t] > 0 /\ n \in Drives
      /\ fresh # None => refs[t] = 1 /\ n = fresh
  BY <1>0, <1>1, <1>2, GiverSees
<1>4. /\ hold' \in [Calls -> [Layers -> Holds']]
      /\ hold' = [hold EXCEPT ![c][Key(c, l)] = @ \ {t}]
      /\ at' \in [Calls -> Adapters] /\ run' \in [Calls -> Runs]
      /\ fail' \in [Calls -> Codes \cup {"lost"}] /\ inner' \in [Calls -> Codes]
      /\ busy' = <<c, l>> /\ busy' \in (Calls \X Threads) \cup {None}
      /\ Beside(c, l) /\ OnlyThread(c, l) /\ Goal(c, l) /\ InLease(c, l)' /\ Where(c, l)' # "take"
      /\ Debt(c)'
  BY <1>0, <1>1, <1>2, GoneIs
<1>5. limits' \in Limits /\ limits'.cleans = limits.cleans BY <1>1, <1>2, BoundsTyped DEF Typed
<1>6. /\ mapped' \in [Drives -> Roots \cup {None}]
      /\ \A d \in Drives: d # n => mapped'[d] = mapped[d]
      /\ refs[t] > 1 => mapped' = mapped
  <2>1. mapped \in [Drives -> Roots \cup {None}] BY <1>1 DEF Typed
  <2> QED BY <2>1, <1>2, <1>3
<1>7. /\ refs' \in [Roots -> Nat] /\ refs[t] \in Nat /\ \A u \in Roots: u # t => refs'[u] = refs[u]
      /\ refs'[t] = refs[t] \/ (refs[t] > 1 /\ refs'[t] = refs[t] - 1)
  <2>1. refs \in [Roots -> Nat] BY <1>1 DEF Typed
  <2> QED BY <2>1, <1>2, <1>3
<1>8. Typed'
  BY <1>1, <1>2, <1>4, <1>5, <1>6, <1>7 DEF Typed
<1>9. Key(c, l) \in Layers BY KeysTyped
<1>10. /\ IsFiniteSet(Holders(t)') /\ Cardinality(Holders(t)') = Cardinality(Holders(t)) - 1
       /\ Cardinality(Holders(t)) \in Nat /\ Cardinality(Holders(t)') \in Nat
       /\ Cardinality(Holders(t)') = 0 => Holders(t)' = {}
       /\ \A u \in Roots: u # t => Holders(u)' = Holders(u)
  <2>1. IsFiniteSet(Holders(t)) BY <1>1, <1>3 DEF RefsInv
  <2> QED BY <1>1, <1>2, <1>3, <1>4, <1>9, <2>1, HoldersLose
<1>11. \A u \in Roots: u # t /\ place[u] # None => place[u] # n BY <1>0, <1>1, <1>3 DEF PlacesInv
<1>12. RefsInv'
  <2>1. ASSUME NEW u \in Roots
        PROVE  /\ IsFiniteSet(Holders(u)') /\ Cardinality(Holders(u)') <= refs'[u]
               /\ refs'[u] > 0 <=> place'[u] # None
               /\ refs'[u] > 0 /\ Holders(u)' # {} => Record(u)'
    <3>1. /\ IsFiniteSet(Holders(u)) /\ Cardinality(Holders(u)) <= refs[u]
          /\ refs[u] > 0 <=> place[u] # None
          /\ refs[u] > 0 /\ (Holders(u) # {} \/ ~poisoned) => Record(u)
      BY <1>1 DEF RefsInv
    <3>2. refs[u] \in Nat /\ place[u] \in Drives \cup {None} BY <1>1 DEF Typed
    <3>3. CASE u = t
      <4>1. Cardinality(Holders(t)') <= refs'[t] /\ (refs'[t] > 0 <=> place'[t] # None)
        BY <3>1, <3>3, <1>2, <1>3, <1>7, <1>10
      <4>2. ASSUME Holders(t)' # {} PROVE Record(t)'
        <5>1. refs[t] > 1 BY <3>1, <3>3, <4>2, <1>7, <1>10
        <5>2. mapped' = mapped /\ fresh = None BY <5>1, <1>3, <1>6
        <5>3. Record(t) BY <3>1, <3>3, <5>1, <1>3
        <5>4. fresh # n BY <5>2, <1>3, CliAssumption
        <5> QED BY <5>2, <5>3, <5>4, <1>0, <1>2 DEF Record
      <4> QED BY <3>3, <4>1, <4>2, <1>10
    <3>4. CASE u # t
      <4>1. refs[u] > 0 /\ Record(u) => Record(u)'
        <5>1. refs[u] > 0 => place[u] \in Drives /\ place[u] # n BY <3>1, <3>2, <3>4, <1>11
        <5>2. refs[u] > 0 => fresh # place[u] BY <5>1, <1>3, CliAssumption
        <5> QED BY <5>1, <5>2, <1>2, <1>6 DEF Record
      <4> QED BY <3>1, <3>4, <4>1, <1>2, <1>7, <1>10
    <3> QED BY <3>3, <3>4
  <2> QED BY <2>1, <1>2 DEF RefsInv
<1>13. PlacesInv' BY <1>1, <1>2 DEF PlacesInv
<1>14. ASSUME NEW d \in Drives, \A u \in Roots: place[u] # d
       PROVE  /\ mapped'[d] = mapped[d] /\ marked'[d] = marked[d] /\ fresh' # d
              /\ \A u \in Roots: place'[u] # d
  BY <1>14, <1>0, <1>2, <1>3, <1>6, CliAssumption
<1>15. taken' = taken BY <1>2
<1> QED BY <1>2, <1>3, <1>4, <1>5, <1>8, <1>12, <1>13, <1>14, <1>15, LeaseStays

LEMMA GiveEndsStays ==
  ASSUME CliInv, NEW c \in Calls, NEW l \in Threads, GiveEnds(c, l)
  PROVE  CliInv'
<1>0. PICK s: s = IF l = "outer" THEN "over" ELSE IF run[c] = "undo" THEN "clean" ELSE "return" OBVIOUS
<1>1. Typed /\ AliasInv /\ RefsInv /\ PlacesInv BY DEF CliInv, AliasInv
<1>2. /\ Giving(c, l) /\ hold[c][Key(c, l)] = {} /\ busy' = None /\ Move(c, l, s)
      /\ UNCHANGED <<roots, limits, mapped, marked, child, taken, space, place, refs, poisoned, fresh,
                     part, aborted, fail, inner, hold>>
  BY <1>0 DEF GiveEnds, machine, codes
<1>3. /\ InLease(c, l) /\ MyTurn(c, l) /\ Where(c, l) \in Gives(l) /\ fresh = None
  BY <1>1, <1>2, GiverSees
<1>4. s \in (IF l = "outer" THEN Adapters ELSE Runs) /\ s # "take" BY <1>0 DEF Adapters, Runs
<1>5. at' \in [Calls -> Adapters] /\ run' \in [Calls -> Runs] /\ s \in Adapters \cup Runs
  BY <1>1, <1>2, <1>4, MoveLeaves
<1>6. Where(c, l)' = s BY <1>1, <1>2, MoveIs
<1>7. Beside(c, l) BY <1>1, <1>2, <1>5, BesideBy
<1>8. OnlyThread(c, l) BY <1>1, <1>2, <1>5, OnlyThreadBy
<1>9. Status(c, l)' = Status(c, l) BY <1>2 DEF Status
<1>10. Goal(c, l) BY <1>0, <1>2, <1>3, <1>6, <1>9 DEF Goal
<1>11. Typed'
  <2>1. hold' \in [Calls -> [Layers -> Holds']] BY <1>1, <1>2 DEF Typed, Holds
  <2> QED BY <1>1, <1>2, <1>5, <2>1 DEF Typed
<1>12. RefsInv' /\ PlacesInv' BY <1>1, <1>2, RefsStay
<1>13. Accounted => Accounted'
  <2>1. \A u \in Roots: Holders(u)' = Holders(u) BY <1>2 DEF Holders
  <2> QED BY <2>1, <1>2 DEF Accounted
<1>14. limits'.cleans = limits.cleans /\ taken' = taken /\ fresh' = None BY <1>2, <1>3
<1>15. ASSUME NEW d \in Drives, \A u \in Roots: place[u] # d
       PROVE  /\ mapped'[d] = mapped[d] /\ marked'[d] = marked[d] /\ fresh' # d
              /\ \A u \in Roots: place'[u] # d
  BY <1>15, <1>2, <1>3, CliAssumption
<1> QED
  BY <1>2, <1>3, <1>4, <1>6, <1>7, <1>8, <1>10, <1>11, <1>12, <1>13, <1>14, <1>15, LeaseStays

LEMMA LeaseStepStays ==
  ASSUME CliInv, NEW c \in Calls, NEW l \in Threads, LeaseStep(c, l)
  PROVE  CliInv'
  BY ShareLetterStays, MapLetterStays, MarkLetterStays, TakeRefusedStays, MapFailsStays, MarkFailsStays,
     DropReferenceStays, UnmapLetterStays, UnmarkLetterStays, GiveFailsStays, GiveEndsStays DEF LeaseStep

-----------------------------------------------------------------------------
(* The steps of a call outside its leases.                                  *)

LEMMA CallStep ==
  ASSUME CliInv, Typed', NEW c \in Calls, CallInv(c)', Debt(c) => Debt(c)',
         UNCHANGED <<roots, mapped, marked, taken, place, refs, busy, fresh, hold>>,
         limits'.cleans = limits.cleans,
         poisoned => poisoned', poisoned' = poisoned \/ busy = None,
         \A d \in Calls: d # c =>
           /\ at'[d] = at[d] /\ run'[d] = run[d] /\ part'[d] = part[d] /\ fail'[d] = fail[d]
           /\ inner'[d] = inner[d] /\ child'[d] = child[d] /\ space'[d] = space[d],
         \A l \in Threads: InLease(c, l) => Where(c, l)' = Where(c, l) /\ Key(c, l)' = Key(c, l),
         \A l \in Threads: Where(c, l)' = "take" /\ Where(c, l) # "take" => hold[c][Key(c, l)'] = {},
         \A k \in Kinds: child'[c][k] = "alive" => child[c][k] = "alive" \/ hold[c][k] = roots
  PROVE  CliInv'
<1>1. /\ Typed /\ RefsInv /\ PlacesInv /\ BusyInv /\ TurnInv /\ (\A d \in Calls: CallInv(d))
      /\ LettersInv /\ OrphansInv
  BY DEF CliInv, AliasInv
<1>2. RefsInv' /\ PlacesInv' BY <1>1, RefsStay
<1>3. ASSUME NEW d \in Calls, NEW m \in Threads, InLease(d, m)
      PROVE  Where(d, m)' = Where(d, m) /\ Key(d, m)' = Key(d, m)
  <2>1. CASE d = c BY <1>3, <2>1
  <2>2. CASE d # c BY <2>2 DEF Where, Key, Own
  <2> QED BY <2>1, <2>2
<1>4. BusyInv'
  <2>1. ASSUME busy' # None
        PROVE  \E d \in Calls, m \in Threads: busy' = <<d, m>> /\ InLease(d, m)'
    <3>1. PICK d \in Calls, m \in Threads: busy = <<d, m>> /\ InLease(d, m) BY <1>1, <2>1 DEF BusyInv
    <3>2. InLease(d, m)' BY <1>3, <3>1 DEF InLease
    <3> QED BY <3>1, <3>2
  <2>2. ASSUME fresh' # None
        PROVE  \E d \in Calls, m \in Threads: busy' = <<d, m>> /\ AtLetter(d, m)'
    <3>1. PICK d \in Calls, m \in Threads: busy = <<d, m>> /\ AtLetter(d, m)
      BY <1>1, <2>2 DEF BusyInv, AtLetter
    <3>2. InLease(d, m) BY <3>1 DEF AtLetter, InLease
    <3>3. Where(d, m)' = Where(d, m) /\ Key(d, m)' = Key(d, m) BY <1>3, <3>2
    <3>4. Wanted(d, m)' = Wanted(d, m) /\ Given(d, m)' = Given(d, m) BY <3>3 DEF Wanted, Given
    <3>5. AtLetter(d, m)' BY <3>1, <3>3, <3>4 DEF AtLetter
    <3> QED BY <3>1, <3>5
  <2> QED BY <2>1, <2>2 DEF BusyInv, AtLetter
<1>5. TurnInv'
  <2>1. ASSUME NEW d \in Calls, NEW m \in Threads, Where(d, m)' = "take"
        PROVE  /\ hold'[d][Key(d, m)'] # roots'
               /\ busy' # <<d, m>> => hold'[d][Key(d, m)'] = {}
               /\ busy' = <<d, m>> => ~poisoned'
    <3>1. CASE Where(d, m) = "take"
      <4>1. Key(d, m)' = Key(d, m) BY <3>1, <1>3 DEF InLease
      <4>2. <<d, m>> # None BY CliAssumption
      <4> QED BY <1>1, <3>1, <4>1, <4>2 DEF TurnInv
    <3>2. CASE Where(d, m) # "take"
      <4>1. d = c
        <5>1. ASSUME d # c PROVE FALSE BY <2>1, <3>2, <5>1 DEF Where
        <5> QED BY <5>1
      <4>2. hold[d][Key(d, m)'] = {} BY <2>1, <3>2, <4>1
      <4>3. busy # <<d, m>>
        <5>1. SUFFICES ASSUME busy = <<d, m>> PROVE FALSE OBVIOUS
        <5>2. <<d, m>> # None BY CliAssumption
        <5>3. PICK e \in Calls, n \in Threads: busy = <<e, n>> /\ InLease(e, n)
          BY <1>1, <5>1, <5>2 DEF BusyInv
        <5>4. e = d /\ n = m BY <5>1, <5>3
        <5>5. Where(d, m)' = Where(d, m) BY <1>3, <5>3, <5>4
        <5> QED BY <2>1, <3>2, <5>5
      <4> QED BY <1>1, <4>2, <4>3, RootsAre
    <3> QED BY <3>1, <3>2
  <2> QED BY <2>1 DEF TurnInv
<1>6. \A d \in Calls: CallInv(d)' /\ (Debt(d) => Debt(d)')
  <2>1. ASSUME NEW d \in Calls, d # c PROVE CallInv(d)' /\ (Debt(d) => Debt(d)')
    BY <1>1, <2>1, CallStays
  <2> QED BY <2>1
<1>7. LettersInv'
  <2>1. \A u \in Roots: Holders(u)' = Holders(u) BY DEF Holders
  <2>2. Accounted => Accounted' BY <2>1 DEF Accounted
  <2> QED BY <1>1, <1>6, <2>2 DEF LettersInv
<1>8. OrphansInv'
  <2>1. ASSUME NEW d \in Calls, NEW k \in Kinds, child'[d][k] = "alive", hold'[d][k] = {}
        PROVE  child[d][k] = "alive" /\ hold[d][k] = {}
    BY <2>1, <1>1, RootsAre
  <2> QED BY <1>1, <2>1, OrphansStay, RootsAre
<1> QED BY <1>2, <1>4, <1>5, <1>6, <1>7, <1>8 DEF CliInv, AliasInv

RunnerFrame(c) ==
  /\ UNCHANGED <<roots, mapped, marked, taken, place, refs, busy, fresh, hold, aborted, at, part, fail>>
  /\ Fault \/ NoFault
  /\ poisoned' = poisoned \/ Refused
  /\ \E r \in Runs: Run(c, r)
  /\ UNCHANGED inner \/ \E i \in Codes: Inner(c, i)
  /\ UNCHANGED child \/ \E v \in {"alive", "gone"}: child' = [child EXCEPT ![c][Own(c)] = v]
  /\ space' \in {space, [space EXCEPT ![c] = @ \cup {Own(c)}], [space EXCEPT ![c] = @ \ {Own(c)}]}

LEMMA PoisonIs ==
  ASSUME Typed, poisoned' = poisoned \/ (busy = None /\ poisoned' = (poisoned \/ ~Sound))
  PROVE  /\ poisoned' \in BOOLEAN /\ (poisoned => poisoned')
         /\ poisoned' = poisoned \/ busy = None
<1>1. poisoned \in BOOLEAN BY DEF Typed
<1>2. CASE poisoned' = poisoned BY <1>1, <1>2
<1>3. CASE busy = None /\ poisoned' = (poisoned \/ ~Sound)
  <2>1. (poisoned \/ ~Sound) \in BOOLEAN BY Zenon
  <2>2. poisoned => (poisoned \/ ~Sound) OBVIOUS
  <2>3. poisoned' \in BOOLEAN BY <1>3, <2>1
  <2>4. poisoned => poisoned' BY <1>3, <2>2, Zenon
  <2> QED BY <1>3, <2>3, <2>4
<1> QED BY <1>2, <1>3

LEMMA RunnerFrameIs ==
  ASSUME Typed, NEW c \in Calls, RunnerFrame(c)
  PROVE  /\ Typed' /\ limits'.cleans = limits.cleans
         /\ \A d \in Calls: d # c =>
              /\ run'[d] = run[d] /\ inner'[d] = inner[d] /\ child'[d] = child[d] /\ space'[d] = space[d]
         /\ \A k \in Kinds: k # Own(c) => child'[c][k] = child[c][k]
<1>1. Own(c) \in Kinds BY DEF Own, Kinds
<1>2. run' \in [Calls -> Runs] /\ \A d \in Calls: d # c => run'[d] = run[d]
  BY DEF Typed, RunnerFrame, Run
<1>3. inner' \in [Calls -> Codes] /\ \A d \in Calls: d # c => inner'[d] = inner[d]
  <2>1. inner \in [Calls -> Codes] BY DEF Typed
  <2>2. inner' = inner \/ \E i \in Codes: inner' = [inner EXCEPT ![c] = i] BY DEF RunnerFrame, Inner
  <2>3. CASE inner' = inner BY <2>1, <2>3
  <2>4. ASSUME NEW i \in Codes, inner' = [inner EXCEPT ![c] = i]
        PROVE  inner' \in [Calls -> Codes] /\ \A d \in Calls: d # c => inner'[d] = inner[d]
    BY <2>1, <2>4
  <2> QED BY <2>2, <2>3, <2>4
<1>4. /\ child' \in [Calls -> [Kinds -> {"none", "alive", "gone"}]]
      /\ \A d \in Calls: d # c => child'[d] = child[d]
      /\ \A k \in Kinds: k # Own(c) => child'[c][k] = child[c][k]
  <2>1. child \in [Calls -> [Kinds -> {"none", "alive", "gone"}]] BY DEF Typed
  <2>2. child' = child \/ \E v \in {"alive", "gone"}: child' = [child EXCEPT ![c][Own(c)] = v]
    BY DEF RunnerFrame
  <2>3. CASE child' = child BY <2>1, <2>3
  <2>4. ASSUME NEW v \in {"alive", "gone"}, child' = [child EXCEPT ![c][Own(c)] = v]
        PROVE  /\ child' \in [Calls -> [Kinds -> {"none", "alive", "gone"}]]
               /\ \A d \in Calls: d # c => child'[d] = child[d]
               /\ \A k \in Kinds: k # Own(c) => child'[c][k] = child[c][k]
    BY <1>1, <2>1, <2>4
  <2> QED BY <2>2, <2>3, <2>4
<1>5. space' \in [Calls -> SUBSET (Kinds \cup {"kept"})] /\ \A d \in Calls: d # c => space'[d] = space[d]
  <2>1. space \in [Calls -> SUBSET (Kinds \cup {"kept"})] BY DEF Typed
  <2>2. CASE space' = space BY <2>1, <2>2
  <2>3. CASE space' = [space EXCEPT ![c] = @ \cup {Own(c)}] BY <1>1, <2>1, <2>3
  <2>4. CASE space' = [space EXCEPT ![c] = @ \ {Own(c)}] BY <1>1, <2>1, <2>4
  <2> QED BY <2>2, <2>3, <2>4 DEF RunnerFrame
<1>6. limits' \in Limits /\ limits'.cleans = limits.cleans BY BoundsTyped DEF Typed, RunnerFrame
<1>7. poisoned' \in BOOLEAN BY PoisonIs DEF RunnerFrame, Refused
<1>8. hold' \in [Calls -> [Layers -> Holds']] BY DEF Typed, RunnerFrame, Holds
<1>9. Typed' BY <1>2, <1>3, <1>4, <1>5, <1>6, <1>7, <1>8 DEF Typed, RunnerFrame
<1> QED BY <1>2, <1>3, <1>4, <1>5, <1>6, <1>9

LEMMA RunnerStays ==
  ASSUME CliInv, NEW c \in Calls, RunnerFrame(c), CallInv(c)', Debt(c) => Debt(c)',
         run[c] \notin {"take", "undo", "release"}, run'[c] = "take" => run[c] = "dirs",
         child'[c][Own(c)] = "alive" => child[c][Own(c)] = "alive" \/ hold[c][Own(c)] = roots
  PROVE  CliInv'
<1>1. Typed /\ CallInv(c) BY DEF CliInv
<1>2. /\ Typed' /\ limits'.cleans = limits.cleans
      /\ \A d \in Calls: d # c =>
              /\ run'[d] = run[d] /\ inner'[d] = inner[d] /\ child'[d] = child[d] /\ space'[d] = space[d]
      /\ \A k \in Kinds: k # Own(c) => child'[c][k] = child[c][k]
  BY <1>1, RunnerFrameIs
<1>3. (poisoned => poisoned') /\ (poisoned' = poisoned \/ busy = None) BY <1>1, PoisonIs DEF RunnerFrame, Refused
<1>4. UNCHANGED <<roots, mapped, marked, taken, place, refs, busy, fresh, hold, at, part, fail>>
  BY DEF RunnerFrame
<1>5. ASSUME NEW l \in Threads, InLease(c, l)
      PROVE  Where(c, l)' = Where(c, l) /\ Key(c, l)' = Key(c, l)
  BY <1>4, <1>5 DEF InLease, Where, Gives, Threads, Key, Own
<1>6. ASSUME NEW l \in Threads, Where(c, l)' = "take", Where(c, l) # "take"
      PROVE  hold[c][Key(c, l)'] = {}
  <2>1. l = "inner" /\ run'[c] = "take" BY <1>4, <1>6 DEF Where, Threads
  <2>2. hold[c][Own(c)] = {} BY <1>1, <2>1 DEF CallInv, Leases
  <2>3. Key(c, l)' = Own(c) BY <1>4, <2>1 DEF Key, Own
  <2> QED BY <2>2, <2>3
<1>7. \A k \in Kinds: child'[c][k] = "alive" => child[c][k] = "alive" \/ hold[c][k] = roots
  BY <1>2
<1> QED BY <1>2, <1>3, <1>4, <1>5, <1>6, <1>7, CallStep

LEMMA RefusedCosts ==
  ASSUME Refused
  PROVE  Fault \/ NoFault
  BY DEF Refused

LEMMA RunnerSame ==
  ASSUME Typed, NEW c \in Calls, RunnerFrame(c)
  PROVE  /\ at'[c] = at[c] /\ part'[c] = part[c] /\ fail'[c] = fail[c] /\ hold'[c] = hold[c]
         /\ roots' = roots /\ Own(c)' = Own(c) /\ Own(c) \in {"own", "check"}
         /\ (part[c] # "after" <=> Own(c) = "own")
         /\ Own(c) = "own" => child'[c]["check"] = child[c]["check"]
         /\ Own(c) = "check" => child'[c]["own"] = child[c]["own"]
<1>1. \A k \in Kinds: k # Own(c) => child'[c][k] = child[c][k] BY RunnerFrameIs
<1>2. UNCHANGED <<at, part, fail, hold, roots>> BY DEF RunnerFrame
<1> QED BY <1>1, <1>2 DEF Own, Kinds

LEMMA PrepareRequestStays ==
  ASSUME CliInv, NEW c \in Calls, PrepareRequest(c)
  PROVE  CliInv'
<1>1. Typed /\ Order(c) /\ Leases(c) /\ Processes(c) /\ Tidied(c) BY DEF CliInv, CallInv
<1>2. RunnerFrame(c)
  BY DEF PrepareRequest, RunnerFrame, Stops, RunFails, RunGoes, alias, Codes, Runs,
         DirectoryFails, PathFails
<1>3. /\ run[c] = "dirs" /\ child'[c] = child[c]
      /\ \/ run'[c] = "return" /\ inner'[c] = "CANCELLED" /\ space'[c] = space[c]
         \/ /\ run'[c] = "clean" /\ inner'[c] \in {"FAILED", "CANCELLED"}
            /\ space'[c] \in {space[c], space[c] \cup {Own(c)}}
         \/ run'[c] = "take" /\ inner'[c] = inner[c] /\ space'[c] = space[c] \cup {Own(c)}
  BY <1>1 DEF PrepareRequest, RunFails, RunGoes, Run, Inner, Typed, DirectoryFails, PathFails
<1>4. /\ at'[c] = at[c] /\ part'[c] = part[c] /\ fail'[c] = fail[c] /\ hold'[c] = hold[c]
      /\ roots' = roots /\ Own(c)' = Own(c) /\ Own(c) \in {"own", "check"}
      /\ (part[c] # "after" <=> Own(c) = "own")
  BY <1>1, <1>2, RunnerSame
<1>5. Order(c)' BY <1>1, <1>3, <1>4 DEF Order
<1>6. Leases(c)' BY <1>1, <1>3, <1>4 DEF Leases
<1>7. Processes(c)' BY <1>1, <1>3, <1>4 DEF Processes, Alive, Kinds
<1>8. Debt(c) => Debt(c)' BY <1>1, <1>3, <1>4 DEF Debt, Order
<1>9. Tidied(c)' BY <1>1, <1>3, <1>4, <1>8 DEF Tidied, Empty, Leases, Processes, Alive
<1> QED BY <1>2, <1>3, <1>5, <1>6, <1>7, <1>8, <1>9, RunnerStays DEF CallInv

LEMMA SpawnStays ==
  ASSUME CliInv, NEW c \in Calls, Spawn(c)
  PROVE  CliInv'
<1>1. Typed /\ Order(c) /\ Leases(c) /\ Processes(c) /\ Tidied(c) BY DEF CliInv, CallInv
<1>2. RunnerFrame(c)
  BY <1>1, RefusedCosts DEF Spawn, RunnerFrame, Stops, Verified, RunFails, RunGoes, Codes, Runs,
         BindingFails, ShapeFails, CaptureFails, FileFails, PathFails, ToolFails
<1>3. /\ run[c] = "spawn" /\ space'[c] = space[c]
      /\ \/ run'[c] = "clean" /\ inner'[c] \in Codes /\ child'[c] = child[c]
         \/ run'[c] = "return" /\ inner'[c] = "RESIDUAL_DATA" /\ child'[c] = child[c]
         \/ run'[c] = "capture" /\ inner'[c] = inner[c] /\ child'[c][Own(c)] = "alive"
  BY <1>1 DEF Spawn, Typed, RunFails, RunGoes, Run, Inner, Codes, Own, Kinds,
         BindingFails, ShapeFails, CaptureFails, FileFails, PathFails, ToolFails
<1>4. /\ at'[c] = at[c] /\ part'[c] = part[c] /\ fail'[c] = fail[c] /\ hold'[c] = hold[c]
      /\ roots' = roots /\ Own(c)' = Own(c) /\ Own(c) \in {"own", "check"}
      /\ (part[c] # "after" <=> Own(c) = "own")
      /\ Own(c) = "own" => child'[c]["check"] = child[c]["check"]
      /\ Own(c) = "check" => child'[c]["own"] = child[c]["own"]
  BY <1>1, <1>2, RunnerSame
<1>5. Order(c)' BY <1>1, <1>3, <1>4 DEF Order, Select, Alive
<1>6. Leases(c)' BY <1>1, <1>3, <1>4 DEF Leases, Alive
<1>7. Processes(c)' BY <1>1, <1>3, <1>4 DEF Processes, Leases, Alive, Kinds
<1>8. Debt(c) => Debt(c)' BY <1>1, <1>3, <1>4 DEF Debt, Order, Select
<1>9. Tidied(c)'
  BY <1>1, <1>3, <1>4, <1>8 DEF Tidied, Empty, Leases, Processes, Alive, Debt, Select
<1>10. child'[c][Own(c)] = "alive" => child[c][Own(c)] = "alive" \/ hold[c][Own(c)] = roots
  BY <1>1, <1>3, <1>4 DEF Leases
<1> QED BY <1>2, <1>3, <1>5, <1>6, <1>7, <1>8, <1>9, <1>10, RunnerStays DEF CallInv

LEMMA CaptureIdentityStays ==
  ASSUME CliInv, NEW c \in Calls, CaptureIdentity(c)
  PROVE  CliInv'
<1>1. Typed /\ Order(c) /\ Leases(c) /\ Processes(c) /\ Tidied(c) BY DEF CliInv, CallInv
<1>2. RunnerFrame(c)
  BY <1>1 DEF CaptureIdentity, RunnerFrame, Unresolved, RunFails, RunGoes, machine, alias, Codes, Runs
<1>3. /\ run[c] = "capture" /\ space'[c] = space[c] /\ child'[c] = child[c]
      /\ \/ /\ inner'[c] = "RESIDUAL_DATA"
            /\ run'[c] = IF child[c][Own(c)] = "alive" THEN "return" ELSE "clean"
         \/ run'[c] = "clean" /\ inner'[c] = "FAILED" /\ child[c][Own(c)] # "alive"
         \/ run'[c] = "wait" /\ inner'[c] = inner[c]
  BY <1>1 DEF CaptureIdentity, Typed, Unresolved, RunFails, RunGoes, Run, Inner, Alive, machine
<1>4. /\ at'[c] = at[c] /\ part'[c] = part[c] /\ fail'[c] = fail[c] /\ hold'[c] = hold[c]
      /\ roots' = roots /\ Own(c)' = Own(c) /\ Own(c) \in {"own", "check"}
      /\ (part[c] # "after" <=> Own(c) = "own")
      /\ Own(c) = "own" => child'[c]["check"] = child[c]["check"]
      /\ Own(c) = "check" => child'[c]["own"] = child[c]["own"]
  BY <1>1, <1>2, RunnerSame
<1>5. Order(c)' BY <1>1, <1>3, <1>4 DEF Order, Select, Alive
<1>6. Leases(c)' BY <1>1, <1>3, <1>4 DEF Leases, Alive
<1>7. Processes(c)' BY <1>1, <1>3, <1>4 DEF Processes, Leases, Alive, Kinds
<1>8. Debt(c) => Debt(c)' BY <1>1, <1>3, <1>4 DEF Debt, Order, Select
<1>9. Tidied(c)'
  BY <1>1, <1>3, <1>4, <1>8 DEF Tidied, Empty, Leases, Processes, Alive, Debt, Select
<1>10. child'[c][Own(c)] = "alive" => child[c][Own(c)] = "alive" \/ hold[c][Own(c)] = roots
  BY <1>1, <1>3, <1>4 DEF Leases
<1> QED BY <1>2, <1>3, <1>5, <1>6, <1>7, <1>8, <1>9, <1>10, RunnerStays DEF CallInv

LEMMA AwaitOutcomeStays ==
  ASSUME CliInv, NEW c \in Calls, AwaitOutcome(c)
  PROVE  CliInv'
<1>1. Typed /\ Order(c) /\ Leases(c) /\ Processes(c) /\ Tidied(c) BY DEF CliInv, CallInv
<1>2. RunnerFrame(c)
  BY <1>1 DEF AwaitOutcome, RunnerFrame, Stops, RunFails, RunGoes, machine, alias, Codes, Runs
<1>3. /\ run[c] = "wait" /\ space'[c] = space[c] /\ child'[c] = child[c]
      /\ \/ /\ run'[c] \in {"judge", "clean"} /\ inner'[c] = inner[c]
            /\ child[c][Own(c)] # "alive"
         \/ /\ run'[c] = "clean" /\ inner'[c] \in {"FAILED", "RESIDUAL_DATA"}
            /\ child[c][Own(c)] # "alive"
         \/ run'[c] = "kill" /\ inner'[c] \in {"CANCELLED", "FAILED"}
  BY <1>1 DEF AwaitOutcome, Typed, RunFails, RunGoes, Run, Inner, Alive, machine
<1>4. /\ at'[c] = at[c] /\ part'[c] = part[c] /\ fail'[c] = fail[c] /\ hold'[c] = hold[c]
      /\ roots' = roots /\ Own(c)' = Own(c) /\ Own(c) \in {"own", "check"}
      /\ (part[c] # "after" <=> Own(c) = "own")
      /\ Own(c) = "own" => child'[c]["check"] = child[c]["check"]
      /\ Own(c) = "check" => child'[c]["own"] = child[c]["own"]
  BY <1>1, <1>2, RunnerSame
<1>5. Order(c)' BY <1>1, <1>3, <1>4 DEF Order, Select, Alive
<1>6. Leases(c)' BY <1>1, <1>3, <1>4 DEF Leases, Alive
<1>7. Processes(c)' BY <1>1, <1>3, <1>4 DEF Processes, Leases, Alive, Kinds
<1>8. Debt(c) => Debt(c)' BY <1>1, <1>3, <1>4 DEF Debt, Order, Select
<1>9. Tidied(c)'
  BY <1>1, <1>3, <1>4, <1>8 DEF Tidied, Empty, Leases, Processes, Alive, Debt, Select
<1>10. child'[c][Own(c)] = "alive" => child[c][Own(c)] = "alive" \/ hold[c][Own(c)] = roots
  BY <1>1, <1>3, <1>4 DEF Leases
<1> QED BY <1>2, <1>3, <1>5, <1>6, <1>7, <1>8, <1>9, <1>10, RunnerStays DEF CallInv

LEMMA TerminateStays ==
  ASSUME CliInv, NEW c \in Calls, Terminate(c)
  PROVE  CliInv'
<1>1. Typed /\ Order(c) /\ Leases(c) /\ Processes(c) /\ Tidied(c) BY DEF CliInv, CallInv
<1>2. RunnerFrame(c)
  BY <1>1 DEF Terminate, RunnerFrame, Unresolved, RunFails, RunGoes, alias, Codes, Runs
<1>3. /\ run[c] = "kill" /\ space'[c] = space[c]
      /\ \/ run'[c] = "clean" /\ inner'[c] = inner[c] /\ child'[c][Own(c)] = "gone"
         \/ /\ inner'[c] = "RESIDUAL_DATA" /\ child'[c] = child[c]
            /\ run'[c] = IF child[c][Own(c)] = "alive" THEN "return" ELSE "clean"
  BY <1>1 DEF Terminate, Typed, Unresolved, RunFails, RunGoes, Run, Inner, Alive, Own, Kinds
<1>4. /\ at'[c] = at[c] /\ part'[c] = part[c] /\ fail'[c] = fail[c] /\ hold'[c] = hold[c]
      /\ roots' = roots /\ Own(c)' = Own(c) /\ Own(c) \in {"own", "check"}
      /\ (part[c] # "after" <=> Own(c) = "own")
      /\ Own(c) = "own" => child'[c]["check"] = child[c]["check"]
      /\ Own(c) = "check" => child'[c]["own"] = child[c]["own"]
  BY <1>1, <1>2, RunnerSame
<1>5. Order(c)' BY <1>1, <1>3, <1>4 DEF Order, Select, Alive
<1>6. Leases(c)' BY <1>1, <1>3, <1>4 DEF Leases, Alive
<1>7. Processes(c)' BY <1>1, <1>3, <1>4 DEF Processes, Leases, Alive, Kinds
<1>8. Debt(c) => Debt(c)' BY <1>1, <1>3, <1>4 DEF Debt, Order, Select
<1>9. Tidied(c)'
  BY <1>1, <1>3, <1>4, <1>8 DEF Tidied, Empty, Leases, Processes, Alive, Debt, Select
<1>10. child'[c][Own(c)] = "alive" => child[c][Own(c)] = "alive" \/ hold[c][Own(c)] = roots
  BY <1>1, <1>3, <1>4 DEF Leases
<1> QED BY <1>2, <1>3, <1>5, <1>6, <1>7, <1>8, <1>9, <1>10, RunnerStays DEF CallInv

LEMMA PostValidateStays ==
  ASSUME CliInv, NEW c \in Calls, PostValidate(c)
  PROVE  CliInv'
<1>1. Typed /\ Order(c) /\ Leases(c) /\ Processes(c) /\ Tidied(c) BY DEF CliInv, CallInv
<1>2. RunnerFrame(c)
  BY <1>1, RefusedCosts DEF PostValidate, RunnerFrame, Stops, Verified, RunFails, RunGoes, machine, Codes, Runs,
         CaptureFails, FileFails, PathFails
<1>3. /\ run[c] = "judge" /\ space'[c] = space[c] /\ child'[c] = child[c]
      /\ run'[c] = "clean" /\ inner'[c] \in Codes
  BY <1>1 DEF PostValidate, Typed, RunFails, RunGoes, Run, Inner, machine, Codes,
         CaptureFails, FileFails, PathFails
<1>4. /\ at'[c] = at[c] /\ part'[c] = part[c] /\ fail'[c] = fail[c] /\ hold'[c] = hold[c]
      /\ roots' = roots /\ Own(c)' = Own(c) /\ Own(c) \in {"own", "check"}
      /\ (part[c] # "after" <=> Own(c) = "own")
      /\ Own(c) = "own" => child'[c]["check"] = child[c]["check"]
      /\ Own(c) = "check" => child'[c]["own"] = child[c]["own"]
  BY <1>1, <1>2, RunnerSame
<1>5. Order(c)' BY <1>1, <1>3, <1>4 DEF Order, Select, Alive
<1>6. Leases(c)' BY <1>1, <1>3, <1>4 DEF Leases, Alive
<1>7. Processes(c)' BY <1>1, <1>3, <1>4 DEF Processes, Leases, Alive, Kinds
<1>8. Debt(c) => Debt(c)' BY <1>1, <1>3, <1>4 DEF Debt, Order, Select
<1>9. Tidied(c)'
  BY <1>1, <1>3, <1>4, <1>8 DEF Tidied, Empty, Leases, Processes, Alive, Debt, Select
<1>10. child'[c][Own(c)] = "alive" => child[c][Own(c)] = "alive" \/ hold[c][Own(c)] = roots
  BY <1>1, <1>3, <1>4 DEF Leases
<1> QED BY <1>2, <1>3, <1>5, <1>6, <1>7, <1>8, <1>9, <1>10, RunnerStays DEF CallInv

LEMMA CleanRequestStays ==
  ASSUME CliInv, NEW c \in Calls, CleanRequest(c)
  PROVE  CliInv'
<1>1. Typed /\ Order(c) /\ Leases(c) /\ Processes(c) /\ Tidied(c) BY DEF CliInv, CallInv
<1>2. RunnerFrame(c)
  BY <1>1, RefusedCosts DEF CleanRequest, RunnerFrame, Verified, RunFails, RunGoes, Codes, Runs, Select
<1>3. /\ run[c] = "clean" /\ child'[c] = child[c]
      /\ \/ /\ space'[c] = space[c] \ {Own(c)}
            /\ inner'[c] = inner[c] \/ inner'[c] = Select(inner[c], "FAILED")
            /\ run'[c] = IF hold[c][Own(c)] # {} THEN "release" ELSE "return"
         \/ /\ space'[c] \in {space[c], space[c] \ {Own(c)}}
            /\ inner'[c] = "RESIDUAL_DATA"
            /\ run'[c] \in {"return", IF hold[c][Own(c)] # {} THEN "release" ELSE "return"}
  BY <1>1 DEF CleanRequest, Typed, RunFails, RunGoes, Run, Inner
<1>4. /\ at'[c] = at[c] /\ part'[c] = part[c] /\ fail'[c] = fail[c] /\ hold'[c] = hold[c]
      /\ roots' = roots /\ Own(c)' = Own(c) /\ Own(c) \in {"own", "check"}
      /\ (part[c] # "after" <=> Own(c) = "own")
      /\ Own(c) = "own" => child'[c]["check"] = child[c]["check"]
      /\ Own(c) = "check" => child'[c]["own"] = child[c]["own"]
  BY <1>1, <1>2, RunnerSame
<1>5. Order(c)' BY <1>1, <1>3, <1>4 DEF Order, Select, Alive
<1>6. Leases(c)' BY <1>1, <1>3, <1>4 DEF Leases, Alive
<1>7. Processes(c)' BY <1>1, <1>3, <1>4 DEF Processes, Leases, Alive, Kinds
<1>8. Debt(c) => Debt(c)' BY <1>1, <1>3, <1>4 DEF Debt, Order, Select
<1>9. Tidied(c)'
  BY <1>1, <1>3, <1>4, <1>8 DEF Tidied, Empty, Leases, Processes, Alive, Debt, Select
<1>10. child'[c][Own(c)] = "alive" => child[c][Own(c)] = "alive" \/ hold[c][Own(c)] = roots
  BY <1>1, <1>3, <1>4 DEF Leases
<1> QED BY <1>2, <1>3, <1>5, <1>6, <1>7, <1>8, <1>9, <1>10, RunnerStays DEF CallInv

LEMMA ReturnLateStays ==
  ASSUME CliInv, NEW c \in Calls, ReturnLate(c)
  PROVE  CliInv'
<1>1. Typed /\ Order(c) /\ Leases(c) /\ Processes(c) /\ Tidied(c) BY DEF CliInv, CallInv
<1>2. RunnerFrame(c)
  BY <1>1 DEF ReturnLate, RunnerFrame, machine, alias, codes, Runs, NoFault
<1>3. /\ run[c] = "return" /\ at[c] # "running" /\ space'[c] = space[c] /\ child'[c] = child[c]
      /\ run'[c] = "none" /\ inner'[c] = inner[c]
  BY <1>1 DEF ReturnLate, Typed, Run, machine, codes
<1>4. /\ at'[c] = at[c] /\ part'[c] = part[c] /\ fail'[c] = fail[c] /\ hold'[c] = hold[c]
      /\ roots' = roots /\ Own(c)' = Own(c) /\ Own(c) \in {"own", "check"}
      /\ (part[c] # "after" <=> Own(c) = "own")
      /\ Own(c) = "own" => child'[c]["check"] = child[c]["check"]
      /\ Own(c) = "check" => child'[c]["own"] = child[c]["own"]
  BY <1>1, <1>2, RunnerSame
<1>5. Order(c)' BY <1>1, <1>3, <1>4 DEF Order, Select, Alive
<1>6. Leases(c)' BY <1>1, <1>3, <1>4 DEF Leases, Alive
<1>7. Processes(c)' BY <1>1, <1>3, <1>4 DEF Processes, Leases, Alive, Kinds
<1>8. Debt(c) => Debt(c)' BY <1>1, <1>3, <1>4 DEF Debt, Order, Select
<1>9. Tidied(c)'
  BY <1>1, <1>3, <1>4, <1>8 DEF Tidied, Debt, Order
<1>10. child'[c][Own(c)] = "alive" => child[c][Own(c)] = "alive" \/ hold[c][Own(c)] = roots
  BY <1>1, <1>3, <1>4 DEF Leases
<1> QED BY <1>2, <1>3, <1>5, <1>6, <1>7, <1>8, <1>9, <1>10, RunnerStays DEF CallInv

AdapterFrame(c) ==
  /\ UNCHANGED <<roots, mapped, marked, taken, child, place, refs, busy, fresh, hold, aborted>>
  /\ Fault \/ NoFault
  /\ poisoned' = poisoned \/ (busy = None /\ poisoned' = (poisoned \/ ~Sound))
  /\ \E a \in Adapters: At(c, a)
  /\ UNCHANGED fail \/ \E f \in Codes: Fail(c, f)
  /\ \/ UNCHANGED <<run, part, inner>>
     \/ Run(c, "none") /\ UNCHANGED <<part, inner>>
     \/ \E p \in {"before", "model", "after"}: StartRun(c, p)
  /\ space' \in {space, [space EXCEPT ![c] = @ \cup {"own"}], [space EXCEPT ![c] = @ \ {"own"}],
                 [space EXCEPT ![c] = @ \cup {"kept"}]}

LEMMA AdapterFrameIs ==
  ASSUME Typed, NEW c \in Calls, AdapterFrame(c)
  PROVE  /\ Typed' /\ limits'.cleans = limits.cleans
         /\ \A d \in Calls: d # c =>
              /\ at'[d] = at[d] /\ run'[d] = run[d] /\ part'[d] = part[d] /\ fail'[d] = fail[d]
              /\ inner'[d] = inner[d] /\ child'[d] = child[d] /\ space'[d] = space[d]
<1>1. at' \in [Calls -> Adapters] /\ \A d \in Calls: d # c => at'[d] = at[d]
  BY DEF Typed, AdapterFrame, At
<1>2. /\ fail' \in [Calls -> Codes \cup {"lost"}]
      /\ \A d \in Calls: d # c => fail'[d] = fail[d]
  <2>1. fail \in [Calls -> Codes \cup {"lost"}] BY DEF Typed
  <2>2. CASE fail' = fail BY <2>1, <2>2
  <2>3. ASSUME NEW f \in Codes, fail' = [fail EXCEPT ![c] = f]
        PROVE  /\ fail' \in [Calls -> Codes \cup {"lost"}]
               /\ \A d \in Calls: d # c => fail'[d] = fail[d]
    BY <2>1, <2>3
  <2> QED BY <2>2, <2>3 DEF AdapterFrame, Fail
<1>3. /\ run' \in [Calls -> Runs] /\ part' \in [Calls -> Parts] /\ inner' \in [Calls -> Codes]
      /\ \A d \in Calls: d # c => run'[d] = run[d] /\ part'[d] = part[d] /\ inner'[d] = inner[d]
  <2>1. run \in [Calls -> Runs] /\ part \in [Calls -> Parts] /\ inner \in [Calls -> Codes] BY DEF Typed
  <2>2. CASE UNCHANGED <<run, part, inner>> BY <2>1, <2>2
  <2>3. CASE Run(c, "none") /\ UNCHANGED <<part, inner>> BY <2>1, <2>3 DEF Run, Runs
  <2>4. ASSUME NEW p \in {"before", "model", "after"}, StartRun(c, p)
        PROVE  /\ run' \in [Calls -> Runs] /\ part' \in [Calls -> Parts] /\ inner' \in [Calls -> Codes]
               /\ \A d \in Calls: d # c =>
                    run'[d] = run[d] /\ part'[d] = part[d] /\ inner'[d] = inner[d]
    <3>1. run' = [run EXCEPT ![c] = "dirs"] /\ "dirs" \in Runs BY <2>4 DEF StartRun, Run, Runs
    <3>2. part' = [part EXCEPT ![c] = p] /\ p \in Parts BY <2>4 DEF StartRun, Parts
    <3>3. inner' = [inner EXCEPT ![c] = "ok"] /\ "ok" \in Codes BY <2>4 DEF StartRun, Inner, Codes
    <3> QED BY <2>1, <3>1, <3>2, <3>3
  <2> QED BY <2>2, <2>3, <2>4 DEF AdapterFrame
<1>4. space' \in [Calls -> SUBSET (Kinds \cup {"kept"})] /\ \A d \in Calls: d # c => space'[d] = space[d]
  <2>1. space \in [Calls -> SUBSET (Kinds \cup {"kept"})] /\ "own" \in Kinds BY DEF Typed, Kinds
  <2>2. CASE space' = space BY <2>1, <2>2
  <2>3. CASE space' = [space EXCEPT ![c] = @ \cup {"own"}] BY <2>1, <2>3
  <2>4. CASE space' = [space EXCEPT ![c] = @ \ {"own"}] BY <2>1, <2>4
  <2>5. CASE space' = [space EXCEPT ![c] = @ \cup {"kept"}] BY <2>1, <2>5
  <2> QED BY <2>2, <2>3, <2>4, <2>5 DEF AdapterFrame
<1>5. limits' \in Limits /\ limits'.cleans = limits.cleans BY BoundsTyped DEF Typed, AdapterFrame
<1>6. poisoned' \in BOOLEAN BY PoisonIs DEF AdapterFrame
<1>7. hold' \in [Calls -> [Layers -> Holds']] BY DEF Typed, AdapterFrame, Holds
<1>8. child' = child BY DEF AdapterFrame
<1>9. Typed' BY <1>1, <1>2, <1>3, <1>4, <1>5, <1>6, <1>7 DEF Typed, AdapterFrame
<1> QED BY <1>1, <1>2, <1>3, <1>4, <1>5, <1>8, <1>9

LEMMA AdapterSame ==
  ASSUME Typed, NEW c \in Calls, AdapterFrame(c)
  PROVE  hold'[c] = hold[c] /\ child'[c] = child[c] /\ roots' = roots
  BY DEF AdapterFrame

LEMMA AdapterStays ==
  ASSUME CliInv, NEW c \in Calls, AdapterFrame(c), CallInv(c)', Debt(c) => Debt(c)',
         at[c] \notin {"take", "undo", "leave"}, at'[c] = "take" => at[c] = "idle",
         \/ run'[c] = run[c] /\ part'[c] = part[c]
         \/ run[c] \notin {"take", "undo", "release"} /\ run'[c] # "take"
  PROVE  CliInv'
<1>1. Typed /\ CallInv(c) BY DEF CliInv
<1>2. /\ Typed' /\ limits'.cleans = limits.cleans
      /\ \A d \in Calls: d # c =>
              /\ at'[d] = at[d] /\ run'[d] = run[d] /\ part'[d] = part[d] /\ fail'[d] = fail[d]
              /\ inner'[d] = inner[d] /\ child'[d] = child[d] /\ space'[d] = space[d]
  BY <1>1, AdapterFrameIs
<1>3. (poisoned => poisoned') /\ (poisoned' = poisoned \/ busy = None) BY <1>1, PoisonIs DEF AdapterFrame
<1>4. UNCHANGED <<roots, mapped, marked, taken, place, refs, busy, fresh, hold, child>>
  BY DEF AdapterFrame
<1>5. ASSUME NEW l \in Threads, InLease(c, l)
      PROVE  Where(c, l)' = Where(c, l) /\ Key(c, l)' = Key(c, l)
  <2>1. l = "inner" BY <1>5 DEF InLease, Where, Gives, Threads
  <2>2. run[c] \in {"take", "undo", "release"} BY <1>5, <2>1 DEF InLease, Where, Gives
  <2>3. run'[c] = run[c] /\ part'[c] = part[c] BY <2>2
  <2> QED BY <2>1, <2>3 DEF Where, Key, Own
<1>6. ASSUME NEW l \in Threads, Where(c, l)' = "take", Where(c, l) # "take"
      PROVE  hold[c][Key(c, l)'] = {}
  <2>1. l = "outer" /\ at[c] = "idle" BY <1>6 DEF Where, Threads
  <2>2. hold[c]["outer"] = {} BY <1>1, <2>1 DEF CallInv, Leases
  <2> QED BY <2>1, <2>2 DEF Key
<1>7. \A k \in Kinds: child'[c][k] = "alive" => child[c][k] = "alive" BY <1>4
<1> QED BY <1>2, <1>3, <1>4, <1>5, <1>6, <1>7, CallStep

LEMMA StartRunAt ==
  ASSUME NEW c \in Calls, NEW p, StartRun(c, p)
  PROVE  At(c, "running")
  BY DEF StartRun

LEMMA OutcomeIs ==
  ASSUME Typed, NEW c \in Calls
  PROVE  /\ Outcome(c) \in Codes /\ (inner[c] = "RESIDUAL_DATA" => Outcome(c) = "RESIDUAL_DATA")
         /\ Outcome(c) = "ok" => inner[c] = "ok"
  BY DEF Typed, Outcome, Select, Codes

LEMMA BeginStays ==
  ASSUME CliInv, NEW c \in Calls, Begin(c)
  PROVE  CliInv'
<1>1. Typed /\ Order(c) /\ Leases(c) /\ Processes(c) /\ Tidied(c) BY DEF CliInv, CallInv
<1>0. space[c] \subseteq {"own", "check", "kept"} BY <1>1 DEF Typed, Kinds
<1>2. AdapterFrame(c)
  BY <1>1, RefusedCosts, StartRunAt DEF Begin, AdapterFrame, Goes, Stops, Verified, Refused,
         machine, alias, Adapters, Codes, CallFails, ShapeFails, PathFails, FileFails, CapabilityFails, AnswerFails,
         CaptureFails, BindingFails, ToolFails, TidyFails, ProfileFails, StatusFails,
         CredentialFails, ImageFails, ArtifactFails
<1>3. /\ at[c] = "idle" /\ space'[c] = space[c] /\ run'[c] = run[c] /\ part'[c] = part[c] /\ inner'[c] = inner[c]
      /\ \/ at'[c] = "take" /\ fail'[c] = fail[c]
         \/ at'[c] = "over" /\ fail'[c] \in {"FAILED", "CANCELLED"}
  BY <1>1 DEF Begin, Typed, Goes, StartRun, At, Run, Fail, Inner, machine, alias,
         Codes, CallFails, ShapeFails, PathFails, FileFails, CapabilityFails, AnswerFails,
         CaptureFails, BindingFails, ToolFails, TidyFails, ProfileFails, StatusFails,
         CredentialFails, ImageFails, ArtifactFails
<1>4. hold'[c] = hold[c] /\ child'[c] = child[c] /\ roots' = roots BY <1>1, <1>2, AdapterSame
<1>5. Order(c)' BY <1>1, <1>3, <1>4 DEF Order, Select, Codes
<1>6. Leases(c)' BY <1>1, <1>3, <1>4 DEF Leases, Order, Tidied, Empty, Debt, Own
<1>7. Processes(c)' BY <1>1, <1>3, <1>4 DEF Processes, Order, Tidied, Empty, Debt, Alive, Own, Kinds
<1>8. Debt(c) => Debt(c)' BY <1>1, <1>3, <1>4 DEF Debt, Order, Select
<1>9. Tidied(c)'
  BY <1>0, <1>1, <1>3, <1>4, <1>8 DEF Tidied, Empty, Processes, Leases, Order, Debt, Own, Select, Codes
<1> QED BY <1>1, <1>2, <1>3, <1>5, <1>6, <1>7, <1>8, <1>9, AdapterStays DEF CallInv, Order

LEMMA EnterBracketStays ==
  ASSUME CliInv, NEW c \in Calls, EnterBracket(c)
  PROVE  CliInv'
<1>1. Typed /\ Order(c) /\ Leases(c) /\ Processes(c) /\ Tidied(c) BY DEF CliInv, CallInv
<1>0. space[c] \subseteq {"own", "check", "kept"} BY <1>1 DEF Typed, Kinds
<1>2. AdapterFrame(c)
  BY <1>1, RefusedCosts, StartRunAt DEF EnterBracket, AdapterFrame, Goes, Stops, Verified, Refused,
         machine, alias, Adapters, Codes, CallFails, ShapeFails, PathFails, FileFails, CapabilityFails, AnswerFails,
         CaptureFails, BindingFails, ToolFails, TidyFails, ProfileFails, StatusFails,
         CredentialFails, ImageFails, ArtifactFails
<1>3. /\ at[c] = "enter" /\ space'[c] = space[c]
      /\ \/ /\ at'[c] \in {"leave", "close"} /\ fail'[c] \in Codes
            /\ run'[c] = run[c] /\ part'[c] = part[c] /\ inner'[c] = inner[c]
         \/ /\ at'[c] = "running" /\ run'[c] = "dirs" /\ part'[c] = "before" /\ inner'[c] = "ok"
            /\ fail'[c] = fail[c]
  BY <1>1 DEF EnterBracket, Typed, Goes, StartRun, At, Run, Fail, Inner, machine, alias,
         Codes, CallFails, ShapeFails, PathFails, FileFails, CapabilityFails, AnswerFails,
         CaptureFails, BindingFails, ToolFails, TidyFails, ProfileFails, StatusFails,
         CredentialFails, ImageFails, ArtifactFails
<1>4. hold'[c] = hold[c] /\ child'[c] = child[c] /\ roots' = roots BY <1>1, <1>2, AdapterSame
<1>5. Order(c)' BY <1>1, <1>3, <1>4 DEF Order, Select, Codes
<1>6. Leases(c)' BY <1>1, <1>3, <1>4 DEF Leases, Order, Tidied, Empty, Debt, Own
<1>7. Processes(c)' BY <1>1, <1>3, <1>4 DEF Processes, Order, Tidied, Empty, Debt, Alive, Own, Kinds
<1>8. Debt(c) => Debt(c)' BY <1>1, <1>3, <1>4 DEF Debt, Order, Select
<1>9. Tidied(c)'
  BY <1>0, <1>1, <1>3, <1>4, <1>8 DEF Tidied, Empty, Processes, Leases, Order, Debt, Own, Select, Codes
<1> QED BY <1>1, <1>2, <1>3, <1>5, <1>6, <1>7, <1>8, <1>9, AdapterStays DEF CallInv, Order

LEMMA AfterCapabilitiesStays ==
  ASSUME CliInv, NEW c \in Calls, AfterCapabilities(c)
  PROVE  CliInv'
<1>1. Typed /\ Order(c) /\ Leases(c) /\ Processes(c) /\ Tidied(c) BY DEF CliInv, CallInv
<1>0. space[c] \subseteq {"own", "check", "kept"} BY <1>1 DEF Typed, Kinds
<1>2. AdapterFrame(c)
  BY <1>1, OutcomeIs, RefusedCosts, StartRunAt DEF AfterCapabilities, AdapterFrame, Goes, Stops, Verified, Refused, Returned, NoFault,
         machine, alias, Adapters, Codes, CallFails, ShapeFails, PathFails, FileFails, CapabilityFails, AnswerFails,
         CaptureFails, BindingFails, ToolFails, TidyFails, ProfileFails, StatusFails,
         CredentialFails, ImageFails, ArtifactFails
<1>3. /\ run[c] = "return" /\ at[c] = "running" /\ part[c] = "before"
      /\ run'[c] = "none" /\ part'[c] = part[c] /\ inner'[c] = inner[c] /\ space'[c] = space[c]
      /\ fail'[c] \in Codes /\ (inner[c] = "RESIDUAL_DATA" => fail'[c] = "RESIDUAL_DATA")
      /\ at'[c] = IF fail'[c] = "ok" THEN "prepare" ELSE "close"
  BY <1>1, OutcomeIs DEF AfterCapabilities, Typed, Goes, StartRun, At, Run, Fail, Inner, machine, alias, Returned, NoFault,
         Codes, CallFails, ShapeFails, PathFails, FileFails, CapabilityFails, AnswerFails,
         CaptureFails, BindingFails, ToolFails, TidyFails, ProfileFails, StatusFails,
         CredentialFails, ImageFails, ArtifactFails
<1>4. hold'[c] = hold[c] /\ child'[c] = child[c] /\ roots' = roots BY <1>1, <1>2, AdapterSame
<1>5. Order(c)' BY <1>1, <1>3, <1>4 DEF Order, Select, Codes
<1>6. Leases(c)' BY <1>1, <1>3, <1>4 DEF Leases, Order, Tidied, Empty, Debt, Own
<1>7. Processes(c)' BY <1>1, <1>3, <1>4 DEF Processes, Order, Tidied, Empty, Debt, Alive, Own, Kinds
<1>8. Debt(c) => Debt(c)' BY <1>1, <1>3, <1>4 DEF Debt, Order, Select
<1>9. Tidied(c)'
  BY <1>0, <1>1, <1>3, <1>4, <1>8 DEF Tidied, Empty, Processes, Leases, Order, Debt, Own, Select, Codes
<1> QED BY <1>1, <1>2, <1>3, <1>5, <1>6, <1>7, <1>8, <1>9, AdapterStays DEF CallInv, Order

LEMMA PrepareModelStays ==
  ASSUME CliInv, NEW c \in Calls, PrepareModel(c)
  PROVE  CliInv'
<1>1. Typed /\ Order(c) /\ Leases(c) /\ Processes(c) /\ Tidied(c) BY DEF CliInv, CallInv
<1>0. space[c] \subseteq {"own", "check", "kept"} BY <1>1 DEF Typed, Kinds
<1>2. AdapterFrame(c)
  BY <1>1, RefusedCosts, StartRunAt DEF PrepareModel, AdapterFrame, Goes, Stops, Verified, Refused,
         machine, alias, Adapters, Codes, CallFails, ShapeFails, PathFails, FileFails, CapabilityFails, AnswerFails,
         CaptureFails, BindingFails, ToolFails, TidyFails, ProfileFails, StatusFails,
         CredentialFails, ImageFails, ArtifactFails
<1>3. /\ at[c] = "prepare"
      /\ \/ /\ at'[c] = "close" /\ fail'[c] \in Codes /\ run'[c] = run[c] /\ part'[c] = part[c] /\ inner'[c] = inner[c]
            /\ \/ space'[c] = space[c] \/ fail'[c] = "RESIDUAL_DATA"
               \/ space'[c] = space[c] \cup {"kept"} /\ fail'[c] # "ok"
            /\ space'[c] \in {space[c], space[c] \cup {"own"}, space[c] \cup {"kept"}}
         \/ /\ at'[c] = "running" /\ run'[c] = "dirs" /\ part'[c] = "model" /\ inner'[c] = "ok"
            /\ fail'[c] = fail[c] /\ space'[c] = space[c] \cup {"own"}
  BY <1>1 DEF PrepareModel, Typed, Goes, StartRun, At, Run, Fail, Inner, machine, alias,
         Codes, CallFails, ShapeFails, PathFails, FileFails, CapabilityFails, AnswerFails,
         CaptureFails, BindingFails, ToolFails, TidyFails, ProfileFails, StatusFails,
         CredentialFails, ImageFails, ArtifactFails
<1>4. hold'[c] = hold[c] /\ child'[c] = child[c] /\ roots' = roots BY <1>1, <1>2, AdapterSame
<1>5. Order(c)' BY <1>1, <1>3, <1>4 DEF Order, Select, Codes
<1>6. Leases(c)' BY <1>1, <1>3, <1>4 DEF Leases, Order, Tidied, Empty, Debt, Own
<1>7. Processes(c)' BY <1>1, <1>3, <1>4 DEF Processes, Order, Tidied, Empty, Debt, Alive, Own, Kinds
<1>8. Debt(c) => Debt(c)' BY <1>1, <1>3, <1>4 DEF Debt, Order, Select
<1>9. Tidied(c)'
  BY <1>0, <1>1, <1>3, <1>4, <1>8 DEF Tidied, Empty, Processes, Leases, Order, Debt, Own, Select, Codes
<1> QED BY <1>1, <1>2, <1>3, <1>5, <1>6, <1>7, <1>8, <1>9, AdapterStays DEF CallInv, Order

LEMMA AfterModelStays ==
  ASSUME CliInv, NEW c \in Calls, AfterModel(c)
  PROVE  CliInv'
<1>1. Typed /\ Order(c) /\ Leases(c) /\ Processes(c) /\ Tidied(c) BY DEF CliInv, CallInv
<1>0. space[c] \subseteq {"own", "check", "kept"} BY <1>1 DEF Typed, Kinds
<1>2. AdapterFrame(c)
  BY <1>1, OutcomeIs, RefusedCosts, StartRunAt DEF AfterModel, AdapterFrame, Goes, Stops, Verified, Refused, Returned, NoFault,
         machine, alias, Adapters, Codes, CallFails, ShapeFails, PathFails, FileFails, CapabilityFails, AnswerFails,
         CaptureFails, BindingFails, ToolFails, TidyFails, ProfileFails, StatusFails,
         CredentialFails, ImageFails, ArtifactFails
<1>3. /\ run[c] = "return" /\ at[c] = "running" /\ part[c] = "model"
      /\ run'[c] = "none" /\ part'[c] = part[c] /\ inner'[c] = inner[c] /\ space'[c] = space[c]
      /\ fail'[c] \in Codes /\ (inner[c] = "RESIDUAL_DATA" => fail'[c] = "RESIDUAL_DATA")
      /\ at'[c] = IF fail'[c] = "RESIDUAL_DATA" THEN "close" ELSE "tidy"
  BY <1>1, OutcomeIs DEF AfterModel, Typed, Goes, StartRun, At, Run, Fail, Inner, machine, alias, Returned, NoFault,
         Codes, CallFails, ShapeFails, PathFails, FileFails, CapabilityFails, AnswerFails,
         CaptureFails, BindingFails, ToolFails, TidyFails, ProfileFails, StatusFails,
         CredentialFails, ImageFails, ArtifactFails
<1>4. hold'[c] = hold[c] /\ child'[c] = child[c] /\ roots' = roots BY <1>1, <1>2, AdapterSame
<1>5. Order(c)' BY <1>1, <1>3, <1>4 DEF Order, Select, Codes
<1>6. Leases(c)' BY <1>1, <1>3, <1>4 DEF Leases, Order, Tidied, Empty, Debt, Own
<1>7. Processes(c)' BY <1>1, <1>3, <1>4 DEF Processes, Order, Tidied, Empty, Debt, Alive, Own, Kinds
<1>8. Debt(c) => Debt(c)' BY <1>1, <1>3, <1>4 DEF Debt, Order, Select
<1>9. Tidied(c)'
  BY <1>0, <1>1, <1>3, <1>4, <1>8 DEF Tidied, Empty, Processes, Leases, Order, Debt, Own, Select, Codes
<1> QED BY <1>1, <1>2, <1>3, <1>5, <1>6, <1>7, <1>8, <1>9, AdapterStays DEF CallInv, Order

LEMMA TidyRequestStays ==
  ASSUME CliInv, NEW c \in Calls, TidyRequest(c)
  PROVE  CliInv'
<1>1. Typed /\ Order(c) /\ Leases(c) /\ Processes(c) /\ Tidied(c) BY DEF CliInv, CallInv
<1>0. space[c] \subseteq {"own", "check", "kept"} BY <1>1 DEF Typed, Kinds
<1>2. AdapterFrame(c)
  BY <1>1, RefusedCosts, StartRunAt DEF TidyRequest, AdapterFrame, Goes, Stops, Verified, Refused,
         machine, alias, Adapters, Codes, CallFails, ShapeFails, PathFails, FileFails, CapabilityFails, AnswerFails,
         CaptureFails, BindingFails, ToolFails, TidyFails, ProfileFails, StatusFails,
         CredentialFails, ImageFails, ArtifactFails
<1>3. /\ at[c] = "tidy" /\ at'[c] = "close" /\ run'[c] = run[c] /\ part'[c] = part[c] /\ inner'[c] = inner[c]
      /\ \/ /\ space'[c] = space[c] \ {"own"}
            /\ fail'[c] = fail[c] \/ fail'[c] \in {"CANCELLED", "FAILED"}
         \/ space'[c] \in {space[c], space[c] \ {"own"}} /\ fail'[c] = "RESIDUAL_DATA"
  BY <1>1 DEF TidyRequest, Typed, Goes, StartRun, At, Run, Fail, Inner, machine, alias,
         Codes, CallFails, ShapeFails, PathFails, FileFails, CapabilityFails, AnswerFails,
         CaptureFails, BindingFails, ToolFails, TidyFails, ProfileFails, StatusFails,
         CredentialFails, ImageFails, ArtifactFails
<1>4. hold'[c] = hold[c] /\ child'[c] = child[c] /\ roots' = roots BY <1>1, <1>2, AdapterSame
<1>5. Order(c)' BY <1>1, <1>3, <1>4 DEF Order, Select, Codes
<1>6. Leases(c)' BY <1>1, <1>3, <1>4 DEF Leases, Order, Tidied, Empty, Debt, Own
<1>7. Processes(c)' BY <1>1, <1>3, <1>4 DEF Processes, Order, Tidied, Empty, Debt, Alive, Own, Kinds
<1>8. Debt(c) => Debt(c)' BY <1>1, <1>3, <1>4 DEF Debt, Order, Select
<1>9. Tidied(c)'
  BY <1>0, <1>1, <1>3, <1>4, <1>8 DEF Tidied, Empty, Processes, Leases, Order, Debt, Own, Select, Codes
<1> QED BY <1>1, <1>2, <1>3, <1>5, <1>6, <1>7, <1>8, <1>9, AdapterStays DEF CallInv, Order

LEMMA CloseBracketStays ==
  ASSUME CliInv, NEW c \in Calls, CloseBracket(c)
  PROVE  CliInv'
<1>1. Typed /\ Order(c) /\ Leases(c) /\ Processes(c) /\ Tidied(c) BY DEF CliInv, CallInv
<1>0. space[c] \subseteq {"own", "check", "kept"} BY <1>1 DEF Typed, Kinds
<1>2. AdapterFrame(c)
  BY <1>1, RefusedCosts, StartRunAt DEF CloseBracket, AdapterFrame, Goes, Stops, Verified, Refused, Select,
         machine, alias, Adapters, Codes, CallFails, ShapeFails, PathFails, FileFails, CapabilityFails, AnswerFails,
         CaptureFails, BindingFails, ToolFails, TidyFails, ProfileFails, StatusFails,
         CredentialFails, ImageFails, ArtifactFails
<1>3. /\ at[c] = "close" /\ space'[c] = space[c]
      /\ \/ /\ at'[c] = "running" /\ run'[c] = "dirs" /\ part'[c] = "after" /\ inner'[c] = "ok"
            /\ \/ fail'[c] = fail[c]
               \/ fail'[c] \in Codes \ {"ok"} /\ (fail[c] = "RESIDUAL_DATA" => fail'[c] = "RESIDUAL_DATA")
         \/ at'[c] = "leave" /\ fail'[c] = "RESIDUAL_DATA" /\ run'[c] = run[c] /\ part'[c] = part[c] /\ inner'[c] = inner[c]
  BY <1>1 DEF CloseBracket, Typed, Goes, StartRun, At, Run, Fail, Inner, machine, alias, Select,
         Codes, CallFails, ShapeFails, PathFails, FileFails, CapabilityFails, AnswerFails,
         CaptureFails, BindingFails, ToolFails, TidyFails, ProfileFails, StatusFails,
         CredentialFails, ImageFails, ArtifactFails
<1>4. hold'[c] = hold[c] /\ child'[c] = child[c] /\ roots' = roots BY <1>1, <1>2, AdapterSame
<1>5. Order(c)' BY <1>1, <1>3, <1>4 DEF Order, Select, Codes
<1>6. Leases(c)' BY <1>1, <1>3, <1>4 DEF Leases, Order, Tidied, Empty, Debt, Own
<1>7. Processes(c)' BY <1>1, <1>3, <1>4 DEF Processes, Order, Tidied, Empty, Debt, Alive, Own, Kinds
<1>8. Debt(c) => Debt(c)' BY <1>1, <1>3, <1>4 DEF Debt, Order, Select
<1>9. Tidied(c)'
  BY <1>0, <1>1, <1>3, <1>4, <1>8 DEF Tidied, Empty, Processes, Leases, Order, Debt, Own, Select, Codes
<1> QED BY <1>1, <1>2, <1>3, <1>5, <1>6, <1>7, <1>8, <1>9, AdapterStays DEF CallInv, Order

LEMMA CheckedIs ==
  ASSUME Typed, NEW c \in Calls, Order(c), AfterCheck(c)
  PROVE  \E code \in Codes:
           /\ Fail(c, code) /\ At(c, "leave") /\ Returned(c, "after")
           /\ inner[c] = "RESIDUAL_DATA" \/ fail[c] = "RESIDUAL_DATA" => code = "RESIDUAL_DATA"
           /\ fail[c] # "ok" => code # "ok"
<1>1. Returned(c, "after") /\ at[c] = "running" BY DEF AfterCheck, Returned
<1>2. fail[c] \in Codes /\ inner[c] \in Codes BY <1>1 DEF Typed, Order
<1> DEFINE checked == IF inner[c] = "ok" THEN fail[c] ELSE Select(fail[c], inner[c])
<1>3. PICK code \in IF poisoned \/ ~Sound THEN {"RESIDUAL_DATA"} ELSE {checked, Select(checked, "FAILED")}:
        Fail(c, code) /\ At(c, "leave")
  BY DEF AfterCheck
<1>4. /\ checked \in Codes
      /\ inner[c] = "RESIDUAL_DATA" \/ fail[c] = "RESIDUAL_DATA" => checked = "RESIDUAL_DATA"
      /\ fail[c] # "ok" => checked # "ok"
  BY <1>2 DEF Select
<1> HIDE DEF checked
<1>5. /\ Select(checked, "FAILED") \in Codes
      /\ checked = "RESIDUAL_DATA" => Select(checked, "FAILED") = "RESIDUAL_DATA"
      /\ Select(checked, "FAILED") # "ok"
  BY DEF Select, Codes
<1>6. code \in Codes BY <1>3, <1>4, <1>5 DEF Codes
<1>7. inner[c] = "RESIDUAL_DATA" \/ fail[c] = "RESIDUAL_DATA" => code = "RESIDUAL_DATA"
  BY <1>3, <1>4, <1>5
<1>8. fail[c] # "ok" => code # "ok" BY <1>3, <1>4, <1>5
<1> QED BY <1>1, <1>3, <1>6, <1>7, <1>8

LEMMA AfterCheckStays ==
  ASSUME CliInv, NEW c \in Calls, AfterCheck(c)
  PROVE  CliInv'
<1>1. Typed /\ Order(c) /\ Leases(c) /\ Processes(c) /\ Tidied(c) BY DEF CliInv, CallInv
<1>0. space[c] \subseteq {"own", "check", "kept"} BY <1>1 DEF Typed, Kinds
<1>2. AdapterFrame(c)
  BY <1>1, CheckedIs, RefusedCosts, StartRunAt DEF AdapterFrame, Goes, Stops, Verified, Refused, Returned, NoFault,
         machine, alias, Adapters, Codes, CallFails, ShapeFails, PathFails, FileFails, CapabilityFails, AnswerFails,
         CaptureFails, BindingFails, ToolFails, TidyFails, ProfileFails, StatusFails,
         CredentialFails, ImageFails, ArtifactFails
<1>3. /\ run[c] = "return" /\ at[c] = "running" /\ part[c] = "after"
      /\ run'[c] = "none" /\ part'[c] = part[c] /\ inner'[c] = inner[c] /\ space'[c] = space[c]
      /\ at'[c] = "leave" /\ fail'[c] \in Codes
      /\ (inner[c] = "RESIDUAL_DATA" \/ fail[c] = "RESIDUAL_DATA" => fail'[c] = "RESIDUAL_DATA")
      /\ (fail[c] # "ok" => fail'[c] # "ok")
  BY <1>1, CheckedIs DEF Typed, Goes, StartRun, At, Run, Fail, Inner, machine, alias, Returned, NoFault,
         Codes, CallFails, ShapeFails, PathFails, FileFails, CapabilityFails, AnswerFails,
         CaptureFails, BindingFails, ToolFails, TidyFails, ProfileFails, StatusFails,
         CredentialFails, ImageFails, ArtifactFails
<1>4. hold'[c] = hold[c] /\ child'[c] = child[c] /\ roots' = roots BY <1>1, <1>2, AdapterSame
<1>5. Order(c)' BY <1>1, <1>3, <1>4 DEF Order, Select, Codes
<1>6. Leases(c)' BY <1>1, <1>3, <1>4 DEF Leases, Order, Tidied, Empty, Debt, Own
<1>7. Processes(c)' BY <1>1, <1>3, <1>4 DEF Processes, Order, Tidied, Empty, Debt, Alive, Own, Kinds
<1>8. Debt(c) => Debt(c)' BY <1>1, <1>3, <1>4 DEF Debt, Order, Select
<1>9. Tidied(c)'
  BY <1>0, <1>1, <1>3, <1>4, <1>8 DEF Tidied, Empty, Processes, Leases, Order, Debt, Own, Select, Codes
<1> QED BY <1>1, <1>2, <1>3, <1>5, <1>6, <1>7, <1>8, <1>9, AdapterStays DEF CallInv, Order

LEMMA CheckOverdueStays ==
  ASSUME CliInv, NEW c \in Calls, CheckOverdue(c)
  PROVE  CliInv'
<1>1. Typed /\ Order(c) /\ Leases(c) /\ Processes(c) /\ Tidied(c) BY DEF CliInv, CallInv
<1>0. space[c] \subseteq {"own", "check", "kept"} BY <1>1 DEF Typed, Kinds
<1>2. AdapterFrame(c)
  BY <1>1, RefusedCosts, StartRunAt DEF CheckOverdue, AdapterFrame, Goes, Stops, Verified, Refused,
         machine, alias, Adapters, Codes, CallFails, ShapeFails, PathFails, FileFails, CapabilityFails, AnswerFails,
         CaptureFails, BindingFails, ToolFails, TidyFails, ProfileFails, StatusFails,
         CredentialFails, ImageFails, ArtifactFails
<1>3. /\ at[c] = "running" /\ part[c] = "after" /\ space'[c] = space[c] /\ run'[c] = run[c] /\ part'[c] = part[c] /\ inner'[c] = inner[c]
      /\ at'[c] = "leave" /\ fail'[c] = "RESIDUAL_DATA"
  BY <1>1 DEF CheckOverdue, Typed, Goes, StartRun, At, Run, Fail, Inner, machine, alias,
         Codes, CallFails, ShapeFails, PathFails, FileFails, CapabilityFails, AnswerFails,
         CaptureFails, BindingFails, ToolFails, TidyFails, ProfileFails, StatusFails,
         CredentialFails, ImageFails, ArtifactFails
<1>4. hold'[c] = hold[c] /\ child'[c] = child[c] /\ roots' = roots BY <1>1, <1>2, AdapterSame
<1>5. Order(c)' BY <1>1, <1>3, <1>4 DEF Order, Select, Codes
<1>6. Leases(c)' BY <1>1, <1>3, <1>4 DEF Leases, Order, Tidied, Empty, Debt, Own
<1>7. Processes(c)' BY <1>1, <1>3, <1>4 DEF Processes, Order, Tidied, Empty, Debt, Alive, Own, Kinds
<1>8. Debt(c) => Debt(c)' BY <1>1, <1>3, <1>4 DEF Debt, Order, Select
<1>9. Tidied(c)'
  BY <1>0, <1>1, <1>3, <1>4, <1>8 DEF Tidied, Empty, Processes, Leases, Order, Debt, Own, Select, Codes
<1> QED BY <1>1, <1>2, <1>3, <1>5, <1>6, <1>7, <1>8, <1>9, AdapterStays DEF CallInv, Order

-----------------------------------------------------------------------------
(* What comes from outside.                                                 *)

LEMMA ChildExitsStays ==
  ASSUME CliInv, NEW c \in Calls, NEW k \in Kinds, ChildExits(c, k)
  PROVE  CliInv'
<1>1. Typed /\ Order(c) /\ Leases(c) /\ Processes(c) /\ Tidied(c) BY DEF CliInv, CallInv
<1>2. /\ child' = [child EXCEPT ![c][k] = "gone"]
      /\ UNCHANGED <<roots, limits, mapped, marked, taken, space, place, refs, poisoned, busy, fresh, at,
                     run, part, aborted, fail, inner, hold>>
  BY DEF ChildExits, alias, threads, codes
<1>3. /\ child' \in [Calls -> [Kinds -> {"none", "alive", "gone"}]]
      /\ \A d \in Calls: d # c => child'[d] = child[d]
      /\ \A j \in Kinds: child'[c][j] = "alive" => child[c][j] = "alive"
  BY <1>1, <1>2 DEF Typed
<1>4. Typed'
  <2>1. hold' \in [Calls -> [Layers -> Holds']] BY <1>1, <1>2 DEF Typed, Holds
  <2> QED BY <1>1, <1>2, <1>3, <2>1 DEF Typed
<1>5. Own(c)' = Own(c) /\ Own(c) \in Kinds BY <1>2 DEF Own, Kinds
<1>6. Order(c)' /\ Leases(c)' BY <1>1, <1>2, <1>5 DEF Order, Leases
<1>7. Processes(c)' BY <1>1, <1>2, <1>3, <1>5 DEF Processes, Alive, Kinds
<1>8. Debt(c) <=> Debt(c)' BY <1>2 DEF Debt
<1>9. Tidied(c)' BY <1>1, <1>2, <1>3, <1>5, <1>8 DEF Tidied, Empty, Kinds
<1>10. \A l \in Threads: Where(c, l)' = Where(c, l) /\ Key(c, l)' = Key(c, l) BY <1>2 DEF Where, Key, Own
<1> QED BY <1>2, <1>3, <1>4, <1>6, <1>7, <1>8, <1>9, <1>10, CallStep DEF CallInv

LEMMA AbortStays ==
  ASSUME CliInv, NEW c \in Calls, Abort(c)
  PROVE  CliInv'
<1>1. Typed /\ CallInv(c) BY DEF CliInv
<1>2. /\ aborted' = [aborted EXCEPT ![c] = TRUE]
      /\ limits.aborts > 0 /\ limits' = [limits EXCEPT !.aborts = @ - 1]
      /\ UNCHANGED <<roots, mapped, marked, child, taken, space, place, refs, poisoned, busy, fresh, at,
                     run, part, fail, inner, hold>>
  BY DEF Abort, machine, alias, threads, codes
<1>3. Typed'
  <2>1. hold' \in [Calls -> [Layers -> Holds']] BY <1>1, <1>2 DEF Typed, Holds
  <2>0. limits \in Limits BY <1>1 DEF Typed
  <2>2. limits' \in Limits BY <1>2, <2>0 DEF Limits
  <2> QED BY <1>1, <1>2, <2>1, <2>2 DEF Typed
<1>4. CallInv(c)' /\ (Debt(c) <=> Debt(c)') BY <1>1, <1>2, CallStays
<1>5. \A l \in Threads: Where(c, l)' = Where(c, l) /\ Key(c, l)' = Key(c, l) BY <1>2 DEF Where, Key, Own
<1>6. limits'.cleans = limits.cleans BY <1>1, <1>2 DEF Typed, Limits
<1> QED BY <1>2, <1>3, <1>4, <1>5, <1>6, CallStep

\* Letters and markers go that no lease has, or that others take.
LEMMA LettersGo ==
  ASSUME CliInv, Typed',
         UNCHANGED <<roots, child, space, place, refs, poisoned, busy, fresh, at, run, part, fail, inner,
                     hold>>,
         taken \subseteq taken', OrphansInv',
         \A d \in Drives:
           /\ mapped'[d] = mapped[d]
                \/ (mapped'[d] = None /\ (d \in taken' \/ \A t \in Roots: place[t] # d))
           /\ marked'[d] = marked[d] \/ (marked'[d] = None /\ \A t \in Roots: place[t] # d),
         busy = None \/ \A d \in Drives: mapped'[d] = mapped[d] \/ (mapped'[d] = None /\ d \in taken')
  PROVE  CliInv'
<1>1. /\ Typed /\ RefsInv /\ PlacesInv /\ BusyInv /\ TurnInv /\ (\A c \in Calls: CallInv(c)) /\ LettersInv
  BY DEF CliInv, AliasInv
<1>2. RefsInv' /\ PlacesInv'
  <2>1. \A t \in Roots: refs[t] > 0 => place[t] \in Drives BY <1>1 DEF RefsInv, Typed
  <2>2. \A t \in Roots: refs[t] > 0 => marked'[place[t]] = marked[place[t]] BY <2>1
  <2>3. \A t \in Roots: refs[t] > 0 => mapped'[place[t]] = mapped[place[t]] \/ place[t] \in taken'
    BY <2>1
  <2> QED BY <1>1, <2>2, <2>3, RefsStay
<1>3. \A c \in Calls, l \in Threads: /\ Where(c, l)' = Where(c, l) /\ Key(c, l)' = Key(c, l)
                                     /\ Wanted(c, l)' = Wanted(c, l) /\ Given(c, l)' = Given(c, l)
  BY DEF Where, Key, Own, Wanted, Given
<1>4. TurnInv' BY <1>1, <1>3 DEF TurnInv
<1>5. BusyInv'
  <2>1. busy' # None => \E c \in Calls, l \in Threads: busy' = <<c, l>> /\ InLease(c, l)'
    BY <1>1, <1>3 DEF BusyInv, InLease
  <2>2. ASSUME fresh' # None
        PROVE  \E c \in Calls, l \in Threads: busy' = <<c, l>> /\ AtLetter(c, l)'
    <3>1. PICK c \in Calls, l \in Threads: busy = <<c, l>> /\ AtLetter(c, l)
      BY <1>1, <2>2 DEF BusyInv, AtLetter
    <3>2. fresh \in Drives BY <1>1, <2>2 DEF Typed
    <3>3. busy # None BY <3>1, CliAssumption
    <3>4. mapped'[fresh] = mapped[fresh] \/ (mapped'[fresh] = None /\ fresh \in taken') BY <3>2, <3>3
    <3>5. AtLetter(c, l)' BY <3>1, <3>4, <1>3 DEF AtLetter
    <3> QED BY <3>1, <3>5
  <2> QED BY <2>1, <2>2 DEF BusyInv, AtLetter
<1>6. \A c \in Calls: CallInv(c)' /\ (Debt(c) <=> Debt(c)') BY <1>1, CallStays
<1>7. LettersInv'
  <2>1. \A t \in Roots: Holders(t)' = Holders(t) BY DEF Holders
  <2>2. Accounted => Accounted' BY <2>1 DEF Accounted
  <2> QED BY <1>1, <1>6, <2>2 DEF LettersInv
<1> QED BY <1>2, <1>4, <1>5, <1>6, <1>7 DEF CliInv, AliasInv

LEMMA TamperStays ==
  ASSUME CliInv, NEW d \in Drives, Tamper(d)
  PROVE  CliInv'
<1>1. Typed BY DEF CliInv
<1>2. /\ limits.tampers > 0 /\ limits' = [limits EXCEPT !.tampers = @ - 1]
      /\ mapped' = [mapped EXCEPT ![d] = None] /\ taken' = taken \cup {d}
      /\ UNCHANGED <<roots, marked, child, space, place, refs, poisoned, busy, fresh, at, run, part,
                     aborted, fail, inner, hold>>
  BY DEF Tamper, alias, threads, codes
<1>3. /\ mapped' \in [Drives -> Roots \cup {None}]
      /\ \A e \in Drives: mapped'[e] = mapped[e] \/ (mapped'[e] = None /\ e \in taken')
  BY <1>1, <1>2 DEF Typed
<1>4. Typed'
  <2>1. hold' \in [Calls -> [Layers -> Holds']] BY <1>1, <1>2 DEF Typed, Holds
  <2>0. limits \in Limits BY <1>1 DEF Typed
  <2>3. limits' \in Limits BY <1>2, <2>0 DEF Limits
  <2>2. limits' \in Limits /\ taken' \subseteq Drives BY <1>1, <1>2, <2>3 DEF Typed
  <2> QED BY <1>1, <1>2, <1>3, <2>1, <2>2 DEF Typed
<1>5. OrphansInv' BY <1>2 DEF OrphansInv
<1> QED BY <1>2, <1>3, <1>4, <1>5, LettersGo

LEMMA CleanupStaleStays ==
  ASSUME CliInv, NEW d \in Drives, CleanupStale(d)
  PROVE  CliInv'
<1>1. Typed BY DEF CliInv
<1>2. /\ limits.cleans /\ busy = None /\ \A t \in Roots: place[t] # d
      /\ mapped' = [mapped EXCEPT ![d] = None] /\ marked' = [marked EXCEPT ![d] = None]
      /\ UNCHANGED <<roots, limits, child, taken, space, place, refs, poisoned, busy, fresh, at, run, part,
                     aborted, fail, inner, hold>>
  BY DEF CleanupStale, alias, threads, codes
<1>3. /\ mapped' \in [Drives -> Roots \cup {None}] /\ marked' \in [Drives -> Roots \cup {None}]
      /\ mapped'[d] = None /\ marked'[d] = None
      /\ \A e \in Drives: e # d => mapped'[e] = mapped[e] /\ marked'[e] = marked[e]
  BY <1>1, <1>2 DEF Typed
<1>4. Typed'
  <2>1. hold' \in [Calls -> [Layers -> Holds']] BY <1>1, <1>2 DEF Typed, Holds
  <2> QED BY <1>1, <1>2, <1>3, <2>1 DEF Typed
<1>5. OrphansInv' BY <1>2 DEF OrphansInv
<1> QED BY <1>2, <1>3, <1>4, <1>5, LettersGo

\* The letter of a root that a living process needs is there, or was taken by others.
LEMMA UserHasLetter ==
  ASSUME CliInv, NEW c \in Calls, NEW k \in Kinds, child[c][k] = "alive", hold[c][k] # {},
         NEW t \in roots
  PROVE  /\ place[t] \in Drives /\ marked[place[t]] = t
         /\ mapped[place[t]] = t \/ place[t] \in taken
<1>1. Typed /\ RefsInv /\ PlacesInv /\ BusyInv /\ CallInv(c) BY DEF CliInv, AliasInv
<1>2. t \in hold[c][k] BY <1>1 DEF CallInv, Processes
<1>3. t \in Roots /\ k \in Layers /\ k # "outer" BY <1>1, RootsAre DEF Layers, Kinds
<1>4. <<c, k>> \in Holders(t) BY <1>2, <1>3 DEF Holders
<1>5. /\ IsFiniteSet(Holders(t)) /\ Cardinality(Holders(t)) <= refs[t]
      /\ refs[t] > 0 <=> place[t] # None
      /\ refs[t] > 0 => Record(t)
  BY <1>1, <1>3, <1>4 DEF RefsInv
<1>6. Cardinality(Holders(t)) \in Nat /\ Cardinality(Holders(t)) # 0
  BY <1>4, <1>5, FS_CardinalityType, FS_EmptySet
<1>7. refs[t] \in Nat /\ place[t] \in Drives \cup {None} BY <1>1, <1>3 DEF Typed
<1>8. place[t] \in Drives /\ Record(t) BY <1>5, <1>6, <1>7
<1>9. fresh # place[t]
  <2>1. SUFFICES ASSUME fresh = place[t] PROVE FALSE OBVIOUS
  <2>2. fresh # None BY <2>1, <1>8, CliAssumption
  <2>3. PICK d \in Calls, m \in Threads: AtLetter(d, m) BY <1>1, <2>2 DEF BusyInv, AtLetter
  <2>0. PICK u: u = Given(d, m) OBVIOUS
  <2>4. /\ Where(d, m) \in Gives(m) /\ hold[d][Key(d, m)] # {}
        /\ refs[u] = 1 /\ place[u] = fresh
    BY <2>0, <2>1, <2>3, <1>3 DEF AtLetter
  <2>5. u \in Roots /\ u \in hold[d][Key(d, m)] BY <1>1, <2>0, <2>4, GivenIs
  <2>6. u = t BY <2>1, <2>4, <2>5, <1>1, <1>3, <1>8, CliAssumption DEF PlacesInv
  <2>7. Key(d, m) \in Layers BY KeysTyped
  <2>8. <<d, Key(d, m)>> \in Holders(t) BY <2>5, <2>6, <2>7 DEF Holders
  <2>9. Cardinality(Holders(t)) = 1 BY <2>4, <2>6, <1>5, <1>6
  <2>10. PICK x: Holders(t) = {x} BY <2>9, <1>5, FS_Singleton
  <2>11. <<d, Key(d, m)>> = <<c, k>> BY <2>8, <2>10, <1>4
  <2>12. d = c /\ Key(d, m) = k BY <2>11
  <2>13. m = "inner" /\ k = Own(c) BY <2>12, <1>3, KeysTyped DEF Threads
  <2>14. run[c] \in {"undo", "release"} BY <2>4, <2>12, <2>13 DEF Where, Gives
  <2> QED BY <2>13, <2>14, <1>1 DEF CallInv, Processes, Alive
<1> QED BY <1>8, <1>9 DEF Record

\* Calls that are not under way and owe nothing leave no letter and no marker.
LEMMA NothingIsLeft ==
  ASSUME CliInv, \A c \in Calls: at[c] \in {"idle", "over"} /\ run[c] = "none" /\ ~Debt(c)
  PROVE  \A d \in Drives: mapped[d] = None /\ marked[d] = None
<1>1. Typed /\ RefsInv /\ BusyInv /\ (\A c \in Calls: CallInv(c)) /\ LettersInv BY DEF CliInv, AliasInv
<1>2. ASSUME NEW c \in Calls, NEW k \in Layers PROVE hold[c][k] = {}
  BY <1>1 DEF CallInv, Leases, Tidied, Empty, Layers, Kinds
<1>3. \A t \in Roots: Holders(t) = {} BY <1>2 DEF Holders
<1>4. Accounted BY <1>1 DEF LettersInv
<1>5. \A t \in Roots: refs[t] = 0 BY <1>3, <1>4, FS_EmptySet DEF Accounted
<1>6. \A t \in Roots: place[t] = None BY <1>1, <1>5 DEF RefsInv
<1>7. fresh = None BY <1>1 DEF BusyInv, Where, Gives, Threads
<1> QED BY <1>4, <1>6, <1>7, CliAssumption DEF Accounted

LEMMA CrashStays ==
  ASSUME CliInv, Crash
  PROVE  CliInv'
<1>1. Typed /\ (\A c \in Calls: CallInv(c)) /\ LettersInv /\ OrphansInv BY DEF CliInv
<1> DEFINE cut(c) == at[c] \notin {"idle", "over"} \/ run[c] # "none"
<1>2. /\ limits.crashes > 0 /\ limits' = [limits EXCEPT !.crashes = @ - 1]
      /\ place' = [t \in Roots |-> None] /\ refs' = [t \in Roots |-> 0]
      /\ poisoned' = FALSE /\ busy' = None /\ fresh' = None
      /\ at' = [c \in Calls |-> IF at[c] = "idle" THEN "idle" ELSE "over"]
      /\ fail' = [c \in Calls |-> IF cut(c) THEN "lost" ELSE fail[c]]
      /\ run' = [c \in Calls |-> "none"]
      /\ hold' = [c \in Calls |-> [l \in Layers |-> {}]]
      /\ UNCHANGED <<roots, mapped, marked, taken, child, space, part, aborted, inner>>
  BY DEF Crash, machine
<1>3. /\ \A c \in Calls, l \in Layers: hold'[c][l] = {}
      /\ \A t \in Roots: place'[t] = None /\ refs'[t] = 0
      /\ \A c \in Calls: /\ at'[c] = IF at[c] = "idle" THEN "idle" ELSE "over"
                         /\ fail'[c] = IF cut(c) THEN "lost" ELSE fail[c]
                         /\ run'[c] = "none"
  BY <1>2
<1>4. limits' \in Limits /\ limits'.cleans = limits.cleans
  <2>1. limits \in Limits BY <1>1 DEF Typed
  <2> QED BY <1>2, <2>1 DEF Limits
<1>5. Typed'
  <2>1. hold' \in [Calls -> [Layers -> Holds']] BY <1>2 DEF Holds
  <2>2. place' \in [Roots -> Drives \cup {None}] /\ refs' \in [Roots -> Nat] BY <1>2
  <2>3. at' \in [Calls -> Adapters] /\ run' \in [Calls -> Runs] BY <1>2 DEF Adapters, Runs
  <2>4. fail' \in [Calls -> Codes \cup {"lost"}] BY <1>1, <1>2 DEF Typed
  <2>5. poisoned' \in BOOLEAN /\ busy' \in (Calls \X Threads) \cup {None} /\ fresh' \in Drives \cup {None}
    BY <1>2
  <2> HIDE DEF cut
  <2> QED BY <1>1, <1>2, <1>4, <2>1, <2>2, <2>3, <2>4, <2>5 DEF Typed
<1>6. AliasInv'
  <2>1. \A t \in Roots: Holders(t)' = {} BY <1>3 DEF Holders
  <2>2. RefsInv' BY <2>1, <1>3, FS_EmptySet DEF RefsInv
  <2>3. PlacesInv' BY <1>3 DEF PlacesInv
  <2>4. BusyInv' BY <1>2 DEF BusyInv
  <2>5. TurnInv'
    <3>1. \A c \in Calls, l \in Threads: Where(c, l)' # "take" BY <1>3 DEF Where
    <3> QED BY <3>1 DEF TurnInv
  <2> QED BY <2>2, <2>3, <2>4, <2>5 DEF AliasInv
<1>7. ASSUME NEW c \in Calls
      PROVE  CallInv(c)' /\ (~Debt(c)' => ~cut(c) /\ ~Debt(c))
  <2>1. Order(c) /\ Leases(c) /\ Processes(c) /\ Tidied(c) BY <1>1 DEF CallInv
  <2>2. /\ hold'[c]["outer"] = {} /\ hold'[c]["own"] = {} /\ hold'[c]["check"] = {}
        /\ part'[c] = part[c] /\ child'[c] = child[c] /\ space'[c] = space[c] /\ roots' = roots
        /\ inner'[c] = inner[c] /\ Own(c)' = Own(c) /\ Own(c) \in {"own", "check"}
    BY <1>2, <1>3 DEF Layers, Kinds, Own
  <2>3. /\ at'[c] = IF at[c] = "idle" THEN "idle" ELSE "over"
        /\ fail'[c] = IF cut(c) THEN "lost" ELSE fail[c]
        /\ run'[c] = "none"
    BY <1>3
  <2>4. Order(c)' BY <2>1, <2>2, <2>3 DEF Order
  <2>5. Leases(c)' BY <2>2, <2>3 DEF Leases
  <2>6. Processes(c)' BY <2>1, <2>2, <2>3 DEF Processes, Kinds
  <2>7. ~Debt(c)' => ~cut(c) /\ ~Debt(c) BY <2>3 DEF Debt
  <2>8. Tidied(c)' BY <2>1, <2>2, <2>3, <2>7 DEF Tidied, Empty
  <2> QED BY <2>4, <2>5, <2>6, <2>7, <2>8 DEF CallInv
<1>8. LettersInv'
  <2>1. SUFFICES ASSUME \A c \in Calls: ~Debt(c)' PROVE Accounted' BY DEF LettersInv
  <2>2. \A c \in Calls: at[c] \in {"idle", "over"} /\ run[c] = "none" /\ ~Debt(c) BY <1>7, <2>1
  <2>3. \A d \in Drives: mapped[d] = None /\ marked[d] = None BY <2>2, NothingIsLeft
  <2>4. \A t \in Roots: Holders(t)' = {} BY <1>3 DEF Holders
  <2> QED BY <1>2, <1>3, <2>3, <2>4, FS_EmptySet DEF Accounted
<1>9. OrphansInv'
  <2>1. SUFFICES ASSUME ~limits'.cleans, taken' = {}, NEW c \in Calls, NEW k \in Kinds,
                        child'[c][k] = "alive", NEW t \in roots'
        PROVE  \E d \in Drives: /\ marked'[d] = t /\ mapped'[d] = t /\ fresh' # d
                                /\ \A u \in Roots: place'[u] # d
    BY DEF OrphansInv
  <2>2. ~limits.cleans /\ taken = {} /\ child[c][k] = "alive" /\ t \in roots BY <2>1, <1>2, <1>4
  <2>3. \E d \in Drives: marked[d] = t /\ mapped[d] = t
    <3>1. CASE hold[c][k] = {} BY <1>1, <2>2, <3>1 DEF OrphansInv
    <3>2. CASE hold[c][k] # {} BY <2>2, <3>2, UserHasLetter
    <3> QED BY <3>1, <3>2
  <2> QED BY <2>3, <1>2, <1>3, CliAssumption
<1> QED BY <1>5, <1>6, <1>7, <1>8, <1>9 DEF CliInv

-----------------------------------------------------------------------------
(* The invariant holds at the start and is kept by every step.              *)

LEMMA CliStarts ==
  ASSUME Init
  PROVE  CliInv
<1>1. PICK w \in Workloads:
        /\ roots = w.roots
        /\ limits = [faults |-> w.faults, crashes |-> w.crashes, aborts |-> w.aborts, tampers |-> w.tampers,
                     cleans |-> w.cleans]
        /\ at = [c \in Calls |-> IF c \in w.made THEN "idle" ELSE "over"]
  BY DEF Init
<1>2. w \in [roots: {{"runtime"}, Roots}, made: SUBSET Calls, faults: Nat,
             crashes: Nat, aborts: Nat, tampers: Nat, cleans: BOOLEAN]
  BY CliAssumption
<1>3. /\ mapped = [d \in Drives |-> None] /\ marked = [d \in Drives |-> None]
      /\ taken = {} /\ child = [c \in Calls |-> [k \in Kinds |-> "none"]] /\ space = [c \in Calls |-> {}]
      /\ place = [t \in Roots |-> None] /\ refs = [t \in Roots |-> 0]
      /\ poisoned = FALSE /\ busy = None /\ fresh = None
      /\ run = [c \in Calls |-> "none"] /\ part = [c \in Calls |-> "none"]
      /\ aborted = [c \in Calls |-> FALSE]
      /\ fail = [c \in Calls |-> "ok"] /\ inner = [c \in Calls |-> "ok"]
      /\ hold = [c \in Calls |-> [l \in Layers |-> {}]]
  BY DEF Init
<1>4. Typed
  <2>1. roots \in {{"runtime"}, Roots} /\ limits \in Limits BY <1>1, <1>2 DEF Limits
  <2>2. at \in [Calls -> Adapters] BY <1>1 DEF Adapters
  <2>3. run \in [Calls -> Runs] /\ part \in [Calls -> Parts] BY <1>3 DEF Runs, Parts
  <2>4. fail \in [Calls -> Codes \cup {"lost"}] /\ inner \in [Calls -> Codes] BY <1>3 DEF Codes
  <2>5. hold \in [Calls -> [Layers -> Holds]] BY <1>3 DEF Holds
  <2>6. /\ mapped \in [Drives -> Roots \cup {None}] /\ marked \in [Drives -> Roots \cup {None}]
        /\ taken \subseteq Drives
    BY <1>3
  <2>7. child \in [Calls -> [Kinds -> {"none", "alive", "gone"}]] /\ space \in [Calls -> SUBSET (Kinds \cup {"kept"})]
    BY <1>3
  <2>8. /\ place \in [Roots -> Drives \cup {None}] /\ refs \in [Roots -> Nat]
        /\ poisoned \in BOOLEAN /\ busy \in (Calls \X Threads) \cup {None} /\ fresh \in Drives \cup {None}
        /\ aborted \in [Calls -> BOOLEAN]
    BY <1>3
  <2> QED BY <2>1, <2>2, <2>3, <2>4, <2>5, <2>6, <2>7, <2>8 DEF Typed
<1>5. \A t \in Roots: Holders(t) = {} BY <1>3 DEF Holders
<1>6. AliasInv
  <2>0. \A t \in Roots: refs[t] = 0 /\ place[t] = None BY <1>3
  <2>1. RefsInv BY <2>0, <1>5, FS_EmptySet DEF RefsInv
  <2>2. PlacesInv BY <1>3 DEF PlacesInv
  <2>3. BusyInv BY <1>3 DEF BusyInv
  <2>4. TurnInv
    <3>1. \A c \in Calls: at[c] # "take" /\ run[c] # "take" BY <1>1, <1>3
    <3> QED BY <3>1 DEF TurnInv, Where
  <2> QED BY <2>1, <2>2, <2>3, <2>4 DEF AliasInv
<1>7. ASSUME NEW c \in Calls PROVE CallInv(c)
  <2>1. /\ at[c] \in {"idle", "over"} /\ run[c] = "none" /\ part[c] = "none" /\ fail[c] = "ok"
        /\ inner[c] = "ok" /\ space[c] = {} /\ Own(c) = "own"
        /\ hold[c]["outer"] = {} /\ hold[c]["own"] = {} /\ hold[c]["check"] = {}
        /\ child[c]["own"] = "none" /\ child[c]["check"] = "none"
    BY <1>1, <1>3 DEF Layers, Kinds, Own
  <2>2. Order(c) BY <2>1 DEF Order
  <2>3. Leases(c) BY <2>1 DEF Leases
  <2>4. Processes(c) BY <2>1 DEF Processes, Kinds, Alive
  <2>5. Tidied(c) BY <2>1 DEF Tidied, Empty
  <2> QED BY <2>2, <2>3, <2>4, <2>5 DEF CallInv
<1>8. LettersInv BY <1>3, <1>5, FS_EmptySet DEF LettersInv, Accounted
<1>9. OrphansInv BY <1>3 DEF OrphansInv
<1> QED BY <1>4, <1>6, <1>7, <1>8, <1>9 DEF CliInv

LEMMA CliStep ==
  ASSUME CliInv, [Next]_vars
  PROVE  CliInv'
<1>1. ASSUME NEW c \in Calls, RunnerStep(c) PROVE CliInv'
  BY <1>1, PrepareRequestStays, SpawnStays, CaptureIdentityStays, AwaitOutcomeStays, TerminateStays,
     PostValidateStays, CleanRequestStays, ReturnLateStays, LeaseStepStays DEF RunnerStep, Threads
<1>2. ASSUME NEW c \in Calls, AdapterStep(c) PROVE CliInv'
  BY <1>2, BeginStays, EnterBracketStays, AfterCapabilitiesStays, PrepareModelStays, AfterModelStays,
     TidyRequestStays, CloseBracketStays, AfterCheckStays, LeaseStepStays DEF AdapterStep, Threads
<1>3. ASSUME NEW c \in Calls, CheckOverdue(c) \/ Abort(c) PROVE CliInv'
  BY <1>3, CheckOverdueStays, AbortStays
<1>4. ASSUME NEW c \in Calls, NEW k \in Kinds, ChildExits(c, k) PROVE CliInv' BY <1>4, ChildExitsStays
<1>5. ASSUME NEW d \in Drives, Tamper(d) \/ CleanupStale(d) PROVE CliInv'
  BY <1>5, TamperStays, CleanupStaleStays
<1>6. ASSUME Crash PROVE CliInv' BY <1>6, CrashStays
<1>7. CASE UNCHANGED vars
  <2>1. UNCHANGED <<roots, limits, mapped, marked, child, taken, space, place, refs, poisoned, busy, fresh,
                    at, run, part, aborted, fail, inner, hold>>
    BY <1>7 DEF vars, machine, alias, threads, codes
  <2>2. Typed' BY <2>1 DEF CliInv, Typed, Holds
  <2>3. OrphansInv' BY <2>1 DEF CliInv, OrphansInv
  <2> QED BY <2>1, <2>2, <2>3, LettersGo
<1> QED BY <1>1, <1>2, <1>3, <1>4, <1>5, <1>6, <1>7 DEF Next

LEMMA CliInvHolds == Spec => []CliInv
<1>1. Init => CliInv BY CliStarts
<1>2. CliInv /\ [Next]_vars => CliInv' BY CliStep
<1> QED BY <1>1, <1>2, PTL DEF Spec

-----------------------------------------------------------------------------
(* The theorems.                                                            *)

(* Whatever the calls, letters, failures and crashes: a process that may be *)
(* alive finds its directory and a letter of each of its roots, in the      *)
(* manager's records or behind them, because a letter is unmapped only by   *)
(* the last that holds a reference of it, and nobody lets go of a lease     *)
(* under a living child (nodeCliProcessRunner.ts:222-292,                   *)
(* windowsWorkspaceAlias.ts:521-525).                                       *)
THEOREM UsersDoStayMapped == Spec => []UsersAreMapped
<1>1. CliInv => UsersAreMapped
  <2>1. ASSUME CliInv, NEW c \in Calls, NEW k \in Kinds, child[c][k] = "alive"
        PROVE  /\ k \in space[c]
               /\ \/ hold[c][k] = {} /\ (limits.cleans \/ taken # {})
                  \/ \A t \in roots: \E d \in Drives: marked[d] = t /\ (mapped[d] = t \/ d \in taken)
    <3>1. k \in space[c] BY <2>1 DEF CliInv, CallInv, Processes
    <3>2. CASE hold[c][k] = {}
      <4>1. CASE limits.cleans \/ taken # {} BY <3>1, <3>2, <4>1
      <4>2. CASE ~limits.cleans /\ taken = {} BY <2>1, <3>1, <3>2, <4>2 DEF CliInv, OrphansInv
      <4> QED BY <4>1, <4>2
    <3>3. CASE hold[c][k] # {}
      <4>1. ASSUME NEW t \in roots
            PROVE  \E d \in Drives: marked[d] = t /\ (mapped[d] = t \/ d \in taken)
        BY <2>1, <3>3, UserHasLetter
      <4> QED BY <3>1, <4>1
    <3> QED BY <3>2, <3>3
  <2> QED BY <2>1 DEF UsersAreMapped
<1> QED BY <1>1, CliInvHolds, PTL

(* And a call that ends without saying that data may be left has left no    *)
(* process and no reference, and a directory only where it failed and the   *)
(* clean-up of what it had prepared was refused (nodeCodexManagedArtifacts  *)
(* .ts:157-158); when no call says so, no letter and no marker either       *)
(* (nodeCliProcessRunner.ts:240-306, codexCliAdapter.ts:360-455).           *)
THEOREM LeftoversDoGetTold == Spec => []LeftoversAreTold
<1>1. CliInv => LeftoversAreTold
  <2>1. SUFFICES ASSUME CliInv PROVE LeftoversAreTold OBVIOUS
  <2>2. Typed /\ \A c \in Calls: Order(c) /\ Leases(c) /\ Tidied(c) BY <2>1 DEF CliInv, CallInv
  <2>3. ASSUME NEW c \in Calls, at[c] = "over" /\ run[c] # "none" PROVE fail[c] = "RESIDUAL_DATA"
    BY <2>2, <2>3 DEF Order
  <2>4. ASSUME NEW c \in Calls, Clean(c)
        PROVE  /\ at[c] \in {"idle", "over"} /\ run[c] = "none" /\ ~Debt(c)
               /\ \A k \in Kinds: child[c][k] # "alive" /\ k \notin space[c]
               /\ "kept" \in space[c] => fail[c] # "ok"
               /\ hold[c] = [l \in Layers |-> {}]
    <3>1. at[c] \in {"idle", "over"} /\ run[c] = "none" /\ ~Debt(c) BY <2>4 DEF Clean, Ended, Debt
    <3>2. /\ Empty(c, "own") /\ Empty(c, "check") /\ space[c] \subseteq {"kept"}
          /\ "kept" \in space[c] => fail[c] # "ok"
      BY <2>2, <3>1 DEF Tidied
    <3>3. hold[c]["outer"] = {} BY <2>2, <3>1 DEF Leases
    <3>4. \A l \in Layers: hold[c][l] = {} BY <3>2, <3>3 DEF Empty, Layers, Kinds
    <3>5. hold[c] \in [Layers -> Holds] BY <2>2 DEF Typed
    <3>6. hold[c] = [l \in Layers |-> {}] BY <3>4, <3>5
    <3> QED BY <3>1, <3>2, <3>6 DEF Empty, Kinds
  <2>5. ASSUME \A c \in Calls: Clean(c) PROVE \A d \in Drives: mapped[d] = None /\ marked[d] = None
    BY <2>1, <2>4, <2>5, NothingIsLeft
  <2> QED BY <2>3, <2>4, <2>5 DEF LeftoversAreTold
<1> QED BY <1>1, CliInvHolds, PTL

(* The variables keep to their types, the leases to the order of the roots. *)
THEOREM TypesHold == Spec => []TypeOK
<1>1. CliInv => TypeOK
  <2>1. SUFFICES ASSUME CliInv PROVE TypeOK OBVIOUS
  <2>2. Typed BY <2>1 DEF CliInv
  <2>3. Holds \subseteq SUBSET Roots BY <2>2, RootsAre DEF Holds, Roots
  <2>4. hold \in [Calls -> [Layers -> SUBSET Roots]]
    <3>1. hold \in [Calls -> [Layers -> Holds]] BY <2>2 DEF Typed
    <3> QED BY <2>3, <3>1
  <2> QED BY <2>2, <2>4 DEF Typed, TypeOK, Limits
<1> QED BY <1>1, CliInvHolds, PTL
=============================================================================
