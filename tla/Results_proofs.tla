--------------------------- MODULE Results_proofs ---------------------------
(***************************************************************************)
(* What becomes of a job's results, in the order in which a job meets the  *)
(* three components: ContentPipeline makes them, for any number of sources *)
(* and any bounds; CourseWorkspace publishes them, for any courses, jobs,  *)
(* notes and bounds; VaultWriter writes a note that is not managed, for    *)
(* any texts, conflict names and number of attempts. The components share  *)
(* nothing: no proof of one uses a fact of another.                        *)
(***************************************************************************)
EXTENDS ContentPipeline, CourseWorkspace, VaultWriter, SequenceTheorems, TLAPS

-----------------------------------------------------------------------------
(***************************************************************************)
(* ContentPipeline: what an attempt hands over is of one piece and         *)
(* current, a row is only written for what is current, nothing is asked    *)
(* for that is there, and nothing is at work when the database is closed.  *)
(***************************************************************************)

Places == {"none", "prepare", "measure", "lookup", "ask", "router", "answered", "commit", "done"}
Payload == [stage: Stages, route: {0, 1}, prompt: {Prompt(s, p) : s \in Stages, p \in Profiles},
            upstream: Seq(Nat), topics: {0, 1}]
Attempt == [at: Places, stage: Stages, chain: Seq(Nat), route: {0, 1}, profiles: Profiles,
            topics: {0, 1}, left: Nat]

PipelineTypeInv ==
  /\ routes \in [Stages -> {0, 1}] /\ profiles \in Profiles /\ topics \in {0, 1}
  /\ payloads \in Seq(Payload)
  /\ rows \in [Stages -> 0..Len(payloads)]
  /\ damaged \subseteq 1..Len(payloads)
  /\ attempt \in Attempt
  /\ pass \in {"idle", "job", "rest"}
  /\ quit \in {"no", "router", "active", "app", "closed"}

\* A payload is one that stage s would make behind the chain c with the instructions saved.
MadeFor(s, c, saved, made) ==
  made.stage = s /\ made.prompt = Prompt(s, saved) /\ made.upstream = Upstream(s, c)

\* The chain of an attempt: one payload for each stage it is past, each made of those
\* before it with the attempt's own instructions.
ChainInv(a) ==
  /\ Len(a.chain) = IF a.at = "none" THEN 0 ELSE IF a.at = "done" THEN 6 ELSE a.stage - 1
  /\ \A s \in 1..Len(a.chain) :
       a.chain[s] \in 1..Len(payloads) /\ MadeFor(s, a.chain, a.profiles, payloads[a.chain[s]])

\* The last payload is the attempt's own while it is to be committed.
WrittenInv(a) == a.at = "commit" => Len(payloads) > 0 /\ payloads[Len(payloads)] = Identity(a)

\* What is asked for is not there.
MissingInv(a) == a.at \in {"ask", "router"} => ~Hit(a)

\* An attempt is under way only in a pass, and a pass only while the database is open.
QuietInv == (attempt.at # "none" => pass = "job") /\ (quit = "closed" => pass = "idle")

PipelineInv == PipelineTypeInv /\ ChainInv(attempt) /\ WrittenInv(attempt) /\ MissingInv(attempt) /\ QuietInv

-----------------------------------------------------------------------------

LEMMA NoAttemptFits ==
  /\ NoAttempt \in Attempt
  /\ NoAttempt.at = "none" /\ NoAttempt.chain = <<>> /\ Len(NoAttempt.chain) = 0
<1>1. FirstProfiles \in Profiles BY DEF FirstProfiles, Profiles
<1>2. <<>> \in Seq(Nat) OBVIOUS
<1> QED BY <1>1, <1>2 DEF NoAttempt, Attempt, Places, Stages

\* An attempt that is not under way satisfies what is said of one.
LEMMA NoAttemptInv == ChainInv(NoAttempt) /\ WrittenInv(NoAttempt) /\ MissingInv(NoAttempt)
BY NoAttemptFits DEF ChainInv, WrittenInv, MissingInv

LEMMA InvInit == PipelineInit => PipelineInv
<1> SUFFICES ASSUME PipelineInit PROVE PipelineInv OBVIOUS
<1>1. PipelineTypeInv
  <2>1. FirstProfiles \in Profiles BY DEF FirstProfiles, Profiles
  <2>2. <<>> \in Seq(Payload) /\ Len(payloads) = 0 BY DEF PipelineInit
  <2> QED BY <2>1, <2>2, NoAttemptFits DEF PipelineInit, PipelineTypeInv
<1>2. attempt = NoAttempt BY DEF PipelineInit
<1> QED BY <1>1, <1>2, NoAttemptInv, NoAttemptFits DEF PipelineInit, PipelineInv, QuietInv

\* The beginning of a sequence.
LEMMA SubSeqFacts ==
  ASSUME NEW X, NEW c \in Seq(X), NEW n \in 0..Len(c)
  PROVE  /\ SubSeq(c, 1, n) \in Seq(X) /\ Len(SubSeq(c, 1, n)) = n
         /\ \A i \in 1..n : SubSeq(c, 1, n)[i] = c[i]
<1>1. 1 \in 1..(Len(c) + 1) /\ n \in (1 - 1)..Len(c) OBVIOUS
<1> QED BY <1>1, SubSeqProperties

\* What a payload is made of does not change with what comes behind it.
LEMMA UpstreamStays ==
  ASSUME NEW c \in Seq(Nat), NEW x \in Nat, NEW s \in Stages, s <= Len(c) + 1
  PROVE  Upstream(s, Append(c, x)) = Upstream(s, c)
<1>1. Append(c, x) \in Seq(Nat) /\ Len(Append(c, x)) = Len(c) + 1
      /\ \A i \in 1..Len(c) : Append(c, x)[i] = c[i]
  OBVIOUS
<1>2. SubSeq(Append(c, x), 1, s - 1) = SubSeq(c, 1, s - 1)
  <2> DEFINE t == SubSeq(Append(c, x), 1, s - 1)
             u == SubSeq(c, 1, s - 1)
  <2>1. s - 1 \in 0..Len(c) /\ s - 1 \in 0..Len(Append(c, x)) BY <1>1 DEF Stages
  <2>2. t \in Seq(Nat) /\ Len(t) = s - 1 /\ \A i \in 1..(s - 1) : t[i] = Append(c, x)[i]
    BY <1>1, <2>1, SubSeqFacts
  <2>3. u \in Seq(Nat) /\ Len(u) = s - 1 /\ \A i \in 1..(s - 1) : u[i] = c[i]
    BY <2>1, SubSeqFacts
  <2> HIDE DEF t, u
  <2>4. ASSUME NEW i \in 1..Len(t) PROVE t[i] = u[i]
    <3>1. i \in 1..(s - 1) /\ i \in 1..Len(c) BY <2>1, <2>2 DEF Stages
    <3> QED BY <1>1, <2>2, <2>3, <3>1
  <2> QED BY <2>2, <2>3, <2>4, SeqEqual DEF t, u
<1>3. s \in ContentStages /\ s # 1 => Append(c, x)[s - 1] = c[s - 1] BY <1>1 DEF ContentStages
<1>4. s \in StudyStages \/ s \in ContentStages BY DEF Stages, StudyStages, ContentStages
<1>5. CASE s \in StudyStages \/ s = 1 BY <1>2, <1>5 DEF Upstream
<1>6. CASE ~(s \in StudyStages \/ s = 1)
  <2>1. <<Append(c, x)[s - 1]>> = <<c[s - 1]>> BY <1>3, <1>4, <1>6
  <2> QED BY <2>1, <1>6 DEF Upstream
<1> QED BY <1>5, <1>6

\* What the stage under way would make.
LEMMA IdentityFits ==
  ASSUME PipelineTypeInv, Len(attempt.chain) = attempt.stage - 1
  PROVE  /\ Identity(attempt) \in Payload
         /\ MadeFor(attempt.stage, attempt.chain, attempt.profiles, Identity(attempt))
<1>1. /\ attempt.stage \in Stages /\ attempt.chain \in Seq(Nat) /\ attempt.route \in {0, 1}
      /\ attempt.profiles \in Profiles /\ attempt.topics \in {0, 1}
  BY DEF PipelineTypeInv, Attempt
<1>2. Prompt(attempt.stage, attempt.profiles) \in {Prompt(s, p) : s \in Stages, p \in Profiles}
  BY <1>1
<1>3. Upstream(attempt.stage, attempt.chain) \in Seq(Nat)
  <2>1. SubSeq(attempt.chain, 1, attempt.stage - 1) \in Seq(Nat) BY <1>1, SubSeqFacts DEF Stages
  <2>2. ASSUME attempt.stage # 1 PROVE <<attempt.chain[attempt.stage - 1]>> \in Seq(Nat)
    <3>1. attempt.chain[attempt.stage - 1] \in Nat BY <1>1, <2>2 DEF Stages
    <3> QED BY <3>1
  <2> QED BY <2>1, <2>2 DEF Upstream
<1> QED BY <1>1, <1>2, <1>3 DEF Identity, Payload, MadeFor

-----------------------------------------------------------------------------
(* What a step of an attempt may do to it.                                 *)

\* The attempt goes on in its stage.
LEMMA Moved ==
  ASSUME PipelineInv, UNCHANGED payloads, attempt' \in Attempt,
         attempt'.chain = attempt.chain, attempt'.profiles = attempt.profiles,
         attempt'.stage = attempt.stage,
         attempt.at \notin {"none", "done"}, attempt'.at \notin {"none", "done"}
  PROVE  ChainInv(attempt)'
BY DEF PipelineInv, ChainInv, MadeFor

\* It is over.
LEMMA Ends ==
  ASSUME PipelineInv, pass = "job", EndAttempt, UNCHANGED <<routes, profiles, topics, damaged, payloads, rows>>
  PROVE  PipelineInv'
<1>1. attempt' = NoAttempt /\ pass' = "rest" /\ UNCHANGED quit /\ quit # "closed"
  BY DEF EndAttempt, PipelineInv, QuietInv
<1>2. PipelineTypeInv' BY <1>1, NoAttemptFits DEF PipelineInv, PipelineTypeInv
<1>3. ChainInv(attempt)' /\ WrittenInv(attempt)' /\ MissingInv(attempt)' /\ QuietInv'
  BY <1>1, NoAttemptFits DEF ChainInv, WrittenInv, MissingInv, QuietInv
<1> QED BY <1>2, <1>3 DEF PipelineInv

\* It is past a stage, with the payload that the row of the stage names.
LEMMA Passed ==
  ASSUME PipelineInv, attempt.at \in {"lookup", "commit"}, NEW sha \in 1..Len(payloads),
         payloads[sha] = Identity(attempt), StageDone(attempt, sha), UNCHANGED payloads
  PROVE  /\ attempt' \in Attempt /\ ChainInv(attempt)'
         /\ WrittenInv(attempt)' /\ MissingInv(attempt)'
         /\ UNCHANGED <<pass, quit>>
         /\ attempt'.chain = Append(attempt.chain, sha) /\ attempt'.profiles = attempt.profiles
         /\ attempt'.at = "done" => attempt.stage = 6 /\ Len(attempt.chain) = 5
<1> DEFINE c == attempt.chain
           d == Append(c, sha)
<1>1. /\ attempt \in Attempt /\ payloads \in Seq(Payload) /\ c \in Seq(Nat)
      /\ attempt.stage \in Stages /\ Len(c) = attempt.stage - 1
  BY DEF PipelineInv, PipelineTypeInv, ChainInv, Attempt
<1>2. /\ d \in Seq(Nat) /\ Len(d) = attempt.stage /\ d[attempt.stage] = sha
      /\ \A i \in 1..Len(c) : d[i] = c[i]
  <2>1. sha \in Nat OBVIOUS
  <2>2. Len(c) + 1 = attempt.stage BY <1>1 DEF Stages
  <2> QED BY <1>1, <2>1, <2>2, AppendProperties
<1>3. ASSUME NEW s \in 1..Len(d)
      PROVE  d[s] \in 1..Len(payloads) /\ MadeFor(s, d, attempt.profiles, payloads[d[s]])
  <2>1. s \in Stages /\ s <= Len(c) + 1
    <3>1. attempt.stage \in 1..6 /\ Len(c) = attempt.stage - 1 /\ Len(d) = attempt.stage
      BY <1>1, <1>2 DEF Stages
    <3> HIDE DEF c, d
    <3> QED BY <3>1 DEF Stages
  <2>2. Upstream(s, d) = Upstream(s, c)
    <3>1. sha \in Nat OBVIOUS
    <3> QED BY <1>1, <2>1, <3>1, UpstreamStays
  <2>3. CASE s = attempt.stage
    <3>1. MadeFor(s, c, attempt.profiles, payloads[sha])
      BY <1>1, <2>3, IdentityFits DEF PipelineInv
    <3> QED BY <1>2, <2>2, <2>3, <3>1 DEF MadeFor
  <2>4. CASE s # attempt.stage
    <3>1. s \in 1..Len(c) BY <1>1, <1>2, <2>4 DEF Stages
    <3>2. c[s] \in 1..Len(payloads) /\ MadeFor(s, c, attempt.profiles, payloads[c[s]])
      BY <3>1 DEF PipelineInv, ChainInv
    <3> QED BY <1>2, <2>2, <3>1, <3>2 DEF MadeFor
  <2> QED BY <2>3, <2>4
<1> HIDE DEF d
<1>4. CASE attempt.stage = 6
  <2>1. attempt' = [attempt EXCEPT !.at = "done", !.chain = d] /\ UNCHANGED <<pass, quit>>
    BY <1>4 DEF StageDone, shell, d
  <2>2. /\ attempt'.at = "done" /\ attempt'.chain = d /\ attempt'.profiles = attempt.profiles
        /\ attempt' \in Attempt
    BY <1>1, <1>2, <2>1 DEF Attempt, Places
  <2>3. ChainInv(attempt)' BY <1>2, <1>3, <1>4, <2>2 DEF ChainInv
  <2> QED BY <1>1, <1>4, <2>1, <2>2, <2>3 DEF WrittenInv, MissingInv, d
<1>5. CASE attempt.stage # 6
  <2>1. /\ attempt' = [attempt EXCEPT !.at = "prepare", !.stage = @ + 1, !.chain = d]
        /\ UNCHANGED <<pass, quit>>
    BY <1>5 DEF StageDone, shell, d
  <2>2. attempt.stage + 1 \in Stages BY <1>1, <1>5 DEF Stages
  <2>3. /\ attempt'.at = "prepare" /\ attempt'.chain = d /\ attempt'.profiles = attempt.profiles
        /\ attempt'.stage = attempt.stage + 1 /\ attempt' \in Attempt
    BY <1>1, <1>2, <2>1, <2>2 DEF Attempt, Places
  <2>4. ChainInv(attempt)' BY <1>1, <1>2, <1>3, <2>3 DEF ChainInv, Stages
  <2> QED BY <2>1, <2>3, <2>4 DEF WrittenInv, MissingInv, d
<1> QED BY <1>4, <1>5

-----------------------------------------------------------------------------
(* The steps of the attempt.                                               *)

LEMMA InvBeginAttempt == ASSUME PipelineInv, BeginAttempt PROVE PipelineInv'
<1>1. pass = "job" /\ attempt.at = "none" /\ UNCHANGED <<world, payloads, rows>>
  BY DEF BeginAttempt
<1>2. CASE aborted BY <1>1, <1>2, Ends DEF BeginAttempt, world
<1>3. CASE ~aborted
  <2> DEFINE a == [NoAttempt EXCEPT !.profiles = profiles, !.topics = topics]
  <2>1. attempt' = [a EXCEPT !.at = "prepare"] /\ UNCHANGED <<pass, quit>>
    BY <1>3 DEF BeginAttempt, At, shell
  <2>2. /\ attempt' \in Attempt /\ attempt'.at = "prepare" /\ attempt'.chain = <<>>
        /\ attempt'.stage = 1
    BY <2>1, NoAttemptFits DEF PipelineInv, PipelineTypeInv, Attempt, Places, NoAttempt
  <2>3. PipelineTypeInv' BY <1>1, <2>1, <2>2 DEF PipelineInv, PipelineTypeInv, world
  <2>4. ChainInv(attempt)' BY <2>2 DEF ChainInv
  <2> QED BY <1>1, <2>1, <2>2, <2>3, <2>4 DEF PipelineInv, QuietInv, WrittenInv, MissingInv
<1> QED BY <1>2, <1>3

\* The attempt goes on in its stage, and nothing is written.
LEMMA AttemptGoesOn ==
  ASSUME PipelineInv, NEW a, NEW where \in Places \ {"none", "done", "commit"}, At(a, where),
         attempt.at \notin {"none", "done"}, a \in Attempt,
         a.chain = attempt.chain, a.profiles = attempt.profiles, a.stage = attempt.stage,
         where \in {"ask", "router"} => ~Hit(a),
         UNCHANGED <<world, payloads, rows>>
  PROVE  PipelineInv'
<1>1. attempt' = [a EXCEPT !.at = where] /\ UNCHANGED <<pass, quit>> BY DEF At, shell
<1>2. /\ attempt' \in Attempt /\ attempt'.at = where /\ attempt'.chain = a.chain
      /\ attempt'.profiles = a.profiles /\ attempt'.stage = a.stage /\ attempt'.route = a.route
      /\ attempt'.topics = a.topics
  BY <1>1 DEF Attempt
<1>3. PipelineTypeInv' BY <1>1, <1>2 DEF PipelineInv, PipelineTypeInv, world
<1>4. ChainInv(attempt)' BY <1>2, Moved
<1>5. WrittenInv(attempt)' BY <1>2 DEF WrittenInv
<1>6. MissingInv(attempt)'
  <2>1. Identity(attempt)' = Identity(a) BY <1>2 DEF Identity
  <2> QED BY <1>2, <2>1 DEF MissingInv, Hit
<1>7. QuietInv' BY <1>1 DEF PipelineInv, QuietInv
<1> QED BY <1>3, <1>4, <1>5, <1>6, <1>7 DEF PipelineInv

LEMMA InvPrepare == ASSUME PipelineInv, Prepare PROVE PipelineInv'
<1> DEFINE a == [attempt EXCEPT !.route = routes[attempt.stage]]
<1>1. /\ attempt.at = "prepare" /\ pass = "job" /\ UNCHANGED <<world, payloads, rows>>
      /\ attempt \in Attempt
  BY DEF Prepare, PipelineInv, QuietInv, PipelineTypeInv
<1>2. /\ a \in Attempt /\ a.chain = attempt.chain /\ a.profiles = attempt.profiles
      /\ a.stage = attempt.stage
  BY <1>1 DEF PipelineInv, PipelineTypeInv, Attempt
<1>3. EndAttempt \/ At(a, "measure") \/ At(a, "lookup")
  BY DEF Prepare
<1> HIDE DEF a
<1>4. CASE EndAttempt BY <1>1, <1>4, Ends DEF world
<1>5. CASE At(a, "measure") BY <1>1, <1>2, <1>5, AttemptGoesOn DEF Places
<1>6. CASE At(a, "lookup") BY <1>1, <1>2, <1>6, AttemptGoesOn DEF Places
<1> QED BY <1>3, <1>4, <1>5, <1>6

LEMMA InvMeasure == ASSUME PipelineInv, Measure PROVE PipelineInv'
<1>1. /\ attempt.at = "measure" /\ pass = "job" /\ UNCHANGED <<world, payloads, rows>>
      /\ attempt \in Attempt
  BY DEF Measure, PipelineInv, QuietInv, PipelineTypeInv
<1>2. CASE EndAttempt BY <1>1, <1>2, Ends DEF world
<1>3. CASE At(attempt, "lookup") BY <1>1, <1>3, AttemptGoesOn DEF Places
<1> QED BY <1>2, <1>3 DEF Measure

LEMMA InvLookup == ASSUME PipelineInv, Lookup PROVE PipelineInv'
<1> DEFINE a == [attempt EXCEPT !.left = Requests(attempt.stage)]
<1>1. /\ attempt.at = "lookup" /\ pass = "job" /\ UNCHANGED <<world, payloads, rows>>
      /\ attempt \in Attempt /\ attempt.stage \in Stages
  BY DEF Lookup, PipelineInv, QuietInv, PipelineTypeInv, Attempt
<1>2. \/ EndAttempt
      \/ Hit(attempt) /\ StageDone(attempt, rows[attempt.stage])
      \/ At(a, "ask") /\ (~Allowed(attempt) \/ ~Hit(attempt)) /\ Allowed(attempt)
  BY DEF Lookup
<1>3. CASE EndAttempt BY <1>1, <1>3, Ends DEF world
<1>4. CASE Hit(attempt) /\ StageDone(attempt, rows[attempt.stage])
  <2>1. rows[attempt.stage] \in 1..Len(payloads) BY <1>1, <1>4 DEF Hit, PipelineInv, PipelineTypeInv
  <2>2. payloads[rows[attempt.stage]] = Identity(attempt) BY <1>4 DEF Hit
  <2>3. /\ attempt' \in Attempt /\ ChainInv(attempt)'
        /\ WrittenInv(attempt)' /\ MissingInv(attempt)' /\ UNCHANGED <<pass, quit>>
    BY <1>1, <1>4, <2>1, <2>2, Passed
  <2>4. PipelineTypeInv' BY <1>1, <2>3 DEF PipelineInv, PipelineTypeInv, world
  <2> QED BY <1>1, <2>3, <2>4 DEF PipelineInv, QuietInv
<1>5. CASE At(a, "ask") /\ ~Hit(attempt)
  <2>1. /\ a \in Attempt /\ a.chain = attempt.chain /\ a.profiles = attempt.profiles
        /\ a.stage = attempt.stage /\ a.route = attempt.route /\ a.topics = attempt.topics
    BY <1>1, PipelineAssumption DEF Attempt, Requests
  <2> HIDE DEF a
  <2>2. Identity(a) = Identity(attempt) BY <2>1 DEF Identity
  <2>3. ~Hit(a) BY <1>5, <2>1, <2>2 DEF Hit
  <2> QED BY <1>1, <1>5, <2>1, <2>3, AttemptGoesOn DEF Places
<1> QED BY <1>2, <1>3, <1>4, <1>5

LEMMA InvAsk == ASSUME PipelineInv, Ask PROVE PipelineInv'
<1>1. /\ attempt.at = "ask" /\ pass = "job" /\ UNCHANGED <<world, payloads, rows>>
      /\ attempt \in Attempt /\ ~Hit(attempt)
  BY DEF Ask, PipelineInv, QuietInv, PipelineTypeInv, MissingInv
<1>2. CASE EndAttempt BY <1>1, <1>2, Ends DEF world
<1>3. CASE At(attempt, "router") BY <1>1, <1>3, AttemptGoesOn DEF Places
<1> QED BY <1>2, <1>3 DEF Ask

LEMMA InvAnswered == ASSUME PipelineInv, Answered PROVE PipelineInv'
<1> DEFINE a(n) == [attempt EXCEPT !.left = n]
<1>1. /\ attempt.at = "router" /\ pass = "job" /\ UNCHANGED <<world, payloads, rows>>
      /\ attempt \in Attempt /\ ~Hit(attempt)
  BY DEF Answered, PipelineInv, QuietInv, PipelineTypeInv, MissingInv
<1>2. \/ EndAttempt
      \/ attempt.left > 1 /\ At(a(attempt.left - 1), "ask")
      \/ At(a(0), "answered")
  BY DEF Answered, Rejected
<1>3. ASSUME NEW n \in Nat
      PROVE  /\ a(n) \in Attempt /\ a(n).chain = attempt.chain /\ a(n).profiles = attempt.profiles
             /\ a(n).stage = attempt.stage /\ a(n).route = attempt.route
             /\ a(n).topics = attempt.topics
  BY <1>1 DEF Attempt
<1>4. ASSUME NEW n \in Nat PROVE ~Hit(a(n))
  BY <1>1, <1>3 DEF Hit, Identity
<1>5. attempt.left \in Nat BY <1>1 DEF Attempt
<1> HIDE DEF a
<1>6. CASE EndAttempt BY <1>1, <1>6, Ends DEF world
<1>7. CASE attempt.left > 1 /\ At(a(attempt.left - 1), "ask")
  <2>1. attempt.left - 1 \in Nat BY <1>5, <1>7
  <2> QED BY <1>1, <1>3, <1>4, <1>7, <2>1, AttemptGoesOn DEF Places
<1>8. CASE At(a(0), "answered") BY <1>1, <1>3, <1>8, AttemptGoesOn DEF Places
<1> QED BY <1>2, <1>6, <1>7, <1>8

LEMMA InvWritePayload == ASSUME PipelineInv, WritePayload PROVE PipelineInv'
<1>1. /\ attempt.at = "answered" /\ pass = "job" /\ UNCHANGED <<world, rows>>
      /\ attempt \in Attempt /\ payloads \in Seq(Payload) /\ rows \in [Stages -> 0..Len(payloads)]
      /\ damaged \subseteq 1..Len(payloads) /\ Len(attempt.chain) = attempt.stage - 1
  BY DEF WritePayload, PipelineInv, QuietInv, PipelineTypeInv, ChainInv
<1>2. CASE Allowed(attempt)
  <2>1. /\ payloads' = Append(payloads, Identity(attempt)) /\ At(attempt, "commit")
    BY <1>2 DEF WritePayload
  <2>2. Identity(attempt) \in Payload BY <1>1, IdentityFits DEF PipelineInv
  <2>3. /\ payloads' \in Seq(Payload) /\ Len(payloads') = Len(payloads) + 1
        /\ payloads'[Len(payloads')] = Identity(attempt)
        /\ \A i \in 1..Len(payloads) : payloads'[i] = payloads[i]
    BY <1>1, <2>1, <2>2, AppendProperties
  <2>4. attempt' = [attempt EXCEPT !.at = "commit"] /\ UNCHANGED <<pass, quit>>
    BY <2>1 DEF At, shell
  <2>5. /\ attempt' \in Attempt /\ attempt'.at = "commit" /\ attempt'.chain = attempt.chain
        /\ attempt'.profiles = attempt.profiles /\ attempt'.stage = attempt.stage
        /\ attempt'.route = attempt.route /\ attempt'.topics = attempt.topics
    BY <1>1, <2>4 DEF Attempt, Places
  <2>6. rows' \in [Stages -> 0..Len(payloads')] /\ damaged' \subseteq 1..Len(payloads')
    BY <1>1, <2>3 DEF world
  <2>7. PipelineTypeInv' BY <1>1, <2>3, <2>4, <2>5, <2>6 DEF PipelineInv, PipelineTypeInv, world
  <2>8. ChainInv(attempt)'
    <3>1. \A s \in 1..Len(attempt.chain) :
            attempt.chain[s] \in 1..Len(payloads')
              /\ MadeFor(s, attempt.chain, attempt.profiles, payloads'[attempt.chain[s]])
      BY <2>3 DEF PipelineInv, ChainInv
    <3> QED BY <1>1, <2>5, <3>1 DEF ChainInv
  <2>9. WrittenInv(attempt)'
    <3>1. Identity(attempt)' = Identity(attempt) BY <2>5 DEF Identity
    <3> QED BY <1>1, <2>3, <3>1 DEF WrittenInv
  <2> QED BY <1>1, <2>4, <2>5, <2>7, <2>8, <2>9 DEF PipelineInv, QuietInv, MissingInv
<1>3. CASE ~Allowed(attempt) BY <1>1, <1>3, Ends DEF WritePayload, world
<1> QED BY <1>2, <1>3

\* A row that is written names the last payload, which is what the stage is to be.
LEMMA Committed ==
  ASSUME PipelineInv, CommitRow, rows' # rows
  PROVE  /\ Allowed(attempt) /\ Len(payloads) \in 1..Len(payloads)
         /\ payloads[Len(payloads)] = Identity(attempt)
         /\ rows' = [rows EXCEPT ![attempt.stage] = Len(payloads)]
         /\ StageDone(attempt, Len(payloads)) /\ UNCHANGED payloads
<1>1. payloads \in Seq(Payload) /\ attempt.at = "commit" BY DEF PipelineInv, PipelineTypeInv, CommitRow
<1>2. Len(payloads) > 0 /\ payloads[Len(payloads)] = Identity(attempt)
  BY <1>1 DEF PipelineInv, WrittenInv
<1>3. Len(payloads) \in 1..Len(payloads) BY <1>1, <1>2
<1> QED BY <1>2, <1>3 DEF CommitRow

LEMMA InvCommit == ASSUME PipelineInv, CommitRow PROVE PipelineInv'
<1>1. /\ attempt.at = "commit" /\ pass = "job" /\ UNCHANGED <<world, payloads>>
      /\ payloads \in Seq(Payload) /\ rows \in [Stages -> 0..Len(payloads)]
      /\ attempt \in Attempt /\ attempt.stage \in Stages
  BY DEF CommitRow, PipelineInv, QuietInv, PipelineTypeInv, Attempt
<1>2. CASE UNCHANGED rows /\ EndAttempt BY <1>1, <1>2, Ends DEF world
<1>3. CASE /\ Allowed(attempt) /\ rows' = [rows EXCEPT ![attempt.stage] = Len(payloads)]
           /\ StageDone(attempt, Len(payloads))
  <2>1. Len(payloads) > 0 /\ payloads[Len(payloads)] = Identity(attempt)
    BY <1>1 DEF PipelineInv, WrittenInv
  <2>2. Len(payloads) \in 1..Len(payloads) BY <1>1, <2>1
  <2>3. /\ attempt' \in Attempt /\ ChainInv(attempt)'
        /\ WrittenInv(attempt)' /\ MissingInv(attempt)' /\ UNCHANGED <<pass, quit>>
    BY <1>1, <1>3, <2>1, <2>2, Passed
  <2>4. rows' \in [Stages -> 0..Len(payloads')] BY <1>1, <1>3, <2>2
  <2>5. PipelineTypeInv' BY <1>1, <2>3, <2>4 DEF PipelineInv, PipelineTypeInv, world
  <2> QED BY <1>1, <2>3, <2>5 DEF PipelineInv, QuietInv
<1> QED BY <1>2, <1>3 DEF CommitRow

LEMMA InvDeliver == ASSUME PipelineInv, Deliver PROVE PipelineInv'
<1>1. /\ pass = "job" /\ EndAttempt /\ UNCHANGED <<world, payloads, rows>>
  BY DEF Deliver, PipelineInv, QuietInv
<1> QED BY <1>1, Ends DEF world

-----------------------------------------------------------------------------
(* The application around it, and what happens from outside.               *)

\* The attempt and what it is made of stay.
LEMMA Around ==
  ASSUME PipelineInv, UNCHANGED <<payloads, rows, attempt>>,
         /\ routes' \in [Stages -> {0, 1}] /\ profiles' \in Profiles /\ topics' \in {0, 1}
         /\ damaged' \subseteq 1..Len(payloads)
         /\ pass' \in {"idle", "job", "rest"}
         /\ quit' \in {"no", "router", "active", "app", "closed"},
         QuietInv'
  PROVE  PipelineInv'
<1>1. PipelineTypeInv' BY DEF PipelineInv, PipelineTypeInv
<1>2. ChainInv(attempt)' /\ WrittenInv(attempt)' /\ MissingInv(attempt)'
  BY DEF PipelineInv, ChainInv, MadeFor, WrittenInv, MissingInv, Hit, Identity
<1> QED BY <1>1, <1>2 DEF PipelineInv

LEMMA InvShell ==
  ASSUME PipelineInv, \/ EndPass \/ StartPass \/ Quit \/ RouterStopped \/ ContentDrained \/ Close
              \/ DrainTimesOut \/ Open
  PROVE  PipelineInv'
<1>1. UNCHANGED <<world, payloads, rows, attempt>>
  BY DEF EndPass, StartPass, Quit, RouterStopped, ContentDrained, Close, DrainTimesOut, Open
<1>2. pass' \in {"idle", "job", "rest"} /\ quit' \in {"no", "router", "active", "app", "closed"}
      /\ QuietInv'
  BY DEF EndPass, StartPass, Quit, RouterStopped, ContentDrained, Close, DrainTimesOut, Open,
         PipelineInv, PipelineTypeInv, QuietInv
<1> QED BY <1>1, <1>2, Around DEF PipelineInv, PipelineTypeInv, world

LEMMA InvCrash == ASSUME PipelineInv, PipelineCrash PROVE PipelineInv'
<1>1. /\ attempt' = NoAttempt /\ pass' = "idle" /\ quit' = "closed"
      /\ UNCHANGED <<world, payloads, rows>>
  BY DEF PipelineCrash
<1>2. PipelineTypeInv' BY <1>1, NoAttemptFits DEF PipelineInv, PipelineTypeInv, world
<1>3. ChainInv(attempt)' /\ WrittenInv(attempt)' /\ MissingInv(attempt)' /\ QuietInv'
  BY <1>1, NoAttemptFits DEF ChainInv, WrittenInv, MissingInv, QuietInv
<1> QED BY <1>2, <1>3 DEF PipelineInv

LEMMA InvChange ==
  ASSUME PipelineInv, ChangeRoute \/ ChangeProfile \/ ChangeTopics
  PROVE  PipelineInv'
<1>1. /\ UNCHANGED <<damaged, payloads, rows, attempt, pass, quit>>
      /\ routes \in [Stages -> {0, 1}] /\ profiles \in Profiles /\ topics \in {0, 1}
  BY DEF ChangeRoute, ChangeProfile, ChangeTopics, shell, PipelineInv, PipelineTypeInv
<1>2. routes' \in [Stages -> {0, 1}] /\ profiles' \in Profiles /\ topics' \in {0, 1}
  <2>1. CASE ChangeRoute BY <1>1, <2>1 DEF ChangeRoute
  <2>2. CASE ChangeProfile BY <1>1, <2>2 DEF ChangeProfile, Profiles
  <2>3. CASE ChangeTopics BY <1>1, <2>3 DEF ChangeTopics
  <2> QED BY <2>1, <2>2, <2>3
<1> QED BY <1>1, <1>2, Around DEF PipelineInv, PipelineTypeInv, QuietInv

LEMMA InvDamage == ASSUME PipelineInv, Damage PROVE PipelineInv'
<1>1. /\ UNCHANGED <<routes, profiles, topics, payloads, rows, attempt, pass, quit>>
      /\ rows \in [Stages -> 0..Len(payloads)] /\ payloads \in Seq(Payload)
  BY DEF Damage, shell, PipelineInv, PipelineTypeInv
<1>2. damaged' \subseteq 1..Len(payloads)
  <2>1. PICK s \in Stages : rows[s] # 0 /\ damaged' = damaged \cup {rows[s]} BY DEF Damage
  <2>2. rows[s] \in 1..Len(payloads) BY <1>1, <2>1
  <2> QED BY <2>1, <2>2 DEF PipelineInv, PipelineTypeInv
<1> QED BY <1>1, <1>2, Around DEF PipelineInv, PipelineTypeInv, QuietInv

LEMMA InvNext == PipelineInv /\ [PipelineNext]_pipelineVars => PipelineInv'
<1> SUFFICES ASSUME PipelineInv, [PipelineNext]_pipelineVars PROVE PipelineInv' OBVIOUS
<1>1. CASE PipelineStep
  BY <1>1, InvBeginAttempt, InvPrepare, InvMeasure, InvLookup, InvAsk, InvAnswered,
     InvWritePayload, InvCommit, InvDeliver, InvShell DEF PipelineStep
<1>2. CASE PipelineNext /\ ~PipelineStep BY <1>2, InvShell, InvCrash, InvChange, InvDamage DEF PipelineNext
<1>3. CASE UNCHANGED pipelineVars
  BY <1>3, Around DEF pipelineVars, PipelineInv, PipelineTypeInv, QuietInv
<1> QED BY <1>1, <1>2, <1>3

LEMMA InvAlways == PipelineSpec => []PipelineInv
BY InvInit, InvNext, PTL DEF PipelineSpec

-----------------------------------------------------------------------------

\* When the database is closed nothing of the application is at work
\* (bootstrap.ts:364-383, contentPipelineRuntime.ts:152-169).
THEOREM ClosedQuietAlways == PipelineSpec => []ClosedIsQuiet
<1>1. PipelineInv => ClosedIsQuiet BY DEF PipelineInv, QuietInv, ClosedIsQuiet, Tracked
<1> QED BY <1>1, InvAlways, PTL

\* Nothing is asked of a provider that a row already names
\* (pipelineOperations.ts:459-468, 539-550).
THEOREM NothingPaidTwiceAlways == PipelineSpec => NothingPaidTwice
<1>1. ASSUME PipelineInv, attempt.at = "ask", NEW s \in 1..Len(payloads), rows[attempt.stage] = s
      PROVE  payloads[s] # Identity(attempt)
  <2>1. ~Hit(attempt) BY <1>1 DEF PipelineInv, MissingInv
  <2>2. s # 0 BY <1>1 DEF PipelineInv, PipelineTypeInv
  <2> QED BY <1>1, <2>1, <2>2 DEF Hit
<1>2. PipelineInv /\ [PipelineNext]_pipelineVars =>
        [attempt.at = "ask" /\ attempt'.at = "router" =>
           \A s \in 1..Len(payloads) : rows[attempt.stage] = s => payloads[s] # Identity(attempt)]_pipelineVars
  BY <1>1
<1> QED BY <1>2, InvAlways, PTL DEF PipelineSpec, NothingPaidTwice

\* A row is only written for what is current, behind the rows it was made of
\* (jsonPipelineArtifactStore.ts:191-197).
THEOREM CommitsCurrentAlways == PipelineSpec => CommitsAreCurrent
<1> DEFINE P == \A s \in Stages: rows'[s] # rows[s] =>
                  LET made == payloads[rows'[s]] IN
                  /\ ~aborted /\ quit # "closed"
                  /\ made.route = routes[s] /\ made.prompt = Prompt(s, profiles)
                  /\ \A i \in 1..Len(made.upstream): \E t \in 1..(s - 1): rows[t] = made.upstream[i]
<1>1. ASSUME PipelineInv, PipelineNext PROVE P
  <2>1. SUFFICES ASSUME NEW s \in Stages, rows'[s] # rows[s]
        PROVE  LET made == payloads[rows'[s]] IN
               /\ ~aborted /\ quit # "closed"
               /\ made.route = routes[s] /\ made.prompt = Prompt(s, profiles)
               /\ \A i \in 1..Len(made.upstream): \E t \in 1..(s - 1): rows[t] = made.upstream[i]
    OBVIOUS
  <2>2. CommitRow
    BY <1>1, <2>1 DEF PipelineNext, PipelineStep, BeginAttempt, Prepare, Measure, Lookup, Ask, Answered, WritePayload,
      Deliver, EndPass, StartPass, Quit, RouterStopped, ContentDrained, Close, DrainTimesOut, PipelineCrash,
      Open, ChangeRoute, ChangeProfile, ChangeTopics, Rejected,
          Damage
  <2>3. /\ Allowed(attempt) /\ payloads[Len(payloads)] = Identity(attempt)
        /\ rows' = [rows EXCEPT ![attempt.stage] = Len(payloads)]
    BY <1>1, <2>1, <2>2, Committed
  <2>4. /\ attempt \in Attempt /\ rows \in [Stages -> 0..Len(payloads)] /\ attempt.at = "commit"
        /\ attempt.chain \in Seq(Nat) /\ Len(attempt.chain) = attempt.stage - 1
    BY <1>1, <2>2 DEF PipelineInv, PipelineTypeInv, ChainInv, CommitRow, Attempt
  <2>5. s = attempt.stage /\ payloads[rows'[s]] = Identity(attempt) BY <2>1, <2>3, <2>4
  <2>6. ~aborted /\ quit # "closed"
    BY <1>1, <2>3, <2>4 DEF Allowed, PipelineInv, QuietInv
  <2>7. Identity(attempt).route = routes[s] /\ Identity(attempt).prompt = Prompt(s, profiles)
    BY <2>3, <2>5 DEF Allowed, Current, PromptsCurrent, Identity
  <2>8. ASSUME NEW i \in 1..Len(Upstream(s, attempt.chain))
        PROVE  \E t \in 1..(s - 1) : rows[t] = Upstream(s, attempt.chain)[i]
    <3>1. \A t \in Watched(attempt) : rows[t] = attempt.chain[t]
      BY <2>3 DEF Allowed, UpstreamCurrent, Readable
    <3>2. CASE s \in StudyStages \/ s = 1
      <4>1. s - 1 \in 0..Len(attempt.chain)
        <5>1. Len(attempt.chain) = s - 1 BY <2>4, <2>5
        <5>2. s - 1 \in 0..(s - 1) BY DEF Stages
        <5> QED BY <5>1, <5>2
      <4>2. /\ Len(Upstream(s, attempt.chain)) = s - 1
            /\ \A t \in 1..(s - 1) : Upstream(s, attempt.chain)[t] = attempt.chain[t]
        BY <2>4, <3>2, <4>1, SubSeqFacts DEF Upstream
      <4>3. i \in 1..(s - 1) BY <4>2
      <4>4. s # 1 BY <4>3
      <4>5. i \in Watched(attempt) BY <2>5, <3>2, <4>3, <4>4 DEF Watched
      <4> QED BY <3>1, <4>2, <4>3, <4>5
    <3>3. CASE ~(s \in StudyStages \/ s = 1)
      <4>1. Upstream(s, attempt.chain) = <<attempt.chain[s - 1]>> BY <3>3 DEF Upstream
      <4>2. i = 1 BY <4>1
      <4>3. s - 1 \in Watched(attempt) /\ s - 1 \in 1..(s - 1)
        BY <2>5, <3>3 DEF Watched, Stages
      <4> QED BY <3>1, <4>1, <4>2, <4>3
    <3> QED BY <3>2, <3>3
  <2>9. Identity(attempt).upstream = Upstream(s, attempt.chain) BY <2>5 DEF Identity
  <2> QED BY <2>5, <2>6, <2>7, <2>8, <2>9
<1>2. PipelineInv /\ [PipelineNext]_pipelineVars => [P]_pipelineVars BY <1>1
<1> QED BY <1>2, InvAlways, PTL DEF PipelineSpec, CommitsAreCurrent

\* An attempt hands over one chain, made with what is saved at this moment
\* (studyPipelineOperations.ts:155-203, 259-261).
THEOREM ResultsCurrentAlways == PipelineSpec => ResultsAreCurrent
<1> DEFINE P == attempt.at # "done" /\ attempt'.at = "done" =>
                  \A s \in Stages:
                    LET made == payloads'[rows'[s]] IN
                    /\ rows'[s] = attempt'.chain[s] /\ rows'[s] # 0
                    /\ made.stage = s /\ made.route = routes[s] /\ made.prompt = Prompt(s, profiles)
                    /\ made.upstream = Upstream(s, attempt'.chain)
<1>1. ASSUME PipelineInv, PipelineNext, attempt.at # "done", attempt'.at = "done", NEW s \in Stages
      PROVE  LET made == payloads'[rows'[s]] IN
             /\ rows'[s] = attempt'.chain[s] /\ rows'[s] # 0
             /\ made.stage = s /\ made.route = routes[s] /\ made.prompt = Prompt(s, profiles)
             /\ made.upstream = Upstream(s, attempt'.chain)
  <2>1. PICK sha \in 1..Len(payloads) :
          /\ attempt.at \in {"lookup", "commit"} /\ payloads[sha] = Identity(attempt)
          /\ StageDone(attempt, sha) /\ UNCHANGED payloads /\ Allowed(attempt)
          /\ rows' = [rows EXCEPT ![attempt.stage] = sha]
    <3>1. attempt \in Attempt /\ rows \in [Stages -> 0..Len(payloads)] /\ payloads \in Seq(Payload)
      BY <1>1 DEF PipelineInv, PipelineTypeInv
    <3>2. CASE Lookup
      <4>1. /\ Allowed(attempt) /\ Hit(attempt) /\ StageDone(attempt, rows[attempt.stage])
            /\ attempt.at = "lookup" /\ UNCHANGED <<payloads, rows>>
        BY <1>1, <3>1, <3>2, NoAttemptFits DEF Lookup, EndAttempt, At, Attempt
      <4>2. rows[attempt.stage] \in 1..Len(payloads) /\ payloads[rows[attempt.stage]] = Identity(attempt)
        BY <3>1, <4>1 DEF Hit, Attempt
      <4>3. rows' = [rows EXCEPT ![attempt.stage] = rows[attempt.stage]] BY <3>1, <4>1
      <4> QED BY <4>1, <4>2, <4>3
    <3>3. CASE CommitRow
      <4>1. /\ Allowed(attempt) /\ StageDone(attempt, Len(payloads)) /\ attempt.at = "commit"
            /\ rows' = [rows EXCEPT ![attempt.stage] = Len(payloads)] /\ UNCHANGED payloads
        BY <1>1, <3>3, NoAttemptFits DEF CommitRow, EndAttempt
      <4>2. Len(payloads) > 0 /\ payloads[Len(payloads)] = Identity(attempt)
        BY <1>1, <4>1 DEF PipelineInv, WrittenInv
      <4>3. Len(payloads) \in 1..Len(payloads) BY <3>1, <4>2
      <4> QED BY <4>1, <4>2, <4>3
    <3>4. CASE ~Lookup /\ ~CommitRow
      <4>1. attempt' = NoAttempt \/ attempt' = attempt \/ attempt'.at # "done"
        BY <1>1, <3>1, <3>4 DEF PipelineNext, PipelineStep, BeginAttempt, Prepare, Measure, Ask, Answered,
          WritePayload, Deliver, EndPass, StartPass, Quit, RouterStopped, ContentDrained, Close,
          DrainTimesOut, PipelineCrash, Open, ChangeRoute, ChangeProfile, ChangeTopics, Rejected,
          Damage, EndAttempt, At, NoAttempt, Attempt
      <4> QED BY <1>1, <4>1, NoAttemptFits
    <3> QED BY <3>2, <3>3, <3>4
  <2>2. /\ attempt'.chain = Append(attempt.chain, sha) /\ attempt'.profiles = attempt.profiles
        /\ attempt.stage = 6 /\ Len(attempt.chain) = 5 /\ ChainInv(attempt)'
    BY <1>1, <2>1, Passed
  <2>3. /\ attempt.chain \in Seq(Nat) /\ sha \in Nat /\ rows \in [Stages -> 0..Len(payloads)]
        /\ payloads \in Seq(Payload)
    BY <1>1 DEF PipelineInv, PipelineTypeInv, Attempt
  <2>4. /\ Len(attempt'.chain) = 6 /\ attempt'.chain[6] = sha
        /\ \A i \in 1..5 : attempt'.chain[i] = attempt.chain[i]
    <3> DEFINE c == attempt.chain
               d == Append(c, sha)
    <3>1. Len(c) = 5 /\ attempt'.chain = d BY <2>2
    <3>2. c \in Seq(Nat) /\ sha \in Nat BY <2>3
    <3> HIDE DEF c
    <3>3. Len(d) = Len(c) + 1 /\ d[Len(c) + 1] = sha /\ \A i \in 1..Len(c) : d[i] = c[i]
      BY <3>2, AppendProperties
    <3> HIDE DEF d
    <3>4. Len(d) = 6 /\ d[6] = sha /\ \A i \in 1..5 : d[i] = c[i] BY <3>1, <3>3
    <3> QED BY <3>1, <3>4 DEF c
  <2>5. attempt'.profiles = profiles BY <2>1, <2>2 DEF Allowed, Current, PromptsCurrent
  <2>6. /\ attempt'.chain[s] \in 1..Len(payloads)
        /\ MadeFor(s, attempt'.chain, profiles, payloads[attempt'.chain[s]])
    BY <1>1, <2>1, <2>2, <2>4, <2>5 DEF ChainInv, Stages
  <2>7. CASE s = 6
    <3>1. rows'[s] = sha BY <2>1, <2>2, <2>3, <2>7 DEF Stages
    <3>2. payloads[sha].route = routes[s]
      BY <2>1, <2>2, <2>7 DEF Allowed, Current, Identity
    <3> QED BY <2>1, <2>4, <2>6, <2>7, <3>1, <3>2 DEF MadeFor
  <2>8. CASE s # 6
    <3>1. s \in 1..5 /\ s \in Watched(attempt) BY <2>2, <2>8 DEF Stages, Watched, StudyStages
    <3>2. rows[s] = attempt.chain[s] /\ routes[s] = payloads[attempt.chain[s]].route
      BY <2>1, <3>1 DEF Allowed, UpstreamCurrent, Readable, Made
    <3>3. rows'[s] = attempt'.chain[s] BY <2>1, <2>2, <2>3, <2>4, <2>8, <3>1, <3>2
    <3>4. attempt'.chain[s] = attempt.chain[s] BY <2>4, <3>1
    <3> DEFINE made == payloads'[rows'[s]]
    <3>5. made = payloads[attempt'.chain[s]] BY <2>1, <3>3
    <3>6. MadeFor(s, attempt'.chain, profiles, made) /\ made.route = routes[s]
      BY <2>6, <3>2, <3>4, <3>5
    <3>7. rows'[s] # 0 BY <2>6, <3>3
    <3> HIDE DEF made
    <3>8. /\ made.stage = s /\ made.prompt = Prompt(s, profiles)
          /\ made.upstream = Upstream(s, attempt'.chain)
      BY <3>6 DEF MadeFor
    <3> QED BY <3>3, <3>6, <3>7, <3>8 DEF made
  <2> QED BY <2>7, <2>8
<1>2. PipelineInv /\ [PipelineNext]_pipelineVars => [P]_pipelineVars BY <1>1
<1> QED BY <1>2, InvAlways, PTL DEF PipelineSpec, ResultsAreCurrent

-----------------------------------------------------------------------------
(***************************************************************************)
(* CourseWorkspace: the invariant says what a publication carries from     *)
(* await to await: it has found all sections of the notes it is about to   *)
(* write, what it has accepted is the head, and the head keeps what the    *)
(* manifest lists.                                                         *)
(***************************************************************************)

Behinds == {"hub", "canvas", "dashboard", "others", "verify", "commit"}

RunInv == IF pc = "idle" THEN run = NoRun ELSE Job \in Jobs

\* Every answer is an edit.
AnswersInv ==
  /\ \A n \in Managed : head[n] # NoFile => head[n].gen.answers <= edits
  /\ \A n \in Notes : run.answers[n] <= edits

\* What is listed is published, and only notes that jobs write have sections of jobs.
HeadInv ==
  \A n \in Managed :
    /\ manifest.texts[n] # NoFile => head[n] # NoFile
    /\ head[n] # NoFile /\ n \notin Notes => head[n].gen.jobs = {}

\* What the publication has accepted is the head.
AcceptedInv ==
  \A n \in Managed : run.accepted[n] # NoFile =>
    head[n] # NoFile /\ run.accepted[n].gen = head[n].gen

\* What it is about to write has what it has found.
FoundInv ==
  pc = "notes" =>
    \A n \in Writes[Job] : run.accepted[n] = NoFile /\ head[n] # NoFile =>
      /\ head[n].gen.jobs \subseteq run.prior[n]
      /\ head[n].gen.answers <= run.answers[n]

\* What it has written has the sections of the job, and behind the notes all have.
OwnInv ==
  /\ pc # "idle" =>
       \A n \in Writes[Job] : run.accepted[n] # NoFile => Job \in head[n].gen.jobs
  /\ pc \in Behinds => \A n \in Writes[Job] : run.accepted[n] # NoFile

IInv ==
  /\ TypeOK /\ RunInv /\ AnswersInv /\ HeadInv /\ AcceptedInv /\ FoundInv /\ OwnInv
  /\ CommittedIsPublished

-----------------------------------------------------------------------------
(* What the operators return.                                              *)

LEMMA MergedTyped ==
  ASSUME TypeOK, NEW n \in Managed, NEW g \in Generated
  PROVE  /\ Merged(n, g) \in Text /\ Merged(n, g) # NoFile
         /\ Merged(n, g).gen = g
         /\ file[n] = NoFile \/ file[n].sound => Merged(n, g).sound
<1>1. file[n] \in Text \cup {NoFile}
  BY DEF TypeOK, NoteTexts
<1>2. CASE file[n] = NoFile
  <2>1. Merged(n, g) = [gen |-> g, own |-> 0, sound |-> TRUE]
    BY <1>2 DEF Merged
  <2>2. 0 \in 0..MaxEdits /\ TRUE \in BOOLEAN
    BY WorkspaceAssumption
  <2>3. [gen |-> g, own |-> 0, sound |-> TRUE] \in Text
    BY <2>2 DEF Text
  <2>4. Merged(n, g) \in Text /\ Merged(n, g) # NoFile
    BY <2>1, <2>3, NoTexts
  <2>5. Merged(n, g).gen = g /\ Merged(n, g).sound
    BY <2>1
  <2> QED BY <2>4, <2>5
<1>3. CASE file[n] # NoFile
  <2>1. PICK t \in Text : t = file[n]
    BY <1>1, <1>3
  <2>2. Merged(n, g) = [t EXCEPT !.gen = g]
    BY <1>3, <2>1 DEF Merged
  <2>3. [t EXCEPT !.gen = g] \in Text /\ [t EXCEPT !.gen = g].gen = g
    BY SMT DEF Text
  <2>4. [t EXCEPT !.gen = g].sound = t.sound
    BY SMT DEF Text
  <2> QED BY <1>3, <2>1, <2>2, <2>3, <2>4, NoTexts
<1> QED BY <1>2, <1>3

\* One revision more: the note is the head, everything else is as it was.
LEMMA RevisionTyped ==
  ASSUME TypeOK, NEW n \in Managed, NEW g \in Generated, Revise(n, g)
  PROVE  /\ file' \in NoteTexts /\ head' \in NoteTexts
         /\ file'[n] = Merged(n, g) /\ head'[n] = Merged(n, g)
         /\ \A m \in Managed \ {n} : file'[m] = file[m] /\ head'[m] = head[m]
<1> DEFINE t == Merged(n, g)
<1>1. t \in Text
  BY MergedTyped
<1>2. file \in NoteTexts /\ head \in NoteTexts
  BY DEF TypeOK
<1>3. file' = [file EXCEPT ![n] = t] /\ head' = [head EXCEPT ![n] = t]
  BY DEF Revise
<1> HIDE DEF t
<1>4. /\ file' \in NoteTexts /\ head' \in NoteTexts /\ file'[n] = t /\ head'[n] = t
      /\ \A m \in Managed \ {n} : file'[m] = file[m] /\ head'[m] = head[m]
  BY <1>1, <1>2, <1>3 DEF NoteTexts
<1> QED BY <1>4 DEF t

LEMMA RunTyped ==
  ASSUME TypeOK
  PROVE  /\ run.prior \in [Notes -> SUBSET Jobs] /\ run.answers \in [Notes -> 0..MaxEdits]
         /\ run.accepted \in NoteTexts /\ run.job \in Jobs \cup {NoFile} /\ run.done \in BOOLEAN
<1>1. run \in Run
  BY DEF TypeOK
<1> QED BY <1>1 DEF Run

LEMMA GenTyped ==
  ASSUME TypeOK, NEW n \in Managed, head[n] # NoFile
  PROVE  /\ head[n] \in Text /\ head[n].gen \in Generated
         /\ head[n].gen.jobs \in SUBSET Jobs /\ head[n].gen.answers \in 0..MaxEdits
         /\ head[n].gen.by \in Jobs
<1>1. head[n] \in Text
  BY DEF TypeOK, NoteTexts
<1>2. head[n].gen \in Generated
  BY <1>1 DEF Text
<1> QED BY <1>1, <1>2 DEF Generated

\* A note that is due has not been accepted; others than those of the job are not due
\* before those are.
LEMMA DueTyped ==
  ASSUME IInv, pc \in Kinds, NEW n \in Due
  PROVE  /\ n \in Managed /\ run.accepted[n] = NoFile /\ Job \in Jobs
         /\ pc = "notes" => n \in Writes[Job] /\ n \in Notes
         /\ pc \in {"hub", "dashboard"} => n \notin Notes
         /\ pc = "others" => head[n] # NoFile
         /\ pc # "notes" => n \notin Writes[Job]
<1>1. Job \in Jobs
  BY DEF IInv, RunInv, Kinds
<1>2. CourseOf[Job] \in Courses /\ Writes[Job] \subseteq Notes
  BY <1>1, WorkspaceAssumption
<1>3. \/ pc = "notes" /\ n \in Writes[Job]
      \/ pc = "hub" /\ n = Hub[Course]
      \/ pc = "dashboard" /\ n = Dashboard
      \/ pc = "others" /\ n \in Listed
  BY DEF Due, Kinds
<1>4. n \notin Accepted
  BY DEF Due
<1>5. n \in Managed
  BY <1>2, <1>3 DEF Managed, Course, Listed
<1>6. run.accepted[n] = NoFile
  BY <1>4, <1>5 DEF Accepted
<1>7. pc = "notes" => n \in Writes[Job] /\ n \in Notes
  BY <1>2, <1>3
<1>8. pc \in {"hub", "dashboard"} => n \notin Notes
  BY <1>2, <1>3, WorkspaceAssumption DEF Course
<1>9. pc = "others" => head[n] # NoFile
  BY <1>3, <1>5 DEF Listed, IInv, HeadInv
<1>10. pc # "notes" => n \notin Writes[Job]
  <2>1. SUFFICES ASSUME pc # "notes", n \in Writes[Job] PROVE FALSE
    OBVIOUS
  <2>2. pc \in Behinds
    BY <2>1 DEF Kinds, Behinds
  <2> QED BY <1>6, <2>1, <2>2 DEF IInv, OwnInv
<1> QED BY <1>1, <1>5, <1>6, <1>7, <1>8, <1>9, <1>10

LEMMA ContentTyped ==
  ASSUME TypeOK, Job \in Jobs, NEW n \in Managed
  PROVE  /\ Content(n) \in Generated
         /\ n \in Notes => /\ Content(n).jobs = run.prior[n] \cup {Job}
                           /\ Content(n).answers = run.answers[n]
         /\ n \notin Notes => Content(n).jobs = {} /\ Content(n).answers = 0
<1>1. CASE n \in Notes
  <2>1. Content(n) = [jobs |-> run.prior[n] \cup {Job}, by |-> Job, answers |-> run.answers[n]]
    BY <1>1 DEF Content
  <2>2. run.prior[n] \cup {Job} \in SUBSET Jobs /\ run.answers[n] \in 0..MaxEdits
    BY <1>1, RunTyped
  <2>3. Content(n) \in Generated
    BY <2>1, <2>2 DEF Generated
  <2> QED BY <1>1, <2>1, <2>3
<1>2. CASE n \notin Notes
  <2>1. Content(n) = [jobs |-> {}, by |-> Job, answers |-> 0]
    BY <1>2 DEF Content
  <2>2. Content(n) \in Generated
    BY <2>1, WorkspaceAssumption DEF Generated
  <2> QED BY <1>2, <2>1, <2>2
<1> QED BY <1>1, <1>2

\* What a revision may be: no section and no answer is gone.
Fits(n, g) ==
  /\ g \in Generated
  /\ n \notin Notes => g.jobs = {}
  /\ head[n] # NoFile =>
       head[n].gen.jobs \subseteq g.jobs /\ (n \in Notes => head[n].gen.answers <= g.answers)

LEMMA CandidateFits ==
  ASSUME IInv, pc \in Kinds, NEW n \in Due
  PROVE  /\ Fits(n, Candidate(n)) /\ Candidate(n).answers <= edits
         /\ pc = "notes" => Job \in Candidate(n).jobs
<1>1. /\ n \in Managed /\ run.accepted[n] = NoFile /\ Job \in Jobs
      /\ pc = "notes" => n \in Writes[Job] /\ n \in Notes
      /\ pc \in {"hub", "dashboard"} => n \notin Notes
      /\ pc = "others" => head[n] # NoFile
  BY DueTyped
<1>2. TypeOK /\ edits \in Nat
  BY WorkspaceAssumption DEF IInv, TypeOK
<1>3. CASE pc = "others"
  <2>1. Candidate(n) = head[n].gen /\ head[n] # NoFile
    BY <1>1, <1>3 DEF Candidate
  <2>2. head[n].gen \in Generated /\ head[n].gen.answers \in 0..MaxEdits
    BY <1>1, <1>2, <2>1, GenTyped
  <2>3. head[n].gen.answers <= edits /\ (n \notin Notes => head[n].gen.jobs = {})
    BY <1>1, <2>1 DEF IInv, AnswersInv, HeadInv
  <2> QED BY <1>3, <2>1, <2>2, <2>3 DEF Fits
<1>4. CASE pc = "notes"
  <2>1. Candidate(n) = Content(n)
    BY <1>4 DEF Candidate
  <2>2. /\ Content(n) \in Generated /\ Content(n).jobs = run.prior[n] \cup {Job}
        /\ Content(n).answers = run.answers[n]
    BY <1>1, <1>2, <1>4, ContentTyped
  <2>3. run.answers[n] <= edits
    BY <1>1, <1>4 DEF IInv, AnswersInv
  <2>4. head[n] # NoFile => /\ head[n].gen.jobs \subseteq run.prior[n]
                            /\ head[n].gen.answers <= run.answers[n]
    BY <1>1, <1>4 DEF IInv, FoundInv
  <2> QED BY <1>1, <1>4, <2>1, <2>2, <2>3, <2>4 DEF Fits
<1>5. CASE pc \in {"hub", "dashboard"}
  <2>1. Candidate(n) = Content(n) /\ n \notin Notes
    BY <1>1, <1>5 DEF Candidate
  <2>2. Content(n) \in Generated /\ Content(n).jobs = {} /\ Content(n).answers = 0
    BY <1>1, <1>2, <2>1, ContentTyped
  <2>3. head[n] # NoFile => head[n].gen.jobs = {}
    BY <1>1, <2>1 DEF IInv, HeadInv
  <2> QED BY <1>2, <1>5, <2>1, <2>2, <2>3 DEF Fits
<1> QED BY <1>3, <1>4, <1>5 DEF Kinds

LEMMA RunUpdates ==
  ASSUME NEW r \in Run
  PROVE  /\ \A j \in Jobs : [r EXCEPT !.job = j] \in Run
         /\ \A p \in [Notes -> SUBSET Jobs] : [r EXCEPT !.prior = p] \in Run
         /\ \A a \in [Notes -> 0..MaxEdits] : [r EXCEPT !.answers = a] \in Run
         /\ \A t \in NoteTexts : [r EXCEPT !.accepted = t] \in Run
         /\ \A b \in BOOLEAN : [r EXCEPT !.done = b] \in Run
<1>1. \A j \in Jobs : [r EXCEPT !.job = j] \in Run
  BY SMT DEF Run
<1>2. \A p \in [Notes -> SUBSET Jobs] : [r EXCEPT !.prior = p] \in Run
  BY SMT DEF Run
<1>3. \A a \in [Notes -> 0..MaxEdits] : [r EXCEPT !.answers = a] \in Run
  BY SMT DEF Run
<1>4. \A t \in NoteTexts : [r EXCEPT !.accepted = t] \in Run
  BY SMT DEF Run
<1>5. \A b \in BOOLEAN : [r EXCEPT !.done = b] \in Run
  BY SMT DEF Run
<1> QED BY <1>1, <1>2, <1>3, <1>4, <1>5

LEMMA NoRunTyped == NoRun \in Run /\ NoText \in NoteTexts
<1>1. 0 \in 0..MaxEdits /\ FALSE \in BOOLEAN /\ {} \in SUBSET Jobs
  BY WorkspaceAssumption
<1>2. NoText \in NoteTexts
  BY DEF NoText, NoteTexts
<1>3. /\ [n \in Notes |-> {}] \in [Notes -> SUBSET Jobs]
      /\ [n \in Notes |-> 0] \in [Notes -> 0..MaxEdits]
  BY <1>1
<1> QED BY <1>1, <1>2, <1>3 DEF NoRun, Run

LEMMA LoadTyped ==
  ASSUME IInv, Load
  PROVE  run' \in Run /\ run'.job = run.job /\ run'.accepted = run.accepted
<1> DEFINE found == {n \in Known(Job) \cap Notes : head[n] # NoFile}
           p == [n \in Notes |-> IF n \in found THEN head[n].gen.jobs ELSE {}]
           a == [n \in Notes |-> IF n \in found THEN head[n].gen.answers ELSE 0]
<1>1. run \in Run /\ TypeOK
  BY DEF IInv, TypeOK
<1>2. CASE run' = run
  BY <1>1, <1>2
<1>3. CASE run' = [run EXCEPT !.prior = p, !.answers = a]
  <2>1. \A n \in found : n \in Managed /\ head[n] # NoFile
    BY DEF Managed
  <2>2. p \in [Notes -> SUBSET Jobs]
    BY <1>1, <2>1, GenTyped
  <2>3. \A n \in found : head[n].gen.answers \in 0..MaxEdits
    BY <1>1, <2>1, GenTyped
  <2>4. a \in [Notes -> 0..MaxEdits]
    BY <2>3, WorkspaceAssumption
  <2> HIDE DEF p, a
  <2>5. [run EXCEPT !.prior = p, !.answers = a] = [[run EXCEPT !.prior = p] EXCEPT !.answers = a]
    OBVIOUS
  <2>6. [run EXCEPT !.prior = p] \in Run
    BY <1>1, <2>2, RunUpdates
  <2>7. [[run EXCEPT !.prior = p] EXCEPT !.answers = a] \in Run
    BY <2>4, <2>6, RunUpdates
  <2>8. run'.job = run.job /\ run'.accepted = run.accepted
    BY <1>1, <1>3 DEF Run
  <2> QED BY <1>3, <2>5, <2>7, <2>8
<1> QED BY <1>2, <1>3 DEF Load

LEMMA AccountTyped ==
  ASSUME IInv, Job \in Jobs
  PROVE  Account \in Accounts /\ Course \in Courses /\ Graph \in SUBSET Jobs
<1>1. manifest.jobs \in SUBSET Jobs /\ manifest.texts \in NoteTexts
      /\ manifest.canvas \in [Courses -> SUBSET Jobs]
  BY DEF IInv, TypeOK, Accounts
<1>2. Course \in Courses
  BY WorkspaceAssumption DEF Course
<1>3. Graph \in SUBSET Jobs
  BY <1>1 DEF Graph
<1>4. run.accepted \in NoteTexts
  BY RunTyped DEF IInv
<1>5. [n \in Managed |-> IF n \in Accepted THEN run.accepted[n] ELSE manifest.texts[n]] \in NoteTexts
  BY <1>1, <1>4 DEF NoteTexts
<1>6. [manifest.canvas EXCEPT ![Course] = Graph] \in [Courses -> SUBSET Jobs]
  BY <1>1, <1>2, <1>3
<1>7. manifest.jobs \cup {Job} \in SUBSET Jobs
  BY <1>1
<1> QED BY <1>2, <1>3, <1>5, <1>6, <1>7 DEF Account, Accounts

-----------------------------------------------------------------------------
(* The types.                                                              *)

\* A hand at a note leaves a text or nothing.
LEMMA HandTyped ==
  ASSUME TypeOK, NEW n \in Managed, edits < MaxEdits
  PROVE  /\ EditRegion(n) => file' \in NoteTexts
         /\ EditGenerated(n) => file' \in NoteTexts
<1>1. file \in NoteTexts /\ file[n] \in Text \cup {NoFile}
  BY DEF TypeOK, NoteTexts
<1>2. edits + 1 \in 0..MaxEdits
  BY WorkspaceAssumption DEF TypeOK
<1>3. ASSUME EditRegion(n)
      PROVE  file' \in NoteTexts
  <2>1. PICK t \in Text : t = file[n]
    BY <1>1, <1>3 DEF EditRegion
  <2>2. [t EXCEPT !.own = edits + 1] \in Text
    BY <1>2, SMT DEF Text
  <2>3. file' = [file EXCEPT ![n] = [t EXCEPT !.own = edits + 1]]
    BY <1>3, <2>1 DEF EditRegion
  <2> QED BY <1>1, <2>2, <2>3 DEF NoteTexts
<1>4. ASSUME EditGenerated(n)
      PROVE  file' \in NoteTexts
  <2>1. PICK t \in Text : t = file[n]
    BY <1>1, <1>4 DEF EditGenerated
  <2>2. [t EXCEPT !.sound = FALSE] \in Text
    <3>1. \A b \in BOOLEAN : [t EXCEPT !.sound = b] \in Text
      BY SMT DEF Text
    <3> QED BY <3>1
  <2>3. \/ file' = [file EXCEPT ![n] = [t EXCEPT !.sound = FALSE]]
        \/ file' = [file EXCEPT ![n] = NoFile]
    BY <1>4, <2>1 DEF EditGenerated
  <2> QED BY <1>1, <2>2, <2>3 DEF NoteTexts
<1> QED BY <1>3, <1>4

LEMMA CanvasTyped ==
  ASSUME TypeOK, NEW c \in Courses, NEW g \in (SUBSET Jobs) \cup {Foreign}
  PROVE  [canvas EXCEPT ![c] = g] \in [Courses -> (SUBSET Jobs) \cup {Foreign}]
BY DEF TypeOK

LEMMA StageTyped ==
  ASSUME TypeOK, NEW j \in Jobs, NEW v \in {"waiting", "published", "completed"}
  PROVE  [stage EXCEPT ![j] = v] \in [Jobs -> {"waiting", "published", "completed"}]
BY DEF TypeOK

LEMMA DoneTyped ==
  ASSUME TypeOK, NEW b \in BOOLEAN
  PROVE  [run EXCEPT !.done = b] \in Run
BY RunUpdates DEF TypeOK

LEMMA BehindTyped ==
  ASSUME pc \in Kinds, NEW n
  PROVE  Behind(n) \in PCs /\ Behind(n) # "idle"
BY DEF Behind, PCs, Kinds

LEMMA PublishNoteTyped ==
  ASSUME IInv, PublishNote
  PROVE  TypeOK'
<1>1. TypeOK /\ pc \in Kinds
  BY DEF IInv, PublishNote
<1>2. PICK n \in Due :
        \/ /\ Clear(n) /\ Revise(n, Candidate(n)) /\ pc' = Behind(n)
           /\ run' = [run EXCEPT !.accepted[n] = Merged(n, Candidate(n))]
        \/ pc' = "unlock" /\ UNCHANGED <<notes, run>>
  BY DEF PublishNote
<1>3. CASE pc' = "unlock" /\ UNCHANGED <<notes, run>>
  BY <1>1, <1>3 DEF PublishNote, TypeOK, PCs, notes, bounds
<1>4. CASE /\ Revise(n, Candidate(n)) /\ pc' = Behind(n)
           /\ run' = [run EXCEPT !.accepted[n] = Merged(n, Candidate(n))]
  <2>1. n \in Managed /\ Candidate(n) \in Generated
    BY <1>1, DueTyped, CandidateFits DEF Fits
  <2>2. file' \in NoteTexts /\ head' \in NoteTexts
    BY <1>1, <1>4, <2>1, RevisionTyped
  <2>3. Merged(n, Candidate(n)) \in Text
    BY <1>1, <2>1, MergedTyped
  <2>4. [run.accepted EXCEPT ![n] = Merged(n, Candidate(n))] \in NoteTexts
    BY <1>1, <2>1, <2>3, RunTyped DEF NoteTexts
  <2>5. run' = [run EXCEPT !.accepted = [run.accepted EXCEPT ![n] = Merged(n, Candidate(n))]]
    BY <1>4
  <2>6. run' \in Run
    BY <1>1, <2>4, <2>5, RunUpdates DEF TypeOK
  <2>7. pc' \in PCs
    BY <1>1, <1>4, BehindTyped
  <2> QED BY <1>1, <2>2, <2>6, <2>7 DEF PublishNote, TypeOK, bounds
<1> QED BY <1>2, <1>3, <1>4

LEMMA RowFailsTyped ==
  ASSUME IInv, RowFails
  PROVE  file' \in NoteTexts
<1>1. TypeOK /\ pc \in Kinds
  BY DEF IInv, RowFails
<1>2. PICK n \in Due : file' = [file EXCEPT ![n] = Merged(n, Candidate(n))]
  BY DEF RowFails
<1>3. n \in Managed /\ Candidate(n) \in Generated
  BY <1>1, DueTyped, CandidateFits DEF Fits
<1>4. Merged(n, Candidate(n)) \in Text
  BY <1>1, <1>3, MergedTyped
<1> QED BY <1>1, <1>2, <1>4 DEF TypeOK, NoteTexts

LEMMA AnswerFits ==
  ASSUME IInv, NEW n \in Inboxes, Answer(n)
  PROVE  /\ n \in Managed /\ Clear(n) /\ Fits(n, AnswerOf(n)) /\ Revise(n, AnswerOf(n))
         /\ AnswerOf(n).answers <= edits' /\ edits' \in 0..MaxEdits
<1>1. n \in Managed /\ n \in Notes /\ n \in Listed /\ TypeOK
  BY WorkspaceAssumption DEF IInv, Managed, Answer
<1>2. head[n] # NoFile
  BY <1>1 DEF Listed, IInv, HeadInv
<1>3. PICK g \in Generated : g = head[n].gen
  BY <1>1, <1>2, GenTyped
<1>4. g.answers <= edits /\ g.answers \in 0..MaxEdits
  BY <1>1, <1>2, <1>3 DEF IInv, AnswersInv, Generated
<1>5. edits' = edits + 1 /\ edits' \in 0..MaxEdits /\ g.answers + 1 \in 0..MaxEdits
  BY <1>1, <1>4, WorkspaceAssumption DEF Answer, ByHand, TypeOK
<1>6. AnswerOf(n) = [g EXCEPT !.answers = g.answers + 1]
  BY <1>3 DEF AnswerOf
<1>7. /\ [g EXCEPT !.answers = g.answers + 1] \in Generated
      /\ [g EXCEPT !.answers = g.answers + 1].jobs = g.jobs
      /\ [g EXCEPT !.answers = g.answers + 1].answers = g.answers + 1
  BY <1>5, SMT DEF Generated
<1>8. AnswerOf(n) \in Generated /\ AnswerOf(n).jobs = g.jobs /\ AnswerOf(n).answers = g.answers + 1
  BY <1>6, <1>7
<1>9. g.answers <= g.answers + 1 /\ g.answers + 1 <= edits'
  BY <1>4, <1>5, <1>1 DEF TypeOK
<1>10. Fits(n, AnswerOf(n))
  BY <1>1, <1>3, <1>8, <1>9 DEF Fits
<1> QED BY <1>1, <1>5, <1>8, <1>9, <1>10 DEF Answer

LEMMA TypesKept ==
  ASSUME IInv, Next
  PROVE  TypeOK'
<1>1. TypeOK /\ (pc # "idle" => Job \in Jobs)
  BY DEF IInv, RunInv
<1> USE DEF notes, bounds
<1>2. ASSUME Load PROVE TypeOK'
  BY <1>1, <1>2, LoadTyped DEF Load, TypeOK, PCs
<1>3. ASSUME PublishNote PROVE TypeOK'
  BY <1>3, PublishNoteTyped
<1>4. ASSUME PublishCanvas PROVE TypeOK'
  <2>1. Course \in Courses /\ Graph \in SUBSET Jobs
    BY <1>1, <1>4, AccountTyped DEF PublishCanvas
  <2>2. canvas' \in [Courses -> (SUBSET Jobs) \cup {Foreign}]
    BY <1>1, <1>4, <2>1, CanvasTyped DEF PublishCanvas, TypeOK
  <2>3. pc' \in PCs
    BY <1>4 DEF PublishCanvas, PCs
  <2> QED BY <1>1, <1>4, <2>2, <2>3 DEF PublishCanvas, TypeOK
<1>5. ASSUME Verify PROVE TypeOK'
  BY <1>1, <1>5 DEF Verify, TypeOK, PCs
<1>6. ASSUME Recheck PROVE TypeOK'
  <2>1. Verified(manifest) \in BOOLEAN
    BY DEF Verified
  <2>2. run' \in Run
    BY <1>1, <1>6, <2>1, DoneTyped DEF Recheck
  <2> QED BY <1>1, <1>6, <2>2 DEF Recheck, TypeOK, PCs
<1>7. ASSUME Commit PROVE TypeOK'
  <2>1. manifest' \in Accounts
    BY <1>1, <1>7, AccountTyped DEF Commit
  <2>2. run' \in Run
    BY <1>1, <1>7, DoneTyped DEF Commit
  <2> QED BY <1>1, <1>7, <2>1, <2>2 DEF Commit, TypeOK, PCs
<1>8. ASSUME Unlock PROVE TypeOK'
  <2>1. stage' \in [Jobs -> {"waiting", "published", "completed"}]
    BY <1>1, <1>8, StageTyped DEF Unlock
  <2> QED BY <1>1, <1>8, <2>1, NoRunTyped DEF Unlock, TypeOK, PCs
<1>9. ASSUME StepFails PROVE TypeOK'
  BY <1>1, <1>9, WorkspaceAssumption DEF StepFails, Fault, TypeOK, PCs
<1>10. ASSUME RowFails PROVE TypeOK'
  <2>1. file' \in NoteTexts
    BY <1>10, RowFailsTyped
  <2> QED BY <1>1, <1>10, <2>1, WorkspaceAssumption DEF RowFails, Fault, TypeOK, PCs
<1>11. ASSUME CommitFails PROVE TypeOK'
  <2>1. manifest' \in Accounts
    BY <1>1, <1>11, AccountTyped DEF CommitFails
  <2> QED BY <1>1, <1>11, <2>1, WorkspaceAssumption DEF CommitFails, Fault, TypeOK, PCs
<1>12. ASSUME UnlockFails PROVE TypeOK'
  BY <1>1, <1>12, NoRunTyped, WorkspaceAssumption DEF UnlockFails, Fault, TypeOK, PCs
<1>13. ASSUME Crash PROVE TypeOK'
  <2>1. stage' \in [Jobs -> {"waiting", "published", "completed"}]
    BY <1>1, <1>13 DEF Crash, TypeOK
  <2>2. disturbed' \in BOOLEAN
    BY <1>1, <1>13 DEF Crash, TypeOK
  <2> QED BY <1>1, <1>13, <2>1, <2>2, NoRunTyped, WorkspaceAssumption
      DEF Crash, Fault, TypeOK, PCs
<1>14. ASSUME NEW j \in Jobs, LaterFails(j) PROVE TypeOK'
  <2>1. stage' \in [Jobs -> {"waiting", "published", "completed"}]
    BY <1>1, <1>14, StageTyped DEF LaterFails
  <2> QED BY <1>1, <1>14, <2>1, WorkspaceAssumption DEF LaterFails, Fault, TypeOK
<1>15. ASSUME RemoveLease PROVE TypeOK'
  BY <1>1, <1>15 DEF RemoveLease, TypeOK
<1>16. ASSUME NEW n \in Managed, EditRegion(n) PROVE TypeOK'
  <2>1. file' \in NoteTexts
    BY <1>1, <1>16, HandTyped DEF EditRegion, ByHand
  <2> QED BY <1>1, <1>16, <2>1, WorkspaceAssumption DEF EditRegion, ByHand, TypeOK
<1>17. ASSUME NEW n \in Managed, EditGenerated(n) PROVE TypeOK'
  <2>1. file' \in NoteTexts
    BY <1>1, <1>17, HandTyped DEF EditGenerated, ByHand
  <2> QED BY <1>1, <1>17, <2>1, WorkspaceAssumption DEF EditGenerated, ByHand, TypeOK
<1>18. ASSUME NEW c \in Courses, EditCanvas(c) PROVE TypeOK'
  <2>1. canvas' \in [Courses -> (SUBSET Jobs) \cup {Foreign}]
    BY <1>1, <1>18, CanvasTyped DEF EditCanvas
  <2> QED BY <1>1, <1>18, <2>1, WorkspaceAssumption DEF EditCanvas, ByHand, TypeOK
<1>19. ASSUME NEW n \in Inboxes, Answer(n) PROVE TypeOK'
  <2>1. /\ n \in Managed /\ Fits(n, AnswerOf(n)) /\ Revise(n, AnswerOf(n))
        /\ edits' \in 0..MaxEdits
    BY <1>19, AnswerFits
  <2>2. file' \in NoteTexts /\ head' \in NoteTexts
    BY <1>1, <2>1, RevisionTyped DEF Fits
  <2> QED BY <1>1, <1>19, <2>1, <2>2 DEF Answer, ByHand, TypeOK
<1>20. ASSUME NEW j \in Jobs, Publish(j) PROVE TypeOK'
  <2>1. run' \in Run
    BY <1>20, NoRunTyped, RunUpdates DEF Publish
  <2> QED BY <1>1, <1>20, <2>1 DEF Publish, TypeOK, PCs
<1>21. ASSUME NEW j \in Jobs, Complete(j) PROVE TypeOK'
  <2>1. stage' \in [Jobs -> {"waiting", "published", "completed"}]
    BY <1>1, <1>21, StageTyped DEF Complete
  <2> QED BY <1>1, <1>21, <2>1 DEF Complete, TypeOK
<1> QED
  BY <1>2, <1>3, <1>4, <1>5, <1>6, <1>7, <1>8, <1>9, <1>10, <1>11, <1>12, <1>13, <1>14,
     <1>15, <1>16, <1>17, <1>18, <1>19, <1>20, <1>21
  DEF Next, PublicationStep, FaultStep, OutsideStep

-----------------------------------------------------------------------------
(* What the steps do, in three kinds.                                      *)

\* A note is revised, by a publication or by an answer.
Revises(n, g) ==
  Fits(n, g) /\ g.answers <= edits' /\ Clear(n) /\ Revise(n, g) /\ UNCHANGED disturbed

\* The publication goes on with what it has.
GoesOn ==
  /\ pc # "idle" /\ pc' # "idle"
  /\ run'.job = run.job /\ run'.accepted = run.accepted
  /\ run'.prior = run.prior /\ run'.answers = run.answers
  /\ pc' = "notes" => pc = "notes"
  /\ pc' \in Behinds => pc \in Behinds

\* None is left, or the next begins.
Fresh ==
  \/ pc' = "idle" /\ run' = NoRun
  \/ pc' = "load" /\ \E j \in Jobs : run' = [NoRun EXCEPT !.job = j]

\* Neither a revision nor the manifest changes.
Quiet ==
  /\ UNCHANGED <<head, manifest>> /\ edits <= edits'
  /\ GoesOn \/ Fresh \/ UNCHANGED <<pc, run>>

LEMMA PublishNoteKinds ==
  ASSUME IInv, PublishNote
  PROVE  \/ Quiet /\ UNCHANGED <<file, disturbed>>
         \/ /\ \E n \in Due :
                 /\ n \in Managed /\ Revises(n, Candidate(n)) /\ pc' = Behind(n)
                 /\ run' = [run EXCEPT !.accepted[n] = Merged(n, Candidate(n))]
            /\ UNCHANGED <<manifest, edits>>
<1>1. TypeOK /\ pc \in Kinds /\ edits \in Nat
  BY WorkspaceAssumption DEF IInv, PublishNote, TypeOK
<1>2. PICK n \in Due :
        \/ /\ Clear(n) /\ Revise(n, Candidate(n)) /\ pc' = Behind(n)
           /\ run' = [run EXCEPT !.accepted[n] = Merged(n, Candidate(n))]
        \/ pc' = "unlock" /\ UNCHANGED <<notes, run>>
  BY DEF PublishNote
<1>3. CASE pc' = "unlock" /\ UNCHANGED <<notes, run>>
  BY <1>1, <1>3 DEF PublishNote, notes, bounds, Quiet, GoesOn, Kinds, Behinds
<1>4. CASE /\ Clear(n) /\ Revise(n, Candidate(n)) /\ pc' = Behind(n)
           /\ run' = [run EXCEPT !.accepted[n] = Merged(n, Candidate(n))]
  <2>1. n \in Managed /\ Fits(n, Candidate(n)) /\ Candidate(n).answers <= edits
    BY <1>1, DueTyped, CandidateFits
  <2>2. UNCHANGED <<manifest, edits, disturbed>>
    BY DEF PublishNote, bounds
  <2>3. Revises(n, Candidate(n))
    BY <1>4, <2>1, <2>2 DEF Revises
  <2> QED BY <1>4, <2>1, <2>2, <2>3
<1> QED BY <1>2, <1>3, <1>4

LEMMA QuietSteps ==
  ASSUME IInv,
         \/ PublishCanvas \/ Verify \/ Recheck \/ Unlock \/ RemoveLease
         \/ FaultStep /\ ~CommitFails
         \/ \E n \in Managed : EditRegion(n) \/ EditGenerated(n)
         \/ \E c \in Courses : EditCanvas(c)
         \/ \E j \in Jobs : Publish(j) \/ Complete(j)
  PROVE  Quiet
<1>1. run \in Run /\ edits \in Nat
  BY WorkspaceAssumption DEF IInv, TypeOK
<1> USE DEF notes, bounds, Quiet
<1>2. ASSUME PublishCanvas PROVE Quiet
  BY <1>1, <1>2 DEF PublishCanvas, GoesOn, Behinds
<1>3. ASSUME Verify PROVE Quiet
  BY <1>1, <1>3 DEF Verify, GoesOn, Behinds
<1>4. ASSUME Recheck PROVE Quiet
  <2>1. /\ run'.job = run.job /\ run'.accepted = run.accepted
        /\ run'.prior = run.prior /\ run'.answers = run.answers
    BY <1>1, <1>4 DEF Recheck, Run
  <2> QED BY <1>1, <1>4, <2>1 DEF Recheck, GoesOn, Behinds
<1>5. ASSUME Unlock PROVE Quiet
  BY <1>1, <1>5 DEF Unlock, Fresh
<1>6. ASSUME FaultStep, ~CommitFails PROVE Quiet
  <2>1. ASSUME StepFails PROVE Quiet
    BY <1>1, <2>1 DEF StepFails, Working, Fault, GoesOn, Behinds
  <2>2. ASSUME RowFails PROVE Quiet
    BY <1>1, <2>2 DEF RowFails, Kinds, Fault, GoesOn, Behinds
  <2>3. ASSUME UnlockFails PROVE Quiet
    BY <1>1, <2>3 DEF UnlockFails, Fault, Fresh
  <2>4. ASSUME Crash PROVE Quiet
    BY <1>1, <2>4 DEF Crash, Fault, Fresh
  <2>5. ASSUME NEW j \in Jobs, LaterFails(j) PROVE Quiet
    BY <1>1, <2>5 DEF LaterFails, Fault
  <2> QED BY <1>6, <2>1, <2>2, <2>3, <2>4, <2>5 DEF FaultStep
<1>7. ASSUME RemoveLease PROVE Quiet
  BY <1>1, <1>7 DEF RemoveLease
<1>8. ASSUME NEW n \in Managed, EditRegion(n) PROVE Quiet
  BY <1>1, <1>8 DEF EditRegion, ByHand
<1>9. ASSUME NEW n \in Managed, EditGenerated(n) PROVE Quiet
  BY <1>1, <1>9 DEF EditGenerated, ByHand
<1>10. ASSUME NEW c \in Courses, EditCanvas(c) PROVE Quiet
  BY <1>1, <1>10 DEF EditCanvas, ByHand
<1>11. ASSUME NEW j \in Jobs, Publish(j) PROVE Quiet
  BY <1>1, <1>11 DEF Publish, Fresh
<1>12. ASSUME NEW j \in Jobs, Complete(j) PROVE Quiet
  BY <1>1, <1>12 DEF Complete
<1> QED BY <1>2, <1>3, <1>4, <1>5, <1>6, <1>7, <1>8, <1>9, <1>10, <1>11, <1>12

\* A revision keeps what the head has.
LEMMA RevisesKeeps ==
  ASSUME TypeOK, NEW n \in Managed, NEW g, Revises(n, g),
         NEW m \in Managed, head[m] # NoFile
  PROVE  /\ head'[m] # NoFile /\ head[m].gen.jobs \subseteq head'[m].gen.jobs
         /\ m \in Notes => head[m].gen.answers <= head'[m].gen.answers
<1>1. g \in Generated /\ Merged(n, g).gen = g /\ Merged(n, g) # NoFile
  BY MergedTyped DEF Revises, Fits
<1>2. head'[n] = Merged(n, g) /\ (m # n => head'[m] = head[m])
  BY <1>1, RevisionTyped DEF Revises
<1>3. head[m].gen.answers <= head[m].gen.answers
  BY GenTyped, WorkspaceAssumption
<1>4. CASE m = n
  BY <1>1, <1>2, <1>4 DEF Revises, Fits
<1>5. CASE m # n
  BY <1>2, <1>3, <1>5
<1> QED BY <1>4, <1>5

\* What holds of the head and of the manifest outlasts a revision.
LEMMA RevisesHead ==
  ASSUME IInv, NEW n \in Managed, NEW g, Revises(n, g), UNCHANGED manifest, edits <= edits',
         edits' \in Nat
  PROVE  /\ \A m \in Managed : head'[m] # NoFile => head'[m].gen.answers <= edits'
         /\ HeadInv' /\ CommittedIsPublished'
<1>1. TypeOK /\ edits \in Nat
  BY WorkspaceAssumption DEF IInv, TypeOK
<1>2. /\ g \in Generated /\ g.answers <= edits' /\ (n \notin Notes => g.jobs = {})
      /\ Merged(n, g).gen = g /\ Merged(n, g) # NoFile
  BY <1>1, MergedTyped DEF Revises, Fits
<1>3. /\ head'[n] = Merged(n, g)
      /\ \A m \in Managed \ {n} : head'[m] = head[m]
  BY <1>1, <1>2, RevisionTyped DEF Revises
<1>4. ASSUME NEW m \in Managed, head'[m] # NoFile
      PROVE  head'[m].gen.answers <= edits' /\ (m \notin Notes => head'[m].gen.jobs = {})
  <2>1. CASE m = n
    BY <1>2, <1>3, <2>1
  <2>2. CASE m # n
    <3>1. head'[m] = head[m]
      BY <1>3, <2>2
    <3>2. head[m].gen.answers \in 0..MaxEdits
      BY <1>1, <1>4, <3>1, GenTyped
    <3>3. head[m].gen.answers <= edits /\ (m \notin Notes => head[m].gen.jobs = {})
      BY <1>4, <3>1 DEF IInv, AnswersInv, HeadInv
    <3>4. head[m].gen.answers <= edits'
      BY <1>1, <3>2, <3>3, WorkspaceAssumption
    <3> QED BY <3>1, <3>3, <3>4
  <2> QED BY <2>1, <2>2
<1>5. HeadInv'
  <2>1. ASSUME NEW m \in Managed, manifest'.texts[m] # NoFile
        PROVE  head'[m] # NoFile
    <3>1. head[m] # NoFile
      BY <2>1 DEF IInv, HeadInv
    <3> QED BY <1>1, <3>1, RevisesKeeps
  <2> QED BY <1>4, <2>1 DEF HeadInv
<1>6. CommittedIsPublished'
  <2>1. ASSUME NEW j \in manifest.jobs, NEW m \in Writes[j]
        PROVE  head'[m] # NoFile /\ j \in head'[m].gen.jobs
    <3>1. m \in Managed
      BY <1>1, <2>1, WorkspaceAssumption DEF TypeOK, Accounts, Managed
    <3>2. head[m] # NoFile /\ j \in head[m].gen.jobs
      BY <2>1 DEF IInv, CommittedIsPublished
    <3> QED BY <1>1, <3>1, <3>2, RevisesKeeps
  <2> QED BY <2>1 DEF IInv, CommittedIsPublished
<1> QED BY <1>4, <1>5, <1>6

-----------------------------------------------------------------------------
(* The invariant.                                                          *)

LEMMA FreshLocals ==
  ASSUME Fresh
  PROVE  /\ \A n \in Notes : run'.answers[n] = 0
         /\ \A n \in Managed : run'.accepted[n] = NoFile
         /\ (pc' = "idle" /\ run' = NoRun) \/ (pc' = "load" /\ run'.job \in Jobs)
<1>1. CASE pc' = "idle" /\ run' = NoRun
  BY <1>1 DEF NoRun, NoText
<1>2. CASE pc' = "load" /\ \E j \in Jobs : run' = [NoRun EXCEPT !.job = j]
  <2>1. PICK j \in Jobs : run' = [NoRun EXCEPT !.job = j]
    BY <1>2
  <2>2. run'.job = j /\ run'.answers = NoRun.answers /\ run'.accepted = NoText
    BY <2>1 DEF NoRun
  <2> QED BY <1>2, <2>2 DEF NoRun, NoText
<1> QED BY <1>1, <1>2 DEF Fresh

LEMMA QuietKeeps ==
  ASSUME IInv, TypeOK', Quiet
  PROVE  IInv'
<1>1. /\ UNCHANGED <<head, manifest>> /\ edits <= edits'
      /\ TypeOK /\ edits \in Nat /\ edits' \in Nat
  BY WorkspaceAssumption DEF Quiet, IInv, TypeOK
<1>2. HeadInv' /\ CommittedIsPublished'
  BY <1>1 DEF IInv, HeadInv, CommittedIsPublished
<1>3. ASSUME NEW n \in Managed, head'[n] # NoFile
      PROVE  head'[n].gen.answers <= edits'
  <2>1. head[n].gen.answers <= edits /\ head[n].gen.answers \in 0..MaxEdits
    BY <1>1, <1>3, GenTyped DEF IInv, AnswersInv
  <2> QED BY <1>1, <2>1, WorkspaceAssumption
<1>4. CASE Fresh
  <2>1. RunInv' /\ FoundInv' /\ OwnInv' /\ AcceptedInv'
    <3>1. \A n \in Managed : run'.accepted[n] = NoFile
      BY <1>4, FreshLocals
    <3>2. (pc' = "idle" /\ run' = NoRun) \/ (pc' = "load" /\ run'.job \in Jobs)
      BY <1>4, FreshLocals
    <3>3. pc' # "idle" => \A n \in Writes[run'.job] : n \in Managed
      BY <3>2, WorkspaceAssumption DEF Managed
    <3> QED BY <3>1, <3>2, <3>3 DEF RunInv, FoundInv, OwnInv, AcceptedInv, Job, Behinds
  <2>2. AnswersInv'
    BY <1>1, <1>3, <1>4, FreshLocals DEF AnswersInv
  <2> QED BY <1>1, <1>2, <2>1, <2>2 DEF IInv
<1>5. CASE GoesOn
  <2>1. RunInv' /\ FoundInv' /\ OwnInv' /\ AcceptedInv'
    BY <1>1, <1>5 DEF GoesOn, IInv, RunInv, FoundInv, OwnInv, AcceptedInv, Job
  <2>2. ASSUME NEW n \in Notes
        PROVE  run'.answers[n] <= edits'
    <3>1. run'.answers[n] = run.answers[n] /\ run.answers[n] <= edits
      BY <1>5 DEF GoesOn, IInv, AnswersInv
    <3>2. run.answers[n] \in 0..MaxEdits
      BY <1>1, RunTyped
    <3> QED BY <1>1, <3>1, <3>2, WorkspaceAssumption
  <2>3. AnswersInv'
    BY <1>3, <2>2 DEF AnswersInv
  <2> QED BY <1>1, <1>2, <2>1, <2>3 DEF IInv
<1>6. CASE UNCHANGED <<pc, run>>
  <2>1. RunInv' /\ FoundInv' /\ OwnInv' /\ AcceptedInv'
    BY <1>1, <1>6 DEF IInv, RunInv, FoundInv, OwnInv, AcceptedInv, Job
  <2>2. ASSUME NEW n \in Notes
        PROVE  run'.answers[n] <= edits'
    <3>1. run'.answers[n] = run.answers[n] /\ run.answers[n] <= edits
      BY <1>6 DEF IInv, AnswersInv
    <3>2. run.answers[n] \in 0..MaxEdits
      BY <1>1, RunTyped
    <3> QED BY <1>1, <3>1, <3>2, WorkspaceAssumption
  <2>3. AnswersInv'
    BY <1>3, <2>2 DEF AnswersInv
  <2> QED BY <1>1, <1>2, <2>1, <2>3 DEF IInv
<1> QED BY <1>4, <1>5, <1>6 DEF Quiet

LEMMA LoadKeeps ==
  ASSUME IInv, TypeOK', Load
  PROVE  IInv'
<1>1. /\ UNCHANGED <<head, manifest, edits>> /\ pc = "load"
      /\ run \in Run /\ TypeOK /\ Job \in Jobs /\ edits \in Nat
  BY WorkspaceAssumption DEF Load, notes, bounds, IInv, TypeOK, RunInv
<1>2. HeadInv' /\ CommittedIsPublished'
  BY <1>1 DEF IInv, HeadInv, CommittedIsPublished
<1>3. run'.job = run.job /\ run'.accepted = run.accepted
  BY LoadTyped
<1>4. pc' \in {"recheck", "notes"}
  BY DEF Load
<1>5. RunInv' /\ AcceptedInv' /\ OwnInv'
  BY <1>1, <1>3, <1>4 DEF IInv, RunInv, AcceptedInv, OwnInv, Behinds, Job
<1>6. CASE pc' = "recheck" /\ run' = run
  BY <1>1, <1>2, <1>5, <1>6 DEF IInv, AnswersInv, FoundInv
<1>7. CASE pc' = "notes"
  <2> DEFINE found == {n \in Known(Job) \cap Notes : head[n] # NoFile}
             p == [n \in Notes |-> IF n \in found THEN head[n].gen.jobs ELSE {}]
             a == [n \in Notes |-> IF n \in found THEN head[n].gen.answers ELSE 0]
  <2>1. run' = [run EXCEPT !.prior = p, !.answers = a]
    BY <1>7 DEF Load
  <2>2. run'.prior = p /\ run'.answers = a
    <3> HIDE DEF p, a
    <3> QED BY <1>1, <2>1 DEF Run
  <2>3. ASSUME NEW n \in Notes
        PROVE  run'.answers[n] <= edits'
    <3>1. n \in Managed /\ edits' = edits
      BY <1>1 DEF Managed
    <3>2. CASE n \in found
      BY <2>2, <3>1, <3>2 DEF IInv, AnswersInv
    <3>3. CASE n \notin found
      BY <1>1, <2>2, <3>1, <3>3
    <3> QED BY <3>2, <3>3
  <2>4. AnswersInv'
    BY <1>1, <2>3 DEF IInv, AnswersInv
  <2>5. ASSUME NEW n \in Writes[Job], head[n] # NoFile
        PROVE  head[n].gen.jobs \subseteq run'.prior[n] /\ head[n].gen.answers <= run'.answers[n]
    <3>1. n \in Notes /\ n \in Managed /\ n \in found
      BY <1>1, <2>5, WorkspaceAssumption DEF Known, Managed
    <3>2. run'.prior[n] = head[n].gen.jobs /\ run'.answers[n] = head[n].gen.answers
      BY <2>2, <3>1
    <3>3. head[n].gen.answers \in 0..MaxEdits
      BY <1>1, <2>5, <3>1, GenTyped
    <3> QED BY <3>2, <3>3, WorkspaceAssumption
  <2>6. FoundInv'
    BY <1>1, <1>3, <2>5 DEF FoundInv, Job
  <2> QED BY <1>2, <1>5, <2>4, <2>6 DEF IInv
<1> QED BY <1>6, <1>7 DEF Load

LEMMA PublishNoteKeeps ==
  ASSUME IInv, TypeOK', PublishNote
  PROVE  IInv'
<1>1. CASE Quiet
  BY <1>1, QuietKeeps
<1>2. CASE ~Quiet
  <2>1. PICK n \in Due :
          /\ n \in Managed /\ Revises(n, Candidate(n)) /\ pc' = Behind(n)
          /\ run' = [run EXCEPT !.accepted[n] = Merged(n, Candidate(n))]
          /\ UNCHANGED <<manifest, edits>>
    BY <1>2, PublishNoteKinds
  <2> DEFINE g == Candidate(n)
             t == Merged(n, g)
  <2>2. /\ TypeOK /\ pc \in Kinds /\ edits \in Nat /\ run \in Run
        /\ Job \in Jobs /\ Writes[Job] \subseteq Notes
    BY WorkspaceAssumption DEF IInv, TypeOK, PublishNote, RunInv, Kinds
  <2>3. /\ g \in Generated /\ t.gen = g /\ t # NoFile /\ head'[n] = t
        /\ \A m \in Managed \ {n} : head'[m] = head[m]
    BY <2>1, <2>2, MergedTyped, RevisionTyped DEF Revises, Fits
  <2>4. /\ run.accepted[n] = NoFile
        /\ pc = "notes" => n \in Writes[Job] /\ n \in Notes /\ Job \in g.jobs
        /\ pc # "notes" => n \notin Writes[Job]
    BY <2>1, <2>2, DueTyped, CandidateFits
  <2> HIDE DEF g, t
  <2>5. /\ run'.job = run.job /\ run'.prior = run.prior /\ run'.answers = run.answers
        /\ run'.accepted = [run.accepted EXCEPT ![n] = t]
    BY <2>1, <2>2 DEF Run, g, t
  <2>6. /\ run'.accepted[n] = t
        /\ \A m \in Managed \ {n} : run'.accepted[m] = run.accepted[m]
    BY <2>1, <2>2, <2>5, RunTyped DEF NoteTexts
  <2>7. pc' # "idle" /\ pc # "idle"
    BY <2>1, <2>2, BehindTyped DEF Kinds
  <2>8. edits <= edits' /\ edits' \in Nat
    BY <2>1, <2>2
  <2>9. /\ \A m \in Managed : head'[m] # NoFile => head'[m].gen.answers <= edits'
        /\ HeadInv' /\ CommittedIsPublished'
    BY <2>1, <2>8, RevisesHead
  <2>10. RunInv' /\ AnswersInv'
    BY <2>1, <2>2, <2>5, <2>7, <2>9 DEF IInv, RunInv, AnswersInv, Job
  <2>11. AcceptedInv'
    BY <2>1, <2>3, <2>6 DEF IInv, AcceptedInv
  <2>12. FoundInv'
    <3>1. pc' = "notes" => pc = "notes"
      BY <2>1, <2>2 DEF Behind, Kinds
    <3>2. \A m \in Writes[Job] : m \in Managed
      BY <2>2 DEF Managed
    <3> QED BY <2>3, <2>5, <2>6, <3>1, <3>2 DEF IInv, FoundInv, Job
  <2>13. \A m \in Writes[Job] : run'.accepted[m] # NoFile => Job \in head'[m].gen.jobs
    <3>1. SUFFICES ASSUME NEW m \in Writes[Job], run'.accepted[m] # NoFile
                   PROVE  Job \in head'[m].gen.jobs
      OBVIOUS
    <3>2. CASE m = n
      BY <2>3, <2>4, <3>2
    <3>3. CASE m # n
      BY <2>2, <2>3, <2>6, <2>7, <3>1, <3>3 DEF IInv, OwnInv, Managed
    <3> QED BY <3>2, <3>3
  <2>14. ASSUME pc' \in Behinds, NEW m \in Writes[Job]
         PROVE  run'.accepted[m] # NoFile
    <3>1. m \in Managed
      BY <2>2 DEF Managed
    <3>2. CASE m = n
      BY <2>3, <2>6, <3>2
    <3>3. CASE m # n /\ pc = "notes"
      <4>1. Due = {n}
        BY <2>1, <2>14, <3>3 DEF Behind, Behinds
      <4>2. m \notin Due
        BY <3>3, <4>1
      <4>3. m \in Accepted
        BY <2>14, <3>3, <4>2 DEF Due
      <4> QED BY <2>6, <3>1, <3>3, <4>3 DEF Accepted
    <3>4. CASE m # n /\ pc # "notes"
      <4>1. pc \in Behinds
        BY <2>2, <3>4 DEF Kinds, Behinds
      <4> QED BY <2>6, <2>14, <3>1, <3>4, <4>1 DEF IInv, OwnInv
    <3> QED BY <3>2, <3>3, <3>4
  <2>15. OwnInv'
    BY <2>5, <2>13, <2>14 DEF OwnInv, Job
  <2> QED BY <2>9, <2>10, <2>11, <2>12, <2>15 DEF IInv
<1> QED BY <1>1, <1>2

LEMMA AnswerKeeps ==
  ASSUME IInv, TypeOK', NEW n \in Inboxes, Answer(n)
  PROVE  IInv'
<1>1. /\ n \in Managed /\ Revises(n, AnswerOf(n))
  BY AnswerFits DEF Answer, Revises
<1>2. /\ UNCHANGED <<manifest, pc, run>> /\ pc = "idle" /\ run = NoRun
      /\ edits <= edits' /\ edits \in Nat /\ edits' \in Nat
  BY WorkspaceAssumption DEF Answer, ByHand, IInv, RunInv, TypeOK
<1>3. /\ \A m \in Managed : head'[m] # NoFile => head'[m].gen.answers <= edits'
      /\ HeadInv' /\ CommittedIsPublished'
  BY <1>1, <1>2, RevisesHead
<1>4. /\ \A m \in Notes : run'.answers[m] = 0
      /\ \A m \in Managed : run'.accepted[m] = NoFile
  BY <1>2 DEF NoRun, NoText
<1>5. RunInv' /\ AcceptedInv' /\ FoundInv' /\ OwnInv'
  BY <1>2, <1>4 DEF RunInv, AcceptedInv, FoundInv, OwnInv, Behinds
<1>6. AnswersInv'
  BY <1>2, <1>3, <1>4 DEF AnswersInv
<1> QED BY <1>3, <1>5, <1>6 DEF IInv

LEMMA CommitKeeps ==
  ASSUME IInv, TypeOK', Commit \/ CommitFails
  PROVE  IInv'
<1>1. /\ pc = "commit" /\ manifest' = Account /\ pc' = "unlock"
      /\ UNCHANGED <<head, edits>>
      /\ run' = run \/ run' = [run EXCEPT !.done = TRUE]
      /\ TypeOK /\ run \in Run /\ Job \in Jobs
  BY DEF Commit, CommitFails, notes, bounds, Fault, IInv, TypeOK, RunInv
<1>2. /\ run'.job = run.job /\ run'.prior = run.prior /\ run'.answers = run.answers
      /\ run'.accepted = run.accepted
  BY <1>1 DEF Run
<1>3. RunInv' /\ AnswersInv' /\ AcceptedInv' /\ FoundInv' /\ OwnInv'
  BY <1>1, <1>2 DEF IInv, RunInv, AnswersInv, AcceptedInv, FoundInv, OwnInv, Job, Behinds
<1>4. /\ manifest'.jobs = manifest.jobs \cup {Job}
      /\ \A n \in Managed : manifest'.texts[n] =
           IF run.accepted[n] # NoFile THEN run.accepted[n] ELSE manifest.texts[n]
      /\ manifest'.canvas = [manifest.canvas EXCEPT ![Course] = Graph]
  BY <1>1 DEF Account, Accepted
<1>5. HeadInv'
  BY <1>1, <1>4 DEF IInv, HeadInv, AcceptedInv
<1>6. ASSUME NEW j \in manifest'.jobs
      PROVE  j \in manifest'.canvas[CourseOf[j]]
  <2>1. /\ j \in Jobs /\ CourseOf[j] \in Courses
        /\ manifest.canvas \in [Courses -> SUBSET Jobs] /\ manifest.jobs \subseteq Jobs
    BY <1>1, <1>4, <1>6, WorkspaceAssumption DEF TypeOK, Accounts
  <2>2. CASE CourseOf[j] = Course
    BY <1>4, <1>6, <2>1, <2>2 DEF Graph
  <2>3. CASE CourseOf[j] # Course
    <3>1. j \in manifest.jobs
      BY <1>4, <1>6, <2>3 DEF Course
    <3> QED BY <1>4, <2>1, <2>3, <3>1 DEF IInv, CommittedIsPublished
  <2> QED BY <2>2, <2>3
<1>7. ASSUME NEW j \in manifest'.jobs, NEW n \in Writes[j]
      PROVE  /\ manifest'.texts[n] # NoFile /\ j \in manifest'.texts[n].gen.jobs
             /\ head'[n] # NoFile /\ j \in head'[n].gen.jobs
  <2>1. j \in Jobs
    BY <1>1, <1>4, <1>7 DEF TypeOK, Accounts
  <2>2. n \in Managed
    BY <1>7, <2>1, WorkspaceAssumption DEF Managed
  <2>3. run.accepted[n] # NoFile =>
          head[n] # NoFile /\ run.accepted[n].gen = head[n].gen
    BY <2>2 DEF IInv, AcceptedInv
  <2>4. CASE j = Job
    <3>1. run.accepted[n] # NoFile /\ Job \in head[n].gen.jobs
      BY <1>1, <1>7, <2>4 DEF IInv, OwnInv, Behinds
    <3> QED BY <1>1, <1>4, <2>2, <2>3, <2>4, <3>1
  <2>5. CASE j # Job
    <3>1. /\ manifest.texts[n] # NoFile /\ j \in manifest.texts[n].gen.jobs
          /\ head[n] # NoFile /\ j \in head[n].gen.jobs
      BY <1>4, <1>7, <2>5 DEF IInv, CommittedIsPublished
    <3> QED BY <1>1, <1>4, <2>2, <2>3, <3>1
  <2> QED BY <2>4, <2>5
<1>8. CommittedIsPublished'
  BY <1>6, <1>7 DEF CommittedIsPublished
<1> QED BY <1>3, <1>5, <1>8 DEF IInv

LEMMA InitHolds ==
  ASSUME Init
  PROVE  IInv /\ NotesAgree
<1>1. TypeOK
  <2>1. file \in NoteTexts /\ head \in NoteTexts
    BY NoRunTyped DEF Init
  <2>2. canvas \in [Courses -> (SUBSET Jobs) \cup {Foreign}]
    BY DEF Init, NoCanvas
  <2>3. manifest \in Accounts
    BY NoRunTyped DEF Init, NoAccount, NoCanvas, Accounts
  <2>4. edits \in 0..MaxEdits /\ faults \in 0..MaxFaults
    BY WorkspaceAssumption DEF Init
  <2> QED BY <2>1, <2>2, <2>3, <2>4, NoRunTyped DEF Init, TypeOK, PCs
<1>2. /\ \A n \in Managed : head[n] = NoFile /\ file[n] = NoFile
      /\ \A n \in Managed : manifest.texts[n] = NoFile /\ run.accepted[n] = NoFile
      /\ \A n \in Notes : run.answers[n] = 0
      /\ manifest.jobs = {} /\ edits = 0 /\ pc = "idle" /\ run = NoRun
  BY DEF Init, NoText, NoAccount, NoRun
<1>3. RunInv /\ AnswersInv /\ HeadInv /\ AcceptedInv /\ FoundInv /\ OwnInv
  BY <1>2 DEF RunInv, AnswersInv, HeadInv, AcceptedInv, FoundInv, OwnInv, Behinds
<1>4. CommittedIsPublished /\ NotesAgree
  BY <1>2 DEF CommittedIsPublished, NotesAgree, Clear
<1> QED BY <1>1, <1>3, <1>4 DEF IInv

LEMMA StepKeeps ==
  ASSUME IInv, [Next]_vars
  PROVE  IInv'
<1>1. CASE Next
  <2>1. TypeOK'
    BY <1>1, TypesKept
  <2>2. CASE Load
    BY <2>1, <2>2, LoadKeeps
  <2>3. CASE PublishNote
    BY <2>1, <2>3, PublishNoteKeeps
  <2>4. CASE Commit \/ CommitFails
    BY <2>1, <2>4, CommitKeeps
  <2>5. CASE \E n \in Inboxes : Answer(n)
    BY <2>1, <2>5, AnswerKeeps
  <2>6. CASE \/ PublishCanvas \/ Verify \/ Recheck \/ Unlock \/ RemoveLease
             \/ FaultStep /\ ~CommitFails
             \/ \E n \in Managed : EditRegion(n) \/ EditGenerated(n)
             \/ \E c \in Courses : EditCanvas(c)
             \/ \E j \in Jobs : Publish(j) \/ Complete(j)
    BY <2>1, <2>6, QuietSteps, QuietKeeps
  <2> QED BY <1>1, <2>2, <2>3, <2>4, <2>5, <2>6
          DEF Next, PublicationStep, OutsideStep
<1>2. CASE UNCHANGED vars
  <2>1. TypeOK' /\ edits \in Nat
    BY <1>2, WorkspaceAssumption DEF vars, IInv, TypeOK
  <2>2. Quiet
    BY <1>2, <2>1 DEF vars, Quiet
  <2> QED BY <2>1, <2>2, QuietKeeps
<1> QED BY <1>1, <1>2

\* Every step either revises one note or leaves all heads as they are.
LEMMA HeadSteps ==
  ASSUME IInv, [Next]_vars
  PROVE  \/ UNCHANGED head
         \/ \E n \in Managed : \E g \in Generated : Revises(n, g)
<1>1. CASE PublishNote
  BY <1>1, PublishNoteKinds DEF Quiet, Revises, Fits
<1>2. CASE \E n \in Inboxes : Answer(n)
  BY <1>2, AnswerFits DEF Answer, Revises, Fits
<1>3. CASE Load \/ Commit \/ CommitFails \/ UNCHANGED vars
  BY <1>3 DEF Load, Commit, CommitFails, vars, notes
<1>4. CASE \/ PublishCanvas \/ Verify \/ Recheck \/ Unlock \/ RemoveLease
           \/ FaultStep /\ ~CommitFails
           \/ \E n \in Managed : EditRegion(n) \/ EditGenerated(n)
           \/ \E c \in Courses : EditCanvas(c)
           \/ \E j \in Jobs : Publish(j) \/ Complete(j)
  BY <1>4, QuietSteps DEF Quiet
<1> QED BY <1>1, <1>2, <1>3, <1>4 DEF Next, PublicationStep, OutsideStep

\* A note that is revised agrees with its new head, and no other changes.
LEMMA RevisesAgrees ==
  ASSUME TypeOK, NotesAgree, NEW n \in Managed, NEW g \in Generated, Revises(n, g)
  PROVE  NotesAgree'
<1>1. /\ file[n] = NoFile \/ file[n].sound
      /\ disturbed' = disturbed
  BY DEF Revises, Clear
<1>2. /\ Merged(n, g) # NoFile /\ Merged(n, g).sound
      /\ file'[n] = Merged(n, g) /\ head'[n] = Merged(n, g)
      /\ \A m \in Managed \ {n} : file'[m] = file[m] /\ head'[m] = head[m]
  BY <1>1, MergedTyped, RevisionTyped DEF Revises
<1>3. ASSUME NEW m \in Managed, ~disturbed
      PROVE  Clear(m)'
  <2>1. CASE m = n
    BY <1>2, <2>1 DEF Clear
  <2>2. CASE m # n
    BY <1>2, <1>3, <2>2 DEF NotesAgree, Clear
  <2> QED BY <2>1, <2>2
<1> QED BY <1>1, <1>3 DEF NotesAgree

LEMMA StepAgrees ==
  ASSUME IInv, NotesAgree, [Next]_vars
  PROVE  NotesAgree'
<1>1. TypeOK
  BY DEF IInv
<1>2. CASE UNCHANGED <<file, head>> /\ (disturbed => disturbed')
  BY <1>2 DEF NotesAgree, Clear
<1>3. CASE disturbed'
  BY <1>3 DEF NotesAgree
<1>4. CASE PublishNote
  <2>1. CASE UNCHANGED <<file, head, disturbed>>
    BY <1>2, <2>1
  <2>2. CASE \E n \in Managed : \E g \in Generated : Revises(n, g)
    BY <1>1, <2>2, RevisesAgrees
  <2> QED BY <1>4, <2>1, <2>2, PublishNoteKinds DEF Quiet, Revises, Fits
<1>5. ASSUME NEW n \in Inboxes, Answer(n) PROVE NotesAgree'
  <2>1. n \in Managed /\ AnswerOf(n) \in Generated /\ Revises(n, AnswerOf(n))
    BY <1>5, AnswerFits DEF Answer, Revises, Fits
  <2> QED BY <1>1, <2>1, RevisesAgrees
<1>6. ASSUME NEW n \in Managed, EditRegion(n) PROVE NotesAgree'
  <2>1. /\ file \in NoteTexts /\ file[n] # NoFile /\ head' = head /\ disturbed' = disturbed
        /\ file' = [file EXCEPT ![n].own = edits + 1]
    BY <1>1, <1>6 DEF EditRegion, TypeOK
  <2>2. PICK t \in Text : t = file[n]
    BY <2>1 DEF NoteTexts
  <2>3. file' = [file EXCEPT ![n] = [t EXCEPT !.own = edits + 1]]
    BY <2>1, <2>2
  <2>4. edits + 1 \in 0..MaxEdits
    BY <1>1, <1>6, WorkspaceAssumption DEF EditRegion, ByHand, TypeOK
  <2>5. [t EXCEPT !.own = edits + 1] \in Text /\ [t EXCEPT !.own = edits + 1].gen = t.gen
    BY <2>4, SMT DEF Text
  <2>6. [t EXCEPT !.own = edits + 1].sound = t.sound
    BY SMT DEF Text
  <2>7. \A m \in Managed : Clear(m) => Clear(m)'
    <3>1. ASSUME NEW m \in Managed, m # n PROVE file'[m] = file[m]
      BY <2>1, <2>3, <3>1 DEF NoteTexts
    <3>2. file'[n] = [t EXCEPT !.own = edits + 1]
      BY <2>1, <2>3 DEF NoteTexts
    <3>3. file'[n] # NoFile /\ file'[n].gen = file[n].gen /\ file'[n].sound = file[n].sound
      BY <2>2, <2>5, <2>6, <3>2, NoTexts
    <3> QED BY <2>1, <3>1, <3>3 DEF Clear
  <2> QED BY <2>1, <2>7 DEF NotesAgree
<1>7. CASE FaultStep \/ \E n \in Managed : EditGenerated(n)
  BY <1>2, <1>3, <1>7 DEF FaultStep, StepFails, RowFails, CommitFails, UnlockFails, Crash,
    LaterFails, EditGenerated, notes
<1>8. CASE Load \/ PublishCanvas \/ Verify \/ Recheck \/ Commit \/ Unlock \/ RemoveLease
  BY <1>2, <1>3, <1>8
     DEF Load, PublishCanvas, Verify, Recheck, Commit, Unlock, RemoveLease, notes
<1>9. CASE \/ \E c \in Courses : EditCanvas(c)
           \/ \E j \in Jobs : Publish(j) \/ Complete(j)
  BY <1>2, <1>3, <1>9 DEF EditCanvas, Publish, Complete, notes
<1>10. CASE UNCHANGED vars
  BY <1>2, <1>10 DEF vars
<1> QED BY <1>4, <1>5, <1>6, <1>7, <1>8, <1>9, <1>10 DEF Next, PublicationStep, OutsideStep

-----------------------------------------------------------------------------
(* The theorems.                                                           *)

\* The invariant of the publications.
THEOREM Invariance == Spec => [](IInv /\ NotesAgree)
<1>1. Init => IInv /\ NotesAgree
  BY InitHolds
<1>2. IInv /\ NotesAgree /\ [Next]_vars => (IInv /\ NotesAgree)'
  BY StepKeeps, StepAgrees
<1> QED BY <1>1, <1>2, PTL DEF Spec

\* The variables of the workspace and the locals of a publication keep their types.
THEOREM TypesHold == Spec => []TypeOK
<1>1. IInv => TypeOK
  BY DEF IInv
<1> QED BY <1>1, Invariance, PTL

\* The manifest lists a job only with its canvas and its notes, and the heads keep its
\* sections, whatever publications fail in between (#commit, #priorNotes).
THEOREM CommittedArePublished == Spec => []CommittedIsPublished
<1>1. IInv => CommittedIsPublished
  BY DEF IInv
<1> QED BY <1>1, Invariance, PTL

\* Every managed note reads as accepted, unless a hand or a cut between the file and its
\* row came in (ManagedNoteService.publish).
THEOREM NotesDoAgree == Spec => []NotesAgree
BY Invariance, PTL

\* No publication and no answer takes accepted sections or answers out of a note, even
\* those of which no manifest knows (#priorNotes).
THEOREM SectionsAreKept == Spec => SectionsKept
<1>1. ASSUME IInv, [Next]_vars, NEW n \in Managed, head[n] # NoFile
      PROVE  /\ head'[n] # NoFile
             /\ head[n].gen.jobs \subseteq head'[n].gen.jobs
             /\ n \in Notes => head'[n].gen.answers >= head[n].gen.answers
  <2>1. TypeOK
    BY <1>1 DEF IInv
  <2>2. head[n].gen.answers \in 0..MaxEdits
    BY <1>1, <2>1, GenTyped
  <2>3. CASE UNCHANGED head
    BY <1>1, <2>2, <2>3, WorkspaceAssumption
  <2>4. CASE \E m \in Managed : \E g \in Generated : Revises(m, g)
    <3>1. /\ head'[n] # NoFile /\ head[n].gen.jobs \subseteq head'[n].gen.jobs
          /\ n \in Notes => head[n].gen.answers <= head'[n].gen.answers
      BY <1>1, <2>1, <2>4, RevisesKeeps
    <3>2. TypeOK'
      BY <1>1, StepKeeps DEF IInv
    <3>3. head'[n].gen.answers \in 0..MaxEdits
      BY <1>1, <3>1, <3>2 DEF TypeOK, NoteTexts, Text, Generated
    <3> QED BY <2>2, <3>1, <3>3, WorkspaceAssumption
  <2> QED BY <1>1, <2>3, <2>4, HeadSteps
<1>2. IInv /\ [Next]_vars =>
        [\A n \in Managed : head[n] # NoFile =>
           /\ head'[n] # NoFile
           /\ head[n].gen.jobs \subseteq head'[n].gen.jobs
           /\ n \in Notes => head'[n].gen.answers >= head[n].gen.answers]_vars
  BY <1>1
<1> QED BY <1>2, Invariance, PTL DEF Spec, SectionsKept

-----------------------------------------------------------------------------
(***************************************************************************)
(* VaultWriter: the safety of the note under a user's edits.               *)
(***************************************************************************)

LEMMA NamesApart == "target" \notin Conflicts /\ Nothing \notin Texts /\ Partial \notin Contents
  BY WriterAssumption DEF Nothing, Partial, Contents

\* The steps before anything in the vault is touched.
Preparing ==
  {"open", "write", "select", "look", "reselect", "checkMove", "move", "checkLink"}

\* The new text is complete from the end of the write to the link.
TempComplete ==
  /\ await # "idle" => op.want \in Texts
  /\ await \in (Preparing \ {"open", "write"}) \cup {"link", "unlink"} => temp = op.want
  /\ await = "open" => temp = Nothing
  /\ await = "write" => temp = Partial

WriterTypeInv == WriterTypeOK /\ TempComplete

LEMMA ChoicesAreTyped ==
  ASSUME WriterTypeOK, NEW s \in Choices
  PROVE  /\ s \in [at : Names, replace : BOOLEAN]
         /\ s.replace => s.at = "target"
         /\ s.at = "target" =>
              op.base = "any" \/ (Agreed(disk["target"]) /\ (s.replace <=> disk["target"] # Nothing))
<1>1. CASE op.base = "any"
  <2>1. s = [at |-> "target", replace |-> TRUE]
    BY <1>1 DEF Choices
  <2> QED
    BY <1>1, <2>1 DEF Names
<1>2. CASE op.base # "any" /\ Agreed(disk["target"])
  <2>1. s = [at |-> "target", replace |-> disk["target"] # Nothing]
    BY <1>2 DEF Choices
  <2>2. CASE disk["target"] = Nothing
    <3>1. s = [at |-> "target", replace |-> FALSE]
      BY <2>1, <2>2
    <3> QED
      BY <1>2, <2>2, <3>1 DEF Names
  <2>3. CASE disk["target"] # Nothing
    <3>1. s = [at |-> "target", replace |-> TRUE]
      BY <2>1, <2>3
    <3> QED
      BY <1>2, <2>3, <3>1 DEF Names
  <2> QED
    BY <2>2, <2>3
<1>3. CASE op.base # "any" /\ ~Agreed(disk["target"])
  <2>1. PICK c \in Conflicts : s = [at |-> c, replace |-> FALSE]
    BY <1>3 DEF Choices
  <2> QED
    BY <2>1, NamesApart DEF Names
<1> QED
  BY <1>1, <1>2, <1>3

\* What End leaves.
Ended ==
  /\ await' = "idle" /\ op' \in [want : Contents, base : Bases]
  /\ sel' \in [at : Names, replace : BOOLEAN] /\ tries' \in 0..MaxAttempts /\ late' = {}

LEMMA EndTyped ==
  \A how : End(how) => Ended /\ outcome' = how
  BY WriterAssumption DEF End, Ended, NoOp, NoSelection, Names, Contents, Bases

LEMMA WriterDoneTyped ==
  Done => Ended /\ outcome' \in {"written", "conflict"}
  BY EndTyped DEF Done

LEMMA AfterUnlinkTyped ==
  AfterUnlink =>
    \/ await' = "tidy" /\ UNCHANGED <<op, sel, tries, outcome, late>>
    \/ Ended /\ outcome' \in {"written", "conflict"}
  BY WriterDoneTyped DEF AfterUnlink

LEMMA TypeSteps ==
  ASSUME WriterTypeInv, WriterNext
  PROVE  WriterTypeInv'
<1> USE WriterAssumption, NamesApart DEF WriterTypeInv, WriterTypeOK, TempComplete, Preparing, Awaits, Failing, Contents, Names, Windows, Bases, NothingKnown, Ended
<1>1. ASSUME Begin PROVE WriterTypeInv'
  BY <1>1 DEF Begin
<1>2. ASSUME OpenTemp PROVE WriterTypeInv'
  BY <1>2 DEF OpenTemp
<1>3. ASSUME Write PROVE WriterTypeInv'
  BY <1>3 DEF Write
<1>4. ASSUME Select PROVE WriterTypeInv'
  BY <1>4, ChoicesAreTyped DEF Select
<1>5. ASSUME Look PROVE WriterTypeInv'
  BY <1>5 DEF Look
<1>6. ASSUME Reselect PROVE WriterTypeInv'
  BY <1>6, ChoicesAreTyped DEF Reselect, Refresh
<1>7. ASSUME CheckMove PROVE WriterTypeInv'
  BY <1>7, ChoicesAreTyped DEF CheckMove, Refresh
<1>8. ASSUME CheckLink PROVE WriterTypeInv'
  BY <1>8, ChoicesAreTyped DEF CheckLink, Refresh
<1>9. ASSUME NoChoice PROVE WriterTypeInv'
  BY <1>9 DEF NoChoice
<1>10. ASSUME Move PROVE WriterTypeInv'
  <2>1. CASE disk[sel.at] = Nothing
    BY <1>10, <2>1 DEF Move
  <2>2. CASE disk[sel.at] # Nothing
    <3>1. disk' \in [Names -> Contents] /\ backup' \in Contents
      BY <1>10, <2>2 DEF Move
    <3>2. known' \in [temp : BOOLEAN, backup : BOOLEAN]
      BY <1>10, <2>2 DEF Move
    <3> QED
      BY <1>10, <2>2, <3>1, <3>2 DEF Move
  <2> QED
    BY <2>1, <2>2
<1>11. ASSUME Link PROVE WriterTypeInv'
  <2>1. temp \in Contents
    BY <1>11 DEF Link
  <2>2. disk' \in [Names -> Contents]
    <3>1. disk' = disk \/ disk' = [disk EXCEPT ![sel.at] = temp]
      BY <1>11 DEF Link
    <3> QED
      BY <2>1, <3>1
  <2>4. await' \in {"catch", "unlink"}
    BY <1>11 DEF Link
  <2>3. await' = "unlink" => temp = op.want
    BY <1>11 DEF Link
  <2> QED
    BY <1>11, <2>2, <2>3, <2>4 DEF Link
<1>12. ASSUME Unlink PROVE WriterTypeInv'
  <2>1. known' \in [temp : BOOLEAN, backup : BOOLEAN] /\ temp' = Nothing
    BY <1>12 DEF Unlink
  <2>2. disk' = disk /\ backup' = backup
    BY <1>12 DEF Unlink
  <2> QED
    BY <1>12, <2>1, <2>2, AfterUnlinkTyped DEF Unlink
<1>13. ASSUME Tidy PROVE WriterTypeInv'
  <2>1. known' \in [temp : BOOLEAN, backup : BOOLEAN] /\ backup' = Nothing
    BY <1>13 DEF Tidy
  <2>2. disk' = disk /\ temp' = temp
    BY <1>13 DEF Tidy
  <2> QED
    BY <1>13, <2>1, <2>2, WriterDoneTyped DEF Tidy
<1>14. ASSUME Catch PROVE WriterTypeInv'
  <2>1. known' = known /\ temp' = temp /\ disk' = disk /\ backup' = backup
    BY <1>14 DEF Catch
  <2>2. CASE known.backup /\ disk[sel.at] = Nothing
    BY <1>14, <2>1, <2>2 DEF Catch
  <2>3. CASE ~(known.backup /\ disk[sel.at] = Nothing)
    BY <1>14, <2>1, <2>3, EndTyped DEF Catch
  <2> QED
    BY <2>2, <2>3
<1>15. ASSUME PutBack PROVE WriterTypeInv'
  <2>1. known' \in [temp : BOOLEAN, backup : BOOLEAN] /\ backup' = Nothing
    BY <1>15 DEF PutBack
  <2>2. disk' \in [Names -> Contents] /\ temp' = temp
    BY <1>15 DEF PutBack
  <2> QED
    BY <1>15, <2>1, <2>2, EndTyped DEF PutBack
<1>16. ASSUME WriterStepFails PROVE WriterTypeInv'
  BY <1>16 DEF WriterStepFails
<1>17. ASSUME WriteFails PROVE WriterTypeInv'
  BY <1>17 DEF WriteFails
<1>18. ASSUME UnlinkFails PROVE WriterTypeInv'
  <2>1. known' = known /\ temp' = temp /\ disk' = disk /\ backup' = backup
    BY <1>18 DEF UnlinkFails
  <2> QED
    BY <1>18, <2>1, AfterUnlinkTyped DEF UnlinkFails
<1>19. ASSUME TidyFails PROVE WriterTypeInv'
  BY <1>19, EndTyped, WriterDoneTyped DEF TidyFails
<1>20. ASSUME CatchFails PROVE WriterTypeInv'
  BY <1>20, EndTyped, WriterDoneTyped DEF CatchFails
<1>21. ASSUME PutBackFails PROVE WriterTypeInv'
  BY <1>21, EndTyped, WriterDoneTyped DEF PutBackFails
<1>22. ASSUME WriterCrash PROVE WriterTypeInv'
  BY <1>22, EndTyped, WriterDoneTyped DEF WriterCrash
<1>23. ASSUME NEW n \in Names, Edit(n) PROVE WriterTypeInv'
  BY <1>23 DEF Edit
<1> QED
  BY <1>1, <1>2, <1>3, <1>4, <1>5, <1>6, <1>7, <1>8, <1>9, <1>10, <1>11, <1>12, <1>13, <1>14, <1>15, <1>16, <1>17, <1>18, <1>19, <1>20, <1>21, <1>22, <1>23 DEF WriterNext, WriterStep, WriterFaultStep, UserStep

\* Every value has its type, for good.
THEOREM WriterTypesHold == WriterSpec => []WriterTypeOK
<1>1. WriterInit => WriterTypeInv
  BY WriterAssumption DEF WriterInit, WriterTypeInv, WriterTypeOK, TempComplete, Preparing, Awaits, Failing, Contents, Names, Windows,
     Bases, NoOp, NoSelection, NothingKnown
<1>2. WriterTypeInv /\ [WriterNext]_writerVars => WriterTypeInv'
  <2> SUFFICES ASSUME WriterTypeInv, [WriterNext]_writerVars PROVE WriterTypeInv'
    OBVIOUS
  <2>1. CASE WriterNext
    BY <2>1, TypeSteps
  <2>2. CASE UNCHANGED writerVars
    BY <2>2 DEF writerVars, WriterTypeInv, WriterTypeOK, TempComplete, Preparing
  <2> QED
    BY <2>1, <2>2
<1> QED
  BY <1>1, <1>2, PTL DEF WriterSpec, WriterTypeInv

-----------------------------------------------------------------------------
(* What is in the backup, and what is known of it.                         *)

\* The operation knows which of its files are there.
KnownInv ==
  await # "idle" \/ outcome \notin {"escaped", "crashed"} =>
    /\ known.temp <=> temp # Nothing
    /\ known.backup <=> backup # Nothing

\* Only a target that was agreed to be replaced is moved to the backup, and only a
\* free target that was agreed to be free is linked, unless it changed meanwhile.
AgreedInv ==
  /\ await \in Preparing => ~known.backup
  /\ sel.replace => sel.at = "target"
  /\ await = "checkMove" => sel.replace
  /\ await = "move" => sel.replace /\ (Agreed(disk["target"]) \/ "move" \in late)
  /\ await = "link" /\ ~known.backup /\ sel.at = "target" =>
       Agreed(Nothing) \/ disk["target"] # Nothing \/ "link" \in late
  /\ known.backup /\ await # "idle" => sel.at = "target" /\ (Agreed(backup) \/ "move" \in late)
  /\ await = "putBack" => known.backup /\ (disk["target"] = Nothing \/ "putBack" \in late)

LEMMA KnownSteps ==
  ASSUME WriterTypeInv, AgreedInv, KnownInv, WriterNext
  PROVE  KnownInv'
<1> USE NamesApart DEF KnownInv, NothingKnown
<1>1. ASSUME Begin PROVE KnownInv'
  BY <1>1 DEF Begin, WriterTypeInv, WriterTypeOK, TempComplete, Preparing, Contents, AgreedInv, Nothing
<1>2. ASSUME OpenTemp PROVE KnownInv'
  BY <1>2 DEF OpenTemp, WriterTypeInv, WriterTypeOK, TempComplete, Preparing, Contents, AgreedInv, Nothing, Partial
<1>3. ASSUME Write PROVE KnownInv'
  BY <1>3 DEF Write, WriterTypeInv, WriterTypeOK, TempComplete, Preparing, Contents, AgreedInv
<1>4. ASSUME Select PROVE KnownInv'
  BY <1>4 DEF Select, WriterTypeInv, WriterTypeOK, TempComplete, Preparing, Contents, AgreedInv
<1>5. ASSUME Look PROVE KnownInv'
  BY <1>5 DEF Look, WriterTypeInv, WriterTypeOK, TempComplete, Preparing, Contents, AgreedInv
<1>6. ASSUME Reselect PROVE KnownInv'
  BY <1>6 DEF Reselect, Refresh, WriterTypeInv, WriterTypeOK, TempComplete, Preparing, Contents, AgreedInv
<1>7. ASSUME CheckMove PROVE KnownInv'
  BY <1>7 DEF CheckMove, Refresh, WriterTypeInv, WriterTypeOK, TempComplete, Preparing, Contents, AgreedInv
<1>8. ASSUME CheckLink PROVE KnownInv'
  BY <1>8 DEF CheckLink, Refresh, WriterTypeInv, WriterTypeOK, TempComplete, Preparing, Contents, AgreedInv
<1>9. ASSUME NoChoice PROVE KnownInv'
  BY <1>9 DEF NoChoice, WriterTypeInv, WriterTypeOK, TempComplete, Preparing, Contents, AgreedInv
<1>10. ASSUME Move PROVE KnownInv'
  BY <1>10 DEF Move, WriterTypeInv, WriterTypeOK, TempComplete, Preparing, Contents, AgreedInv
<1>11. ASSUME Link PROVE KnownInv'
  BY <1>11 DEF Link, WriterTypeInv, WriterTypeOK, TempComplete, Preparing, Contents, AgreedInv
<1>12. ASSUME Unlink PROVE KnownInv'
  BY <1>12 DEF Unlink, AfterUnlink, Done, End, WriterTypeInv, WriterTypeOK, TempComplete, Preparing, Contents, AgreedInv
<1>13. ASSUME Tidy PROVE KnownInv'
  BY <1>13 DEF Tidy, Done, End, WriterTypeInv, WriterTypeOK, TempComplete, Preparing, Contents, AgreedInv
<1>14. ASSUME Catch PROVE KnownInv'
  BY <1>14 DEF Catch, End, WriterTypeInv, WriterTypeOK, TempComplete, Preparing, Contents, AgreedInv
<1>15. ASSUME PutBack PROVE KnownInv'
  BY <1>15 DEF PutBack, End, WriterTypeInv, WriterTypeOK, TempComplete, Preparing, Contents, AgreedInv
<1>16. ASSUME WriterStepFails PROVE KnownInv'
  BY <1>16 DEF WriterStepFails, WriterTypeInv, WriterTypeOK, TempComplete, Preparing, Contents, AgreedInv, Failing
<1>17. ASSUME WriteFails PROVE KnownInv'
  BY <1>17 DEF WriteFails, WriterTypeInv, WriterTypeOK, TempComplete, Preparing, Contents, AgreedInv
<1>18. ASSUME UnlinkFails PROVE KnownInv'
  BY <1>18 DEF UnlinkFails, AfterUnlink, Done, End, WriterTypeInv, WriterTypeOK, TempComplete, Preparing, Contents, AgreedInv
<1>19. ASSUME TidyFails PROVE KnownInv'
  BY <1>19 DEF TidyFails, Done, End, WriterTypeInv, WriterTypeOK, TempComplete, Preparing, Contents, AgreedInv
<1>20. ASSUME CatchFails PROVE KnownInv'
  BY <1>20 DEF CatchFails, End, WriterTypeInv, WriterTypeOK, TempComplete, Preparing, Contents, AgreedInv
<1>21. ASSUME PutBackFails PROVE KnownInv'
  BY <1>21 DEF PutBackFails, End, WriterTypeInv, WriterTypeOK, TempComplete, Preparing, Contents, AgreedInv
<1>22. ASSUME WriterCrash PROVE KnownInv'
  BY <1>22 DEF WriterCrash, End, WriterTypeInv, WriterTypeOK, TempComplete, Preparing, Contents, AgreedInv
<1>23. ASSUME NEW n \in Names, Edit(n) PROVE KnownInv'
  BY <1>23 DEF Edit
<1> QED
  BY <1>1, <1>2, <1>3, <1>4, <1>5, <1>6, <1>7, <1>8, <1>9, <1>10, <1>11, <1>12, <1>13, <1>14, <1>15, <1>16, <1>17, <1>18, <1>19, <1>20, <1>21, <1>22, <1>23 DEF WriterNext, WriterStep, WriterFaultStep, UserStep

LEMMA AgreedSteps ==
  ASSUME WriterTypeInv, AgreedInv, KnownInv, WriterNext
  PROVE  AgreedInv'
<1> USE NamesApart DEF AgreedInv, Agreed, Preparing
<1>1. ASSUME Begin PROVE AgreedInv'
  BY <1>1 DEF Begin, WriterTypeInv, WriterTypeOK, NothingKnown, Nothing
<1>2. ASSUME OpenTemp PROVE AgreedInv'
  BY <1>2 DEF OpenTemp, WriterTypeInv, WriterTypeOK
<1>3. ASSUME Write PROVE AgreedInv'
  BY <1>3 DEF Write, WriterTypeInv, WriterTypeOK
<1>4. ASSUME Select PROVE AgreedInv'
  BY <1>4, ChoicesAreTyped DEF Select, WriterTypeInv, WriterTypeOK
<1>5. ASSUME Look PROVE AgreedInv'
  BY <1>5 DEF Look, WriterTypeInv, WriterTypeOK
<1>6. ASSUME Reselect PROVE AgreedInv'
  BY <1>6, ChoicesAreTyped DEF Reselect, Refresh, WriterTypeInv, WriterTypeOK
<1>7. ASSUME CheckMove PROVE AgreedInv'
  BY <1>7, ChoicesAreTyped DEF CheckMove, Refresh, WriterTypeInv, WriterTypeOK
<1>8. ASSUME CheckLink PROVE AgreedInv'
  BY <1>8, ChoicesAreTyped DEF CheckLink, Refresh, WriterTypeInv, WriterTypeOK
<1>9. ASSUME NoChoice PROVE AgreedInv'
  BY <1>9 DEF NoChoice, WriterTypeInv, WriterTypeOK
<1>10. ASSUME Move PROVE AgreedInv'
  BY <1>10 DEF Move, WriterTypeInv, WriterTypeOK
<1>11. ASSUME Link PROVE AgreedInv'
  BY <1>11 DEF Link, WriterTypeInv, WriterTypeOK
<1>12. ASSUME Unlink PROVE AgreedInv'
  BY <1>12 DEF Unlink, AfterUnlink, Done, End, WriterTypeInv, WriterTypeOK, NoOp, NoSelection
<1>13. ASSUME Tidy PROVE AgreedInv'
  BY <1>13 DEF Tidy, Done, End, WriterTypeInv, WriterTypeOK, NoOp, NoSelection
<1>14. ASSUME Catch PROVE AgreedInv'
  BY <1>14 DEF Catch, End, WriterTypeInv, WriterTypeOK, NoOp, NoSelection
<1>15. ASSUME PutBack PROVE AgreedInv'
  BY <1>15 DEF PutBack, End, WriterTypeInv, WriterTypeOK, NoOp, NoSelection
<1>16. ASSUME WriterStepFails PROVE AgreedInv'
  BY <1>16 DEF WriterStepFails, Failing, WriterTypeInv, WriterTypeOK
<1>17. ASSUME WriteFails PROVE AgreedInv'
  BY <1>17 DEF WriteFails, WriterTypeInv, WriterTypeOK
<1>18. ASSUME UnlinkFails PROVE AgreedInv'
  BY <1>18 DEF UnlinkFails, AfterUnlink, Done, End, WriterTypeInv, WriterTypeOK, NoOp, NoSelection
<1>19. ASSUME TidyFails PROVE AgreedInv'
  BY <1>19 DEF TidyFails, Done, End, WriterTypeInv, WriterTypeOK, NoOp, NoSelection
<1>20. ASSUME CatchFails PROVE AgreedInv'
  BY <1>20 DEF CatchFails, End, WriterTypeInv, WriterTypeOK, NothingKnown, NoOp, NoSelection
<1>21. ASSUME PutBackFails PROVE AgreedInv'
  BY <1>21 DEF PutBackFails, End, WriterTypeInv, WriterTypeOK, NoOp, NoSelection
<1>22. ASSUME WriterCrash PROVE AgreedInv'
  BY <1>22 DEF WriterCrash, End, WriterTypeInv, WriterTypeOK, NothingKnown, NoOp, NoSelection
<1>23. ASSUME NEW n \in Names, Edit(n) PROVE AgreedInv'
  BY <1>23 DEF Edit, WriterTypeInv, WriterTypeOK, Windows
<1> QED
  BY <1>1, <1>2, <1>3, <1>4, <1>5, <1>6, <1>7, <1>8, <1>9, <1>10, <1>11, <1>12, <1>13, <1>14, <1>15, <1>16, <1>17, <1>18, <1>19, <1>20, <1>21, <1>22, <1>23 DEF WriterNext, WriterStep, WriterFaultStep, UserStep

WriterInv == WriterTypeInv /\ KnownInv /\ AgreedInv

LEMMA WriterInvariance == WriterSpec => []WriterInv
<1>1. WriterInit => WriterInv
  BY WriterAssumption DEF WriterInit, WriterInv, WriterTypeInv, WriterTypeOK, TempComplete, KnownInv, AgreedInv, Preparing, Awaits, Failing, Contents,
     Names, Windows, Bases, NoOp, NoSelection, NothingKnown
<1>2. WriterInv /\ [WriterNext]_writerVars => WriterInv'
  <2> SUFFICES ASSUME WriterInv, [WriterNext]_writerVars PROVE WriterInv'
    OBVIOUS
  <2>1. CASE WriterNext
    BY <2>1, TypeSteps, KnownSteps, AgreedSteps DEF WriterInv
  <2>2. CASE UNCHANGED writerVars
    BY <2>2 DEF writerVars, WriterInv, WriterTypeInv, WriterTypeOK, TempComplete, KnownInv, AgreedInv, Agreed, Preparing
  <2> QED
    BY <2>1, <2>2
<1> QED
  BY <1>1, <1>2, PTL DEF WriterSpec

\* The outcome names the files that are left, and no others.
THEOREM LeftoversReported == WriterSpec => []LeftoversAreReported
<1>1. WriterInv => LeftoversAreReported
  BY DEF WriterInv, KnownInv, LeftoversAreReported
<1> QED
  BY <1>1, WriterInvariance, PTL

-----------------------------------------------------------------------------
(* What a step takes away, and what it puts in place.                      *)

\* Three steps take files from their names: the move, the end of a replacement,
\* and the return of the backup.
Kept == \A t \in Texts : Held(t) => Held(t)' \/ Agreed(t) \/ late \cap {"move", "putBack"} # {}

LEMMA StepsKeep ==
  ASSUME WriterInv, WriterNext, await' # await, await # "idle"
  PROVE  Kept
<1> USE NamesApart DEF Kept, Held
<1>1. ~Begin
  BY DEF Begin
<1>2. ASSUME OpenTemp PROVE Kept
  BY <1>2 DEF OpenTemp
<1>3. ASSUME Write PROVE Kept
  BY <1>3 DEF Write
<1>4. ASSUME Select PROVE Kept
  BY <1>4 DEF Select
<1>5. ASSUME Look PROVE Kept
  BY <1>5 DEF Look
<1>6. ASSUME Reselect PROVE Kept
  BY <1>6 DEF Reselect
<1>7. ASSUME CheckMove PROVE Kept
  BY <1>7 DEF CheckMove
<1>8. ASSUME CheckLink PROVE Kept
  BY <1>8 DEF CheckLink
<1>9. ASSUME NoChoice PROVE Kept
  BY <1>9 DEF NoChoice
<1>10. ASSUME Move PROVE Kept
  <2>1. CASE disk[sel.at] = Nothing
    BY <1>10, <2>1 DEF Move
  <2>2. CASE disk[sel.at] # Nothing
    <3>1. backup = Nothing
      BY <1>10 DEF Move, WriterInv, KnownInv, AgreedInv, Preparing
    <3>2. backup' = disk[sel.at] /\ \A n \in Names \ {sel.at} : disk'[n] = disk[n]
      BY <1>10, <2>2 DEF Move, WriterInv, WriterTypeInv, WriterTypeOK
    <3> QED
      BY <3>1, <3>2
  <2> QED
    BY <2>1, <2>2
<1>11. ASSUME Link PROVE Kept
  <2>1. backup' = backup /\ \A n \in Names : disk[n] # Nothing => disk'[n] = disk[n]
    BY <1>11 DEF Link, WriterInv, WriterTypeInv, WriterTypeOK
  <2> QED
    BY <2>1
<1>12. ASSUME Unlink PROVE Kept
  BY <1>12 DEF Unlink, AfterUnlink, Done
<1>13. ASSUME Tidy PROVE Kept
  <2>1. disk' = disk
    BY <1>13 DEF Tidy
  <2>2. CASE known.backup
    <3>1. Agreed(backup) \/ "move" \in late
      BY <1>13, <2>2 DEF Tidy, WriterInv, AgreedInv
    <3> QED
      BY <2>1, <3>1
  <2>3. CASE ~known.backup
    <3>1. backup = Nothing
      BY <1>13, <2>3 DEF Tidy, WriterInv, KnownInv
    <3> QED
      BY <2>1, <3>1
  <2> QED
    BY <2>2, <2>3
<1>14. ASSUME Catch PROVE Kept
  BY <1>14 DEF Catch
<1>15. ASSUME PutBack PROVE Kept
  <2>1. sel.at = "target" /\ (disk["target"] = Nothing \/ "putBack" \in late)
    BY <1>15 DEF PutBack, WriterInv, AgreedInv
  <2>2. disk'["target"] = backup /\ \A n \in Names \ {"target"} : disk'[n] = disk[n]
    BY <1>15, <2>1 DEF PutBack, WriterInv, WriterTypeInv, WriterTypeOK, Names
  <2>3. "target" \in Names
    BY DEF Names
  <2> QED
    BY <2>1, <2>2, <2>3
<1>16. ASSUME WriterStepFails PROVE Kept
  BY <1>16 DEF WriterStepFails
<1>17. ASSUME WriteFails PROVE Kept
  BY <1>17 DEF WriteFails
<1>18. ASSUME UnlinkFails PROVE Kept
  BY <1>18 DEF UnlinkFails, AfterUnlink, Done
<1>19. ASSUME TidyFails PROVE Kept
  BY <1>19 DEF TidyFails, Done
<1>20. ASSUME CatchFails PROVE Kept
  BY <1>20 DEF CatchFails
<1>21. ASSUME PutBackFails PROVE Kept
  BY <1>21 DEF PutBackFails
<1>22. ASSUME WriterCrash PROVE Kept
  BY <1>22 DEF WriterCrash
<1>23. ASSUME NEW n \in Names, Edit(n) PROVE FALSE
  BY <1>23 DEF Edit
<1> QED
  BY <1>1, <1>2, <1>3, <1>4, <1>5, <1>6, <1>7, <1>8, <1>9, <1>10, <1>11, <1>12, <1>13, <1>14, <1>15, <1>16, <1>17, <1>18, <1>19, <1>20, <1>21, <1>22, <1>23 DEF WriterNext, WriterStep, WriterFaultStep, UserStep

\* Texts of the vault are taken away only where the caller agreed, or where they
\* came in between the last look and the rename.
THEOREM NoTextIsLost == WriterSpec => NothingIsLost
<1>1. WriterInv /\ [WriterNext]_writerVars =>
        [await' # await /\ await # "idle" =>
           \A t \in Texts :
             Held(t) => Held(t)' \/ Agreed(t) \/ late \cap {"move", "putBack"} # {}]_writerVars
  BY StepsKeep DEF Kept
<1> QED
  BY <1>1, WriterInvariance, PTL DEF WriterSpec, NothingIsLost

\* What a step may do to the note.
Replaced ==
  \/ Note' = op.want /\ (Agreed(Note) \/ late # {})
  \/ Note' = Nothing /\ backup' = Note
  \/ Note' = backup /\ "putBack" \in late

LEMMA StepsReplace ==
  ASSUME WriterInv, WriterNext, await' # await, Note' # Note
  PROVE  Replaced
<1> USE NamesApart DEF Replaced, Note, Replacing
<1>1. ASSUME Begin PROVE Replaced
  BY <1>1 DEF Begin, WriterInv, WriterTypeInv, WriterTypeOK, KnownInv, AgreedInv, Preparing, TempComplete, NothingKnown
<1>2. ASSUME OpenTemp PROVE Replaced
  BY <1>2 DEF OpenTemp, WriterInv, WriterTypeInv, WriterTypeOK, KnownInv, AgreedInv, Preparing, TempComplete
<1>3. ASSUME Write PROVE Replaced
  BY <1>3 DEF Write, WriterInv, WriterTypeInv, WriterTypeOK, KnownInv, AgreedInv, Preparing, TempComplete
<1>4. ASSUME Select PROVE Replaced
  BY <1>4, ChoicesAreTyped DEF Select, WriterInv, WriterTypeInv, WriterTypeOK, KnownInv, AgreedInv, Preparing, TempComplete
<1>5. ASSUME Look PROVE Replaced
  BY <1>5 DEF Look, WriterInv, WriterTypeInv, WriterTypeOK, KnownInv, AgreedInv, Preparing, TempComplete
<1>6. ASSUME Reselect PROVE Replaced
  BY <1>6, ChoicesAreTyped DEF Reselect, Refresh, WriterInv, WriterTypeInv, WriterTypeOK, KnownInv, AgreedInv, Preparing, TempComplete
<1>7. ASSUME CheckMove PROVE Replaced
  BY <1>7, ChoicesAreTyped DEF CheckMove, Refresh, WriterInv, WriterTypeInv, WriterTypeOK, KnownInv, AgreedInv, Preparing, TempComplete
<1>8. ASSUME CheckLink PROVE Replaced
  BY <1>8, ChoicesAreTyped DEF CheckLink, Refresh, WriterInv, WriterTypeInv, WriterTypeOK, KnownInv, AgreedInv, Preparing, TempComplete
<1>9. ASSUME NoChoice PROVE Replaced
  BY <1>9 DEF NoChoice, WriterInv, WriterTypeInv, WriterTypeOK, KnownInv, AgreedInv, Preparing, TempComplete
<1>10. ASSUME Move PROVE Replaced
  BY <1>10 DEF Move, WriterInv, WriterTypeInv, WriterTypeOK, KnownInv, AgreedInv, Preparing, TempComplete
<1>11. ASSUME Link PROVE Replaced
  <2>1. CASE disk[sel.at] # Nothing
    BY <1>11, <2>1 DEF Link
  <2>2. CASE disk[sel.at] = Nothing /\ sel.at = "target"
    <3>1. Note' = op.want
      BY <1>11, <2>2 DEF Link, WriterInv, WriterTypeInv, WriterTypeOK, TempComplete, Names
    <3>2. CASE known.backup
      <4>1. Note = backup
        BY <1>11, <2>2, <3>2 DEF Link
      <4>2. Agreed(backup) \/ "move" \in late
        BY <1>11, <3>2 DEF Link, WriterInv, AgreedInv
      <4> QED
        BY <3>1, <4>1, <4>2
    <3>3. CASE ~known.backup
      <4>1. Note = Nothing
        BY <1>11, <2>2, <3>3 DEF Link
      <4>2. Agreed(Nothing) \/ "link" \in late
        BY <1>11, <2>2, <3>3 DEF Link, WriterInv, AgreedInv
      <4> QED
        BY <3>1, <4>1, <4>2
    <3> QED
      BY <3>2, <3>3
  <2>3. CASE disk[sel.at] = Nothing /\ sel.at # "target"
    <3>1. ~known.backup
      BY <1>11, <2>3 DEF Link, WriterInv, AgreedInv
    <3>2. disk'["target"] = disk["target"]
      BY <1>11, <2>3 DEF Link, WriterInv, WriterTypeInv, WriterTypeOK, Names
    <3> QED
      BY <1>11, <3>1, <3>2 DEF Link
  <2> QED
    BY <2>1, <2>2, <2>3
<1>12. ASSUME Unlink PROVE Replaced
  BY <1>12 DEF Unlink, AfterUnlink, Done, End, WriterInv, WriterTypeInv, WriterTypeOK, KnownInv, AgreedInv, Preparing, TempComplete
<1>13. ASSUME Tidy PROVE Replaced
  BY <1>13 DEF Tidy, Done, End, WriterInv, WriterTypeInv, WriterTypeOK, KnownInv, AgreedInv, Preparing, TempComplete
<1>14. ASSUME Catch PROVE Replaced
  BY <1>14 DEF Catch, End, WriterInv, WriterTypeInv, WriterTypeOK, KnownInv, AgreedInv, Preparing, TempComplete
<1>15. ASSUME PutBack PROVE Replaced
  BY <1>15 DEF PutBack, End, WriterInv, WriterTypeInv, WriterTypeOK, KnownInv, AgreedInv, Preparing, TempComplete
<1>16. ASSUME WriterStepFails PROVE Replaced
  BY <1>16 DEF WriterStepFails, Failing, WriterInv, WriterTypeInv, WriterTypeOK, KnownInv, AgreedInv, Preparing, TempComplete
<1>17. ASSUME WriteFails PROVE Replaced
  BY <1>17 DEF WriteFails, WriterInv, WriterTypeInv, WriterTypeOK, KnownInv, AgreedInv, Preparing, TempComplete
<1>18. ASSUME UnlinkFails PROVE Replaced
  BY <1>18 DEF UnlinkFails, AfterUnlink, Done, End, WriterInv, WriterTypeInv, WriterTypeOK, KnownInv, AgreedInv, Preparing, TempComplete
<1>19. ASSUME TidyFails PROVE Replaced
  BY <1>19 DEF TidyFails, Done, End, WriterInv, WriterTypeInv, WriterTypeOK, KnownInv, AgreedInv, Preparing, TempComplete
<1>20. ASSUME CatchFails PROVE Replaced
  BY <1>20 DEF CatchFails, End, WriterInv, WriterTypeInv, WriterTypeOK, KnownInv, AgreedInv, Preparing, TempComplete, NothingKnown
<1>21. ASSUME PutBackFails PROVE Replaced
  BY <1>21 DEF PutBackFails, End, WriterInv, WriterTypeInv, WriterTypeOK, KnownInv, AgreedInv, Preparing, TempComplete
<1>22. ASSUME WriterCrash PROVE Replaced
  BY <1>22 DEF WriterCrash, End, WriterInv, WriterTypeInv, WriterTypeOK, KnownInv, AgreedInv, Preparing, TempComplete, NothingKnown
<1>23. ASSUME NEW n \in Names, Edit(n) PROVE FALSE
  BY <1>23 DEF Edit
<1> QED
  BY <1>1, <1>2, <1>3, <1>4, <1>5, <1>6, <1>7, <1>8, <1>9, <1>10, <1>11, <1>12, <1>13, <1>14, <1>15, <1>16, <1>17, <1>18, <1>19, <1>20, <1>21, <1>22, <1>23 DEF WriterNext, WriterStep, WriterFaultStep, UserStep

\* The target only ever goes from what was agreed to the new text, or aside.
THEOREM ReplacementsAgreed == WriterSpec => ReplacementsAreAgreed
<1>1. WriterInv /\ [WriterNext]_writerVars =>
        [await' # await /\ Note' # Note =>
           \/ Note' = op.want /\ (Agreed(Note) \/ late # {})
           \/ Note' = Nothing /\ backup' = Note
           \/ Note' = backup /\ "putBack" \in late]_writerVars
  BY StepsReplace DEF Replaced
<1> QED
  BY <1>1, WriterInvariance, PTL DEF WriterSpec, ReplacementsAreAgreed
=============================================================================
