------------------------ MODULE QuestionInbox_proofs ------------------------
(***************************************************************************)
(* What holds of QuestionInbox for any questions, wordings, limits and     *)
(* bounds.  Everything rests on Inv: what a poll carries from await to     *)
(* await agrees with the accepted base, and what a publication is about to *)
(* write keeps the answers of that base.                                   *)
(***************************************************************************)
EXTENDS QuestionInbox, TLAPS, FiniteSetTheorems

Polling == {"recount", "mark", "evidence", "next", "ask", "answered"}
Publishing == {"read", "write", "confirm", "append", "conflict", "audit"}

\* The note a poll's writes are pinned to is the accepted one, with the region it has
\* parsed unless a write has gone over something else.
Carried ==
  /\ base \in Generated
  /\ run.parsed \in Note
  /\ run.pin \in Note /\ run.pin.whole /\ run.pin.gen = base
  /\ overrun \/ run.pin.user = run.parsed.user

Marked == Unmarked(run.parsed) = {}
Left == run.batch \subseteq Asked(run.parsed)
InHand == run.question \in Asked(run.parsed)

JobInput ==
  /\ run.pin = NoNote
  /\ base = NoBase => run.input.answers = NoInput.answers
  /\ base # NoBase => run.input.answers = base.answers

CountInput ==
  Carried /\ run.input.answers = base.answers /\ run.input.count # base.count

AnswerInput ==
  /\ Carried /\ Marked /\ Left /\ InHand
  /\ run.question \notin Answered(base)
  /\ run.input = WithAnswer

\* What a task may be about to publish.
Inputs ==
  \/ run.task = "job" /\ JobInput
  \/ run.task = "count" /\ CountInput
  \/ run.task = "answer" /\ AnswerInput

\* What publish has read is the accepted note.
Current ==
  \/ base = NoBase /\ run.cur = NoNote
  \/ base # NoBase /\ run.cur \in Note /\ run.cur.whole /\ run.cur.gen = base

Inv ==
  /\ pc \in Polling => Carried
  /\ pc \in {"evidence", "next", "ask", "answered"} => Marked
  /\ pc \in {"next", "ask", "answered"} => Left
  /\ pc \in {"ask", "answered"} => InHand
  /\ pc \in Publishing => Inputs
  /\ pc \in {"write", "confirm", "append"} => Current
  /\ pc = "confirm" => run.task = "job" /\ base # NoBase
  /\ pc = "append" /\ run.task # "job" /\ ~overrun => run.cur = run.pin
  /\ pc = "commit" => run.task = "job"

IInv == TypeOK /\ Inv

-----------------------------------------------------------------------------
(* What the operators return.                                              *)

LEMMA NoInputTyped == NoInput \in Generated /\ Blank \in [Questions -> Line]
<1>1. Cardinality(Questions) \in Nat
  BY InboxAssumption, FS_CardinalityType
<1> QED BY <1>1, InboxAssumption, SMT DEF NoInput, Generated, Blank, NoLine, Line

LEMMA MergedTyped ==
  ASSUME NEW n \in Note \cup {NoNote}, NEW g \in Generated
  PROVE  /\ Merged(n, g) \in Note
         /\ Merged(n, g).gen = g
         /\ n # NoNote => Merged(n, g).user = n.user /\ Merged(n, g).whole = n.whole
         /\ n = NoNote => Merged(n, g).whole
<1>1. CASE n = NoNote
  <2>1. Merged(n, g) = [gen |-> g, user |-> Blank, whole |-> TRUE]
    BY <1>1 DEF Merged
  <2> QED BY <1>1, <2>1, NoInputTyped DEF Note
<1>2. CASE n # NoNote
  <2>1. n \in Note /\ Merged(n, g) = [n EXCEPT !.gen = g]
    BY <1>2 DEF Merged
  <2> HIDE DEF Merged
  <2> QED BY <1>2, <2>1, SMT DEF Note
<1> QED BY <1>1, <1>2

LEMMA CountTyped ==
  ASSUME NEW n \in Note
  PROVE  QuestionCount(n) \in 0..Cardinality(Questions)
<1>1. Listed(n) \cup Answered(n.gen) \subseteq Questions
  BY DEF Listed, Answered
<1>2. /\ IsFiniteSet(Listed(n) \cup Answered(n.gen))
      /\ Cardinality(Listed(n) \cup Answered(n.gen)) <= Cardinality(Questions)
  BY <1>1, InboxAssumption, FS_Subset
<1> QED BY <1>2, InboxAssumption, FS_CardinalityType, SMT DEF QuestionCount

LEMMA IdsTyped ==
  ASSUME NEW n \in Note
  PROVE  /\ AssignIds(n) \in Note
         /\ AssignIds(n).gen = n.gen /\ AssignIds(n).whole = n.whole
         /\ SameLines(n, AssignIds(n))
<1> DEFINE u == [q \in Questions |->
                  IF q \in Unmarked(n) THEN [wording |-> n.user[q].wording, id |-> TRUE]
                  ELSE n.user[q]]
<1>1. n.user \in [Questions -> Line]
  BY SMT DEF Note
<1>2. \A q \in Questions :
        u[q] \in Line /\ u[q].wording = n.user[q].wording /\ (n.user[q].id => u[q].id)
  <2> SUFFICES ASSUME NEW q \in Questions
               PROVE  /\ u[q] \in Line /\ u[q].wording = n.user[q].wording
                      /\ n.user[q].id => u[q].id
    OBVIOUS
  <2>1. PICK l \in Line : l = n.user[q]
    BY <1>1
  <2>2. u[q] = l \/ u[q] = [wording |-> l.wording, id |-> TRUE]
    BY <2>1
  <2> HIDE DEF u
  <2>3. CASE u[q] = l
    BY <2>1, <2>3
  <2>4. CASE u[q] = [wording |-> l.wording, id |-> TRUE]
    <3>1. l.wording \in Said \cup {"none", "checked"}
      BY DEF Line
    <3> QED BY <2>1, <2>4, <3>1 DEF Line
  <2> QED BY <2>2, <2>3, <2>4
<1>3. u \in [Questions -> Line]
  BY <1>2
<1>4. AssignIds(n) = [n EXCEPT !.user = u]
  BY DEF AssignIds
<1> HIDE DEF u
<1>5. /\ AssignIds(n) \in Note /\ AssignIds(n).user = u
      /\ AssignIds(n).gen = n.gen /\ AssignIds(n).whole = n.whole
  BY <1>3, <1>4, SMT DEF Note
<1> QED BY <1>2, <1>5, NoValues DEF SameLines

LEMMA AnswerTyped ==
  ASSUME base \in Generated, run.parsed \in Note, InHand
  PROVE  /\ WithAnswer \in Generated
         /\ WithAnswer.answers[run.question] = run.parsed.user[run.question].wording
         /\ WithAnswer.answers[run.question] # "none"
         /\ \A q \in Questions \ {run.question} : WithAnswer.answers[q] = base.answers[q]
<1> DEFINE w == run.parsed.user[run.question].wording
           a == [base.answers EXCEPT ![run.question] = w]
<1>1. run.question \in Questions /\ w \in Said
  BY DEF InHand, Asked
<1>2. "none" \notin Said
  BY InboxAssumption DEF Said
<1>3. base.answers \in [Questions -> Said \cup {"none"}]
  BY SMT DEF Generated
<1>4. WithAnswer = [base EXCEPT !.answers = a]
  BY SMT DEF WithAnswer, Generated
<1> HIDE DEF w
<1>5. /\ a \in [Questions -> Said \cup {"none"}] /\ a[run.question] = w
      /\ \A q \in Questions \ {run.question} : a[q] = base.answers[q]
  BY <1>1, <1>3, SMT
<1> HIDE DEF a
<1>6. WithAnswer \in Generated /\ WithAnswer.answers = a
  BY <1>4, <1>5, SMT DEF Generated
<1> QED BY <1>1, <1>2, <1>5, <1>6 DEF w

LEMMA BatchTyped ==
  ASSUME NEW from
  PROVE  /\ BatchFrom(from) \subseteq Asked(run.parsed)
         /\ BatchFrom(from) \subseteq Questions
         /\ Cardinality(BatchFrom(from)) \in Nat
         /\ Cardinality(Pending) \in Nat /\ (Pending # {} => Cardinality(Pending) # 0)
<1>1. Pending \subseteq Questions /\ Pending \subseteq Asked(run.parsed)
  BY DEF Pending, Asked
<1>2. BatchFrom(from) \subseteq Pending
  BY DEF BatchFrom
<1>3. IsFiniteSet(Pending) /\ IsFiniteSet(BatchFrom(from))
  BY <1>1, <1>2, InboxAssumption, FS_Subset
<1> QED BY <1>1, <1>2, <1>3, FS_CardinalityType, FS_EmptySet

-----------------------------------------------------------------------------
(* The invariant.                                                          *)

LEMMA RunTyped == NoRun \in Run
BY NoInputTyped DEF NoRun, Run

Tasks == {"none", "job", "poll", "count", "answer"}

\* One field at a time, and together.
LEMMA RunFields ==
  ASSUME NEW r \in Run
  PROVE  /\ \A t \in Tasks : [r EXCEPT !.task = t] \in Run
         /\ \A n \in Note \cup {NoNote} : [r EXCEPT !.cur = n] \in Run
         /\ \A g \in Generated : [r EXCEPT !.input = g] \in Run
         /\ \A n \in Note \cup {NoNote} : [r EXCEPT !.parsed = n] \in Run
         /\ \A n \in Note \cup {NoNote} : [r EXCEPT !.pin = n] \in Run
         /\ \A b \in SUBSET Questions : [r EXCEPT !.batch = b] \in Run
         /\ \A q \in Questions : [r EXCEPT !.question = q] \in Run
<1>1. \A t \in Tasks : [r EXCEPT !.task = t] \in Run
  BY SMT DEF Run, Tasks
<1>2. \A g \in Generated : [r EXCEPT !.input = g] \in Run
  BY SMT DEF Run
<1>3. \A n \in Note \cup {NoNote} : [r EXCEPT !.parsed = n] \in Run
  BY SMT DEF Run
<1>4. \A n \in Note \cup {NoNote} : [r EXCEPT !.pin = n] \in Run
  BY SMT DEF Run
<1>5. \A b \in SUBSET Questions : [r EXCEPT !.batch = b] \in Run
  BY SMT DEF Run
<1>6. \A q \in Questions : [r EXCEPT !.question = q] \in Run
  BY SMT DEF Run
<1>7. \A n \in Note \cup {NoNote} : [r EXCEPT !.cur = n] \in Run
  BY SMT DEF Run
<1> QED BY <1>1, <1>2, <1>3, <1>4, <1>5, <1>6, <1>7

LEMMA RunJob ==
  ASSUME NEW r \in Run, NEW t \in Tasks, NEW g \in Generated
  PROVE  [r EXCEPT !.task = t, !.input = g] \in Run
<1>1. [r EXCEPT !.task = t, !.input = g] = [[r EXCEPT !.task = t] EXCEPT !.input = g]
  OBVIOUS
<1>2. [r EXCEPT !.task = t] \in Run
  BY RunFields
<1> QED BY <1>1, <1>2, RunFields

LEMMA RunNext ==
  ASSUME NEW r \in Run, NEW t \in Tasks, NEW p \in Note \cup {NoNote}
  PROVE  [r EXCEPT !.task = t, !.pin = p] \in Run
<1>1. [r EXCEPT !.task = t, !.pin = p] = [[r EXCEPT !.task = t] EXCEPT !.pin = p]
  OBVIOUS
<1>2. [r EXCEPT !.task = t] \in Run
  BY RunFields
<1> QED BY <1>1, <1>2, RunFields

LEMMA RunCounted ==
  ASSUME NEW r \in Run, NEW t \in Tasks, NEW n \in Note \cup {NoNote},
         NEW p \in Note \cup {NoNote}
  PROVE  [r EXCEPT !.task = t, !.parsed = n, !.pin = p] \in Run
<1>1. [r EXCEPT !.task = t, !.parsed = n, !.pin = p]
        = [[[r EXCEPT !.task = t] EXCEPT !.parsed = n] EXCEPT !.pin = p]
  OBVIOUS
<1>2. [r EXCEPT !.task = t] \in Run
  BY RunFields
<1>3. [[r EXCEPT !.task = t] EXCEPT !.parsed = n] \in Run
  BY <1>2, RunFields
<1> QED BY <1>1, <1>3, RunFields

LEMMA RunPublish ==
  ASSUME NEW r \in Run, NEW t \in Tasks, NEW g \in Generated,
         NEW n \in Note \cup {NoNote}, NEW p \in Note \cup {NoNote}
  PROVE  [r EXCEPT !.task = t, !.input = g, !.parsed = n, !.pin = p] \in Run
<1>1. [r EXCEPT !.task = t, !.input = g, !.parsed = n, !.pin = p]
        = [[[[r EXCEPT !.task = t] EXCEPT !.input = g] EXCEPT !.parsed = n] EXCEPT !.pin = p]
  OBVIOUS
<1>2. [r EXCEPT !.task = t] \in Run
  BY RunFields
<1>3. [[r EXCEPT !.task = t] EXCEPT !.input = g] \in Run
  BY <1>2, RunFields
<1>4. [[[r EXCEPT !.task = t] EXCEPT !.input = g] EXCEPT !.parsed = n] \in Run
  BY <1>3, RunFields
<1> QED BY <1>1, <1>4, RunFields

LEMMA RunTurn ==
  ASSUME NEW r \in Run, NEW b \in SUBSET Questions, NEW q \in Questions
  PROVE  [r EXCEPT !.batch = b, !.question = q] \in Run
<1>1. [r EXCEPT !.batch = b, !.question = q] = [[r EXCEPT !.batch = b] EXCEPT !.question = q]
  OBVIOUS
<1>2. [r EXCEPT !.batch = b] \in Run
  BY RunFields
<1> QED BY <1>1, <1>2, RunFields

LEMMA IInvInit == Init => IInv
<1> SUFFICES ASSUME Init PROVE IInv
  OBVIOUS
<1>1. TypeOK
  <2>1. 0 \in 0..MaxEdits /\ 0 \in 0..MaxFaults /\ 0 \in Nat
    BY InboxAssumption, SMT
  <2> QED BY <2>1, RunTyped DEF Init, TypeOK, PCs
<1>2. Inv
  BY DEF Init, Inv, Polling, Publishing
<1> QED BY <1>1, <1>2 DEF IInv

\* The variables other than pc and run keep their types.
RestTyped ==
  /\ file \in Note \cup {NoNote} /\ base \in Generated \cup {NoBase}
  /\ committed \in BOOLEAN /\ disturbed \in BOOLEAN /\ overrun \in BOOLEAN
  /\ observed \in Note \cup {NoNote} /\ offset \in Nat
  /\ edits \in 0..MaxEdits /\ faults \in 0..MaxFaults

LEMMA EndKeeps ==
  ASSUME RestTyped', End
  PROVE  IInv'
<1>1. TypeOK'
  BY RunTyped DEF RestTyped, End, TypeOK, PCs
<1>2. Inv'
  BY DEF End, Inv, Polling, Publishing
<1> QED BY <1>1, <1>2 DEF IInv

LEMMA NextQuestionKeeps ==
  ASSUME NEW pin \in Note, pin.whole, pin.gen = base', base' \in Generated,
         run \in Run, run.parsed \in Note, overrun' \/ pin.user = run.parsed.user,
         Marked, Left, RestTyped', NextQuestion(pin)
  PROVE  IInv'
<1>0. run' \in Run
  BY RunNext DEF NextQuestion, Tasks
<1>1. /\ run'.parsed = run.parsed /\ run'.pin = pin /\ run'.batch = run.batch
      /\ pc' = "next"
  BY SMT DEF NextQuestion, Run
<1>2. TypeOK'
  BY <1>0, <1>1 DEF RestTyped, TypeOK, PCs
<1>3. Carried'
  BY <1>1 DEF Carried
<1>4. Marked' /\ Left'
  BY <1>1 DEF Marked, Left
<1>5. Inv'
  BY <1>1, <1>3, <1>4 DEF Inv, Publishing
<1> QED BY <1>2, <1>5 DEF IInv

-----------------------------------------------------------------------------
(* A poll.                                                                 *)

LEMMA PollKeeps == IInv /\ Poll => IInv'
<1> SUFFICES ASSUME IInv, Poll PROVE IInv'
  OBVIOUS
<1>1. run' \in Run /\ pc' = "look"
  BY RunTyped, SMT DEF Poll, Run
<1>2. TypeOK'
  BY <1>1 DEF IInv, TypeOK, Poll, bounds, PCs
<1>3. Inv'
  BY <1>1 DEF Inv, Polling, Publishing
<1> QED BY <1>2, <1>3 DEF IInv

LEMMA LookKeeps == IInv /\ Look => IInv'
<1> SUFFICES ASSUME IInv, Look PROVE IInv'
  OBVIOUS
<1>1. /\ RestTyped /\ run \in Run /\ pc = "look"
      /\ UNCHANGED <<file, base, committed, offset, disturbed, overrun, edits, faults>>
  BY DEF IInv, TypeOK, RestTyped, Look, bounds
<1>2. CASE ~committed \/ Conflicting(base, file)
  <2>1. Forget
    BY <1>2 DEF Look
  <2> QED BY <1>1, <2>1, EndKeeps DEF Forget, RestTyped
<1>3. CASE ~(~committed \/ Conflicting(base, file)) /\ observed # file
  <2>1. observed' = file /\ End
    BY <1>3 DEF Look
  <2> QED BY <1>1, <2>1, EndKeeps DEF RestTyped
<1>4. CASE ~(~committed \/ Conflicting(base, file)) /\ observed = file
  <2>1. /\ file \in Note /\ file.whole /\ file.gen = base /\ base \in Generated
        /\ observed' = file /\ RestTyped'
    <3>1. file \in Note /\ file.whole /\ file.gen = base
      BY <1>1, <1>4 DEF Conflicting, RestTyped
    <3>2. file.gen \in Generated
      BY <3>1, SMT DEF Note
    <3>3. observed' = file
      BY <1>4 DEF Look
    <3> QED BY <1>1, <3>1, <3>2, <3>3 DEF RestTyped
  <2>2. CASE QuestionCount(file) # base.count
    <3> DEFINE g == [base EXCEPT !.count = QuestionCount(file)]
    <3>1. Publish("count", g, file, file)
      BY <1>4, <2>2 DEF Look
    <3>2. g \in Generated /\ g.answers = base.answers /\ g.count # base.count
      BY <2>1, <2>2, CountTyped, SMT DEF Generated
    <3> HIDE DEF g
    <3>3. run' \in Run
      BY <1>1, <2>1, <3>1, <3>2, RunPublish DEF Publish, Tasks
    <3>6. /\ run'.task = "count" /\ run'.input = g
          /\ run'.parsed = file /\ run'.pin = file /\ pc' = "read"
      BY <1>1, <3>1, SMT DEF Publish, Run
    <3>4. TypeOK'
      BY <2>1, <3>3, <3>6 DEF TypeOK, RestTyped, PCs
    <3>5. CountInput'
      BY <1>1, <2>1, <3>2, <3>6 DEF CountInput, Carried
    <3> QED BY <3>4, <3>5, <3>6 DEF IInv, Inv, Inputs, Polling
  <2>3. CASE QuestionCount(file) = base.count
    <3>1. AfterCount(file, file)
      BY <1>4, <2>3 DEF Look
    <3>5. run' \in Run
      BY <1>1, <2>1, <3>1, RunCounted DEF AfterCount, Tasks
    <3>2. /\ run'.parsed = file /\ run'.pin = file
          /\ pc' = "mark" \/ (pc' = "evidence" /\ Unmarked(file) = {})
      BY <1>1, <3>1, SMT DEF AfterCount, Run
    <3>3. TypeOK'
      BY <2>1, <3>2, <3>5 DEF TypeOK, RestTyped, PCs
    <3>4. Carried' /\ (pc' = "evidence" => Marked')
      BY <1>1, <2>1, <3>2 DEF Carried, Marked
    <3> QED BY <3>2, <3>3, <3>4 DEF IInv, Inv, Publishing
  <2> QED BY <2>2, <2>3
<1> QED BY <1>2, <1>3, <1>4

LEMMA RecountKeeps == IInv /\ Recount => IInv'
<1> SUFFICES ASSUME IInv, Recount PROVE IInv'
  OBVIOUS
<1>1. /\ RestTyped /\ run \in Run /\ pc = "recount" /\ Carried
      /\ UNCHANGED <<file, base, committed, offset, disturbed, overrun, edits, faults>>
  BY DEF IInv, Inv, Polling, TypeOK, RestTyped, Recount, bounds
<1>2. CASE file # run.pin
  <2>1. observed' = observed /\ End
    BY <1>2 DEF Recount
  <2> QED BY <1>1, <2>1, EndKeeps DEF RestTyped
<1>3. CASE file = run.pin
  <2>1. observed' = file /\ AfterCount(run.parsed, file)
    BY <1>3 DEF Recount
  <2>5. run' \in Run
    BY <1>1, <1>3, <2>1, RunCounted DEF AfterCount, Tasks, Carried
  <2>2. /\ run'.parsed = run.parsed /\ run'.pin = run.pin
        /\ pc' = "mark" \/ (pc' = "evidence" /\ Unmarked(run.parsed) = {})
    BY <1>1, <1>3, <2>1, SMT DEF AfterCount, Run
  <2>3. TypeOK'
    BY <1>1, <2>1, <2>2, <2>5 DEF TypeOK, RestTyped, PCs
  <2>4. Carried' /\ (pc' = "evidence" => Marked')
    BY <1>1, <2>2 DEF Carried, Marked
  <2> QED BY <2>2, <2>3, <2>4 DEF IInv, Inv, Publishing
<1> QED BY <1>2, <1>3

LEMMA MarkKeeps == IInv /\ Mark => IInv'
<1> SUFFICES ASSUME IInv, Mark PROVE IInv'
  OBVIOUS
<1>1. /\ RestTyped /\ run \in Run /\ Carried
      /\ UNCHANGED <<base, committed, offset, disturbed, overrun, edits, faults>>
  BY DEF IInv, Inv, Polling, TypeOK, RestTyped, Mark, bounds
<1>2. file' \in Note \cup {NoNote}
  BY <1>1, IdsTyped DEF Mark, RestTyped, Carried
<1> QED BY <1>1, <1>2, EndKeeps DEF Mark, Forget, RestTyped

LEMMA EvidenceKeeps == IInv /\ Evidence => IInv'
<1> SUFFICES ASSUME IInv, Evidence PROVE IInv'
  OBVIOUS
<1> DEFINE from == IF Pending = {} THEN 0 ELSE offset % Cardinality(Pending)
<1>1. /\ RestTyped /\ run \in Run /\ Carried /\ Marked /\ pc' = "next"
      /\ run' = [run EXCEPT !.batch = BatchFrom(from)]
      /\ offset' = from + Cardinality(BatchFrom(from))
      /\ UNCHANGED <<file, base, committed, observed, disturbed, overrun, edits, faults>>
  BY DEF IInv, Inv, Polling, TypeOK, RestTyped, Evidence, bounds
<1>2. from \in Nat
  BY <1>1, BatchTyped, SMT DEF RestTyped
<1>3. /\ BatchFrom(from) \subseteq Asked(run.parsed) /\ BatchFrom(from) \subseteq Questions
      /\ Cardinality(BatchFrom(from)) \in Nat
  BY BatchTyped
<1> HIDE DEF from
<1>4. offset' \in Nat
  BY <1>1, <1>2, <1>3, SMT
<1>5. /\ run' \in Run /\ run'.batch = BatchFrom(from)
      /\ run'.parsed = run.parsed /\ run'.pin = run.pin
  BY <1>1, <1>3, SMT DEF Run
<1>6. TypeOK'
  BY <1>1, <1>4, <1>5 DEF TypeOK, RestTyped, PCs
<1>7. Carried' /\ Marked' /\ Left'
  BY <1>1, <1>3, <1>5 DEF Carried, Marked, Left
<1> QED BY <1>1, <1>6, <1>7 DEF IInv, Inv, Publishing

LEMMA TurnKeeps == IInv /\ Turn => IInv'
<1> SUFFICES ASSUME IInv, Turn PROVE IInv'
  OBVIOUS
<1>1. /\ RestTyped /\ run \in Run /\ Carried /\ Marked /\ Left
      /\ UNCHANGED <<file, base, committed, offset, disturbed, overrun, edits, faults>>
  BY DEF IInv, Inv, Polling, TypeOK, RestTyped, Turn, bounds
<1>2. CASE End /\ observed' \in {run.pin, NoNote, observed}
  <2>1. observed' \in Note \cup {NoNote}
    BY <1>1, <1>2 DEF Carried, RestTyped
  <2> QED BY <1>1, <1>2, <2>1, EndKeeps DEF RestTyped
<1>3. CASE \E q \in run.batch :
              /\ pc' = "ask" /\ observed' = observed
              /\ run' = [run EXCEPT !.batch = @ \ {q}, !.question = q]
  <2>1. PICK q \in run.batch :
          /\ pc' = "ask" /\ observed' = observed
          /\ run' = [run EXCEPT !.batch = run.batch \ {q}, !.question = q]
    BY <1>3
  <2>6. run.batch \in SUBSET Questions
    BY <1>1, SMT DEF Run
  <2>7. run' \in Run
    BY <1>1, <2>1, <2>6, RunTurn
  <2>2. /\ run'.batch = run.batch \ {q} /\ run'.question = q
        /\ run'.parsed = run.parsed /\ run'.pin = run.pin
    BY <1>1, <2>1, SMT DEF Run
  <2>3. TypeOK'
    BY <1>1, <2>1, <2>7 DEF TypeOK, RestTyped, PCs
  <2>4. Carried' /\ Marked'
    BY <1>1, <2>2 DEF Carried, Marked
  <2>5. Left' /\ InHand'
    BY <1>1, <2>1, <2>2 DEF Left, InHand
  <2> QED BY <2>1, <2>3, <2>4, <2>5 DEF IInv, Inv, Publishing
<1>4. QED BY <1>2, <1>3 DEF Turn, Forget

LEMMA AskKeeps == IInv /\ Ask => IInv'
<1> SUFFICES ASSUME IInv, Ask PROVE IInv'
  OBVIOUS
<1>1. TypeOK'
  BY SMT DEF IInv, TypeOK, Ask, bounds, PCs
<1>2. Inv'
  BY SMT DEF IInv, Inv, Ask, Polling, Publishing, Carried, Marked, Left, InHand
<1> QED BY <1>1, <1>2 DEF IInv

LEMMA AskFailsKeeps == IInv /\ AskFails => IInv'
<1> SUFFICES ASSUME IInv, AskFails PROVE IInv'
  OBVIOUS
<1>1. /\ RestTyped' /\ run \in Run /\ Carried /\ Marked /\ Left
      /\ base' = base /\ overrun' = overrun /\ NextQuestion(run.pin)
  BY DEF IInv, Inv, Polling, TypeOK, RestTyped, AskFails, bounds
<1> QED BY <1>1, NextQuestionKeeps DEF Carried

LEMMA AnswerKeeps == IInv /\ Answer => IInv'
<1> SUFFICES ASSUME IInv, Answer PROVE IInv'
  OBVIOUS
<1>1. /\ RestTyped /\ run \in Run /\ Carried /\ Marked /\ Left /\ InHand
      /\ UNCHANGED <<file, base, committed, offset, disturbed, overrun, edits, faults>>
  BY DEF IInv, Inv, Polling, TypeOK, RestTyped, Answer, bounds
<1>2. CASE End /\ observed' \in {NoNote, observed}
  BY <1>1, <1>2, EndKeeps DEF RestTyped
<1>3. CASE /\ observed' = observed /\ run.question \notin Answered(base)
           /\ Publish("answer", WithAnswer, run.parsed, run.pin)
  <2>1. WithAnswer \in Generated
    BY <1>1, AnswerTyped DEF Carried
  <2>6. run' \in Run
    BY <1>1, <1>3, <2>1, RunPublish DEF Publish, Tasks, Carried
  <2> DEFINE g == WithAnswer
  <2>7. Publish("answer", g, run.parsed, run.pin)
    BY <1>3
  <2> HIDE DEF g
  <2>8. /\ run'.task = "answer" /\ run'.input = g
        /\ run'.parsed = run.parsed /\ run'.pin = run.pin /\ run'.batch = run.batch
        /\ run'.question = run.question /\ pc' = "read"
    BY <1>1, <2>7, SMT DEF Publish, Run
  <2>2. /\ run'.task = "answer" /\ run'.input = WithAnswer
        /\ run'.parsed = run.parsed /\ run'.pin = run.pin /\ run'.batch = run.batch
        /\ run'.question = run.question /\ pc' = "read"
    BY <2>8 DEF g
  <2>3. TypeOK'
    BY <1>1, <1>3, <2>2, <2>6 DEF TypeOK, RestTyped, PCs
  <2>4. Carried' /\ Marked' /\ Left' /\ InHand'
    BY <1>1, <2>2 DEF Carried, Marked, Left, InHand
  <2>5. AnswerInput'
    BY <1>1, <1>3, <2>2, <2>4 DEF AnswerInput, WithAnswer
  <2> QED BY <2>2, <2>3, <2>5 DEF IInv, Inv, Inputs, Polling
<1> QED BY <1>2, <1>3 DEF Answer, Forget

-----------------------------------------------------------------------------
(* A publication.                                                          *)

LEMMA InputsKeep ==
  ASSUME Inputs, base' = base, overrun => overrun',
         run'.task = run.task, run'.input = run.input, run'.parsed = run.parsed,
         run'.pin = run.pin, run'.batch = run.batch, run'.question = run.question
  PROVE  Inputs'
<1>1. Carried => Carried'
  BY DEF Carried
<1>2. CASE run.task = "job" /\ JobInput
  BY <1>2 DEF JobInput, Inputs
<1>3. CASE run.task = "count" /\ CountInput
  BY <1>1, <1>3 DEF CountInput, Inputs
<1>4. CASE run.task = "answer" /\ AnswerInput
  <2>1. Marked' /\ Left' /\ InHand' /\ WithAnswer' = WithAnswer
    BY <1>4 DEF AnswerInput, Marked, Left, InHand, WithAnswer
  <2> QED BY <1>1, <1>4, <2>1 DEF AnswerInput, Inputs
<1> QED BY <1>2, <1>3, <1>4 DEF Inputs

LEMMA PublicationKeeps == IInv /\ Publication => IInv'
<1> SUFFICES ASSUME IInv, Publication PROVE IInv'
  OBVIOUS
<1>1. /\ RestTyped /\ pc' = "read"
      /\ UNCHANGED <<file, base, committed, observed, offset, disturbed, overrun, edits, faults>>
  BY DEF IInv, TypeOK, RestTyped, Publication, bounds
<1>2. PICK t \in 1..MaxPublications :
        run' = [NoRun EXCEPT !.task = "job",
                  !.input = IF base = NoBase THEN [NoInput EXCEPT !.text = t]
                            ELSE [base EXCEPT !.text = t]]
  BY DEF Publication
<1>3. PICK g : /\ g = IF base = NoBase THEN [NoInput EXCEPT !.text = t]
                       ELSE [base EXCEPT !.text = t]
               /\ run' = [NoRun EXCEPT !.task = "job", !.input = g]
  BY <1>2
<1>4. /\ g \in Generated
      /\ g.answers = IF base = NoBase THEN NoInput.answers ELSE base.answers
  <2>0. t \in 0..MaxPublications
    BY InboxAssumption, SMT
  <2>1. \A b \in Generated : /\ [b EXCEPT !.text = t] \in Generated
                             /\ [b EXCEPT !.text = t].answers = b.answers
    BY <2>0, SMT DEF Generated
  <2> QED BY <1>1, <1>3, <2>1, NoInputTyped DEF RestTyped
<1>5. run' \in Run
  BY <1>3, <1>4, RunTyped, RunJob DEF Tasks
<1>6. run'.task = "job" /\ run'.input = g /\ run'.pin = NoNote
  BY <1>3, SMT DEF NoRun
<1>7. TypeOK'
  BY <1>1, <1>5 DEF TypeOK, RestTyped, PCs
<1>8. JobInput'
  <2>1. NoInput' = NoInput
    BY DEF NoInput
  <2> QED BY <1>1, <1>4, <1>6, <2>1 DEF JobInput
<1> QED BY <1>1, <1>6, <1>7, <1>8 DEF IInv, Inv, Inputs, Polling

LEMMA ReadKeeps == IInv /\ Read => IInv'
<1> SUFFICES ASSUME IInv, Read PROVE IInv'
  OBVIOUS
<1>1. /\ RestTyped /\ run \in Run /\ Inputs
      /\ UNCHANGED <<file, base, committed, observed, offset, disturbed, overrun, edits, faults>>
  BY DEF IInv, Inv, Publishing, TypeOK, RestTyped, Read, bounds
<1>2. /\ run' = [run EXCEPT !.cur = file]
      /\ pc' = IF base = NoBase THEN (IF file = NoNote THEN "write" ELSE "conflict")
               ELSE IF Conflicting(base, file) THEN "conflict"
               ELSE IF Merged(file, run.input) = file THEN "confirm" ELSE "write"
  BY DEF Read
<1>3. run' \in Run
  BY <1>1, <1>2, RunFields DEF RestTyped
<1>4. /\ run'.task = run.task /\ run'.input = run.input /\ run'.parsed = run.parsed
      /\ run'.pin = run.pin /\ run'.batch = run.batch /\ run'.question = run.question
      /\ run'.cur = file
  BY <1>1, <1>2, SMT DEF Run
<1>5. TypeOK'
  BY <1>1, <1>2, <1>3 DEF TypeOK, RestTyped, PCs
<1>6. Inputs'
  BY <1>1, <1>4, InputsKeep
<1>7. pc' \in {"write", "confirm"} => Current'
  BY <1>1, <1>2, <1>4 DEF Current, Conflicting, RestTyped
<1>8. ASSUME pc' = "confirm" PROVE run'.task = "job" /\ base' # NoBase
  <2>1. /\ base # NoBase /\ file \in Note /\ file.gen = base
        /\ Merged(file, run.input) = file
    BY <1>1, <1>2, <1>8 DEF Conflicting, RestTyped
  <2>2. run.input \in Generated
    BY <1>1, SMT DEF Run
  <2>3. run.input = base
    BY <2>1, <2>2, MergedTyped
  <2>4. ~CountInput
    BY <2>3 DEF CountInput
  <2>5. ~AnswerInput
    BY <2>3, AnswerTyped DEF AnswerInput, Carried, Answered, InHand, Asked
  <2> QED BY <1>1, <1>4, <2>1, <2>4, <2>5 DEF Inputs
<1>9. pc' \in {"write", "confirm", "conflict"}
  BY <1>2
<1> QED BY <1>5, <1>6, <1>7, <1>8, <1>9 DEF IInv, Inv, Polling

LEMMA WriteKeeps == IInv /\ Write => IInv'
<1> SUFFICES ASSUME IInv, Write PROVE IInv'
  OBVIOUS
<1>1. /\ RestTyped /\ run \in Run /\ Inputs /\ Current /\ pc = "write"
      /\ UNCHANGED <<base, committed, observed, offset, run, disturbed, edits, faults>>
  BY DEF IInv, Inv, Publishing, TypeOK, RestTyped, Write, bounds
<1>2. CASE file # Expected
  <2>1. UNCHANGED <<file, overrun>> /\ pc' = "audit"
    BY <1>2 DEF Write
  <2>2. TypeOK'
    BY <1>1, <2>1 DEF TypeOK, RestTyped, PCs
  <2>3. Inputs'
    BY <1>1, <2>1, InputsKeep
  <2> QED BY <2>1, <2>2, <2>3 DEF IInv, Inv, Polling
<1>3. CASE file = Expected
  <2>1. /\ file' = Merged(run.cur, run.input) /\ pc' = "append"
        /\ overrun' = (overrun \/ run.cur # file)
    BY <1>3 DEF Write
  <2>2. run.cur \in Note \cup {NoNote} /\ run.input \in Generated
    BY <1>1, SMT DEF Run
  <2>3. file' \in Note
    BY <2>1, <2>2, MergedTyped
  <2>4. overrun' \in BOOLEAN
    BY <2>1
  <2>5. TypeOK'
    BY <1>1, <2>1, <2>3, <2>4 DEF TypeOK, RestTyped, PCs
  <2>6. Inputs'
    BY <1>1, <2>1, InputsKeep
  <2>7. Current'
    BY <1>1 DEF Current
  <2>8. run.task # "job" /\ ~overrun' => run.cur = run.pin
    <3>1. run.task # "job" => run.pin # NoNote
      BY <1>1, NoValues DEF Inputs, CountInput, AnswerInput, Carried
    <3> QED BY <1>3, <2>1, <3>1 DEF Expected
  <2> QED BY <1>1, <2>1, <2>5, <2>6, <2>7, <2>8 DEF IInv, Inv, Polling
<1> QED BY <1>2, <1>3

LEMMA ConfirmKeeps == IInv /\ Confirm => IInv'
<1> SUFFICES ASSUME IInv, Confirm PROVE IInv'
  OBVIOUS
<1>1. /\ TypeOK /\ Inputs /\ Current /\ run.task = "job" /\ pc' \in {"append", "conflict"}
      /\ UNCHANGED <<file, base, committed, observed, offset, run, disturbed, overrun, edits, faults>>
  BY DEF IInv, Inv, Publishing, Confirm, bounds
<1>2. TypeOK'
  BY <1>1 DEF TypeOK, PCs
<1>3. Inputs'
  BY <1>1, InputsKeep
<1>4. Current'
  BY <1>1 DEF Current
<1> QED BY <1>1, <1>2, <1>3, <1>4 DEF IInv, Inv, Polling

LEMMA AcceptKeeps == IInv /\ Accept => IInv'
<1> SUFFICES ASSUME IInv, Accept PROVE IInv'
  OBVIOUS
<1>1. /\ RestTyped /\ run \in Run /\ Inputs /\ Current /\ base' = run.input
      /\ run.task # "job" /\ ~overrun => run.cur = run.pin
      /\ UNCHANGED <<file, committed, observed, offset, disturbed, overrun, edits, faults>>
  BY DEF IInv, Inv, Publishing, TypeOK, RestTyped, Accept, bounds
<1>2. run.cur \in Note \cup {NoNote} /\ run.input \in Generated
  BY <1>1, SMT DEF Run
<1>3. RestTyped'
  BY <1>1, <1>2 DEF RestTyped
<1>4. CASE run.task = "job" /\ pc' = "commit" /\ run' = run
  <2>1. TypeOK'
    BY <1>1, <1>3, <1>4 DEF TypeOK, RestTyped, PCs
  <2> QED BY <1>4, <2>1 DEF IInv, Inv, Polling, Publishing
<1> DEFINE n == Merged(run.cur, run.input)
<1>5. ASSUME Carried, run.task # "job"
      PROVE  /\ n \in Note /\ n.whole /\ n.gen = base' /\ base' \in Generated
             /\ overrun' \/ n.user = run.parsed.user
  <2>1. run.cur \in Note /\ run.cur # NoNote /\ run.cur.whole
    BY <1>1, <1>5, NoValues DEF Current, Carried
  <2> QED BY <1>1, <1>2, <1>5, <2>1, MergedTyped DEF Carried
<1>6. CASE /\ run.task = "count" /\ pc' = "recount"
           /\ run' = [run EXCEPT !.task = "poll", !.pin = n]
  <2>1. Carried
    BY <1>1, <1>6 DEF Inputs, CountInput
  <2> HIDE DEF n
  <2>2. run' \in Run
    BY <1>1, <1>5, <1>6, <2>1, RunNext DEF Tasks
  <2>3. run'.parsed = run.parsed /\ run'.pin = n
    BY <1>1, <1>6, SMT DEF Run
  <2>4. TypeOK'
    BY <1>3, <1>6, <2>2 DEF TypeOK, RestTyped, PCs
  <2>5. Carried'
    BY <1>5, <1>6, <2>1, <2>3 DEF Carried
  <2> QED BY <1>6, <2>4, <2>5 DEF IInv, Inv, Publishing
<1>7. CASE run.task = "answer" /\ NextQuestion(n)
  <2>1. Carried /\ Marked /\ Left
    BY <1>1, <1>7 DEF Inputs, AnswerInput
  <2> HIDE DEF n
  <2>2. run.parsed \in Note
    BY <2>1 DEF Carried
  <2> QED BY <1>1, <1>3, <1>5, <1>7, <2>1, <2>2, NextQuestionKeeps
<1> QED BY <1>4, <1>6, <1>7 DEF Accept

LEMMA CommitKeeps == IInv /\ Commit => IInv'
BY EndKeeps DEF IInv, TypeOK, RestTyped, Commit, bounds

LEMMA ConflictKeeps == IInv /\ Conflict => IInv'
<1> SUFFICES ASSUME IInv, Conflict PROVE IInv'
  OBVIOUS
<1>1. /\ TypeOK /\ Inputs /\ pc' = "audit"
      /\ UNCHANGED <<file, base, committed, observed, offset, run, disturbed, overrun, edits, faults>>
  BY DEF IInv, Inv, Publishing, Conflict, bounds
<1>2. TypeOK'
  BY <1>1 DEF TypeOK, PCs
<1>3. Inputs'
  BY <1>1, InputsKeep
<1> QED BY <1>1, <1>2, <1>3 DEF IInv, Inv, Polling

LEMMA AuditKeeps == IInv /\ Audit => IInv'
BY EndKeeps DEF IInv, TypeOK, RestTyped, Audit, Forget, End, bounds

-----------------------------------------------------------------------------
(* Failures and the user.                                                  *)

LEMMA FaultTyped ==
  ASSUME RestTyped, Fault
  PROVE  faults' \in 0..MaxFaults /\ edits' \in 0..MaxEdits
BY InboxAssumption, SMT DEF RestTyped, Fault

LEMMA PublishFailsKeeps == IInv /\ PublishFails => IInv'
<1> SUFFICES ASSUME IInv, PublishFails PROVE IInv'
  OBVIOUS
<1>1. /\ RestTyped /\ run \in Run
      /\ pc \in Publishing \cup {"commit"} /\ (pc \in Publishing => Inputs)
      /\ UNCHANGED <<file, base, committed, offset, overrun>>
  BY DEF IInv, Inv, TypeOK, RestTyped, PublishFails, Publishing
<1>2. /\ faults' \in 0..MaxFaults /\ edits' \in 0..MaxEdits
      /\ disturbed' = (disturbed \/ pc = "append")
  BY <1>1, FaultTyped DEF PublishFails, Unaccepted
<1>3. disturbed' \in BOOLEAN
  BY <1>2
<1>4. CASE End /\ observed' \in {NoNote, observed}
  BY <1>1, <1>2, <1>3, <1>4, EndKeeps DEF RestTyped
<1>5. CASE run.task = "answer" /\ pc \in Publishing /\ observed' = observed /\ NextQuestion(run.pin)
  <2>1. Carried /\ Marked /\ Left
    BY <1>1, <1>5 DEF Inputs, AnswerInput
  <2>2. RestTyped'
    BY <1>1, <1>2, <1>3, <1>5 DEF RestTyped
  <2> QED BY <1>1, <1>5, <2>1, <2>2, NextQuestionKeeps DEF Carried
<1>6. CASE pc = "commit" /\ run.task = "answer" /\ observed' = observed /\ NextQuestion(run.pin)
  <2>1. FALSE
    BY <1>6 DEF IInv, Inv
  <2> QED BY <2>1
<1> QED BY <1>1, <1>4, <1>5, <1>6 DEF PublishFails, Forget

LEMMA PollFailsKeeps == IInv /\ PollFails => IInv'
<1> SUFFICES ASSUME IInv, PollFails PROVE IInv'
  OBVIOUS
<1>1. /\ RestTyped /\ run \in Run
      /\ UNCHANGED <<file, base, committed, offset, disturbed, overrun>>
  BY DEF IInv, TypeOK, RestTyped, PollFails
<1>2. faults' \in 0..MaxFaults /\ edits' \in 0..MaxEdits
  BY <1>1, FaultTyped DEF PollFails
<1>3. CASE End /\ observed' \in {NoNote, observed}
  BY <1>1, <1>2, <1>3, EndKeeps DEF RestTyped
<1>4. CASE pc \in {"ask", "answered"} /\ observed' = observed /\ NextQuestion(run.pin)
  <2>1. Carried /\ Marked /\ Left
    BY <1>4 DEF IInv, Inv, Polling
  <2>2. RestTyped'
    BY <1>1, <1>2, <1>4 DEF RestTyped
  <2> QED BY <1>1, <1>4, <2>1, <2>2, NextQuestionKeeps DEF Carried
<1> QED BY <1>3, <1>4 DEF PollFails, Forget

LEMMA CrashKeeps == IInv /\ Crash => IInv'
<1> SUFFICES ASSUME IInv, Crash PROVE IInv'
  OBVIOUS
<1>1. RestTyped /\ UNCHANGED <<file, base, committed, overrun>>
  BY DEF IInv, TypeOK, RestTyped, Crash
<1>2. faults' \in 0..MaxFaults /\ edits' \in 0..MaxEdits
  BY <1>1, FaultTyped DEF Crash
<1>3. disturbed' = (disturbed \/ pc = "append") /\ offset' = 0 /\ Forget
  BY DEF Crash, Unaccepted
<1>4. disturbed' \in BOOLEAN
  BY <1>3
<1> QED BY <1>1, <1>2, <1>3, <1>4, EndKeeps DEF RestTyped, Forget

LEMMA EditTyped ==
  ASSUME file \in Note \cup {NoNote}, disturbed \in BOOLEAN,
         (\E q \in Questions : EditLine(q)) \/ EditRest
  PROVE  /\ file' \in Note \cup {NoNote} /\ disturbed' \in BOOLEAN
         /\ \A q \in Questions : EditLine(q) => file' \in Note
<1>1. ASSUME NEW q \in Questions, EditLine(q)
      PROVE  file' \in Note /\ disturbed' = disturbed
  <2>1. PICK w \in Wordings[q] \cup {"none", "checked"} :
          file' = [file EXCEPT !.user[q] =
                     IF w = "none" THEN NoLine ELSE [@ EXCEPT !.wording = w]]
    BY <1>1 DEF EditLine
  <2>2. file \in Note /\ disturbed' = disturbed
    BY <1>1 DEF EditLine
  <2>3. file.user \in [Questions -> Line]
    BY <2>2, SMT DEF Note
  <2>4. PICK l : l = IF w = "none" THEN NoLine ELSE [file.user[q] EXCEPT !.wording = w]
    OBVIOUS
  <2>5. l \in Line
    <3>1. w \in Said \cup {"none", "checked"}
      BY DEF Said
    <3>2. \A k \in Line : [k EXCEPT !.wording = w] \in Line
      BY <3>1, SMT DEF Line
    <3>3. NoLine \in Line
      BY DEF NoLine, Line
    <3> QED BY <2>3, <2>4, <3>2, <3>3
  <2>6. file' = [file EXCEPT !.user = [file.user EXCEPT ![q] = l]]
    BY <2>1, <2>2, <2>4, SMT DEF Note
  <2>7. [file.user EXCEPT ![q] = l] \in [Questions -> Line]
    BY <2>3, <2>5
  <2> QED BY <2>2, <2>6, <2>7, SMT DEF Note
<1>2. CASE EditRest
  <2>1. file \in Note /\ disturbed' = TRUE
    BY <1>2 DEF EditRest
  <2>2. CASE file' = [file EXCEPT !.gen.text = 0]
    <3>1. 0 \in 0..MaxPublications
      BY InboxAssumption, SMT
    <3>2. [file.gen EXCEPT !.text = 0] \in Generated
      BY <2>1, <3>1, SMT DEF Note, Generated
    <3>3. file' = [file EXCEPT !.gen = [file.gen EXCEPT !.text = 0]]
      BY <2>1, <2>2, SMT DEF Note
    <3> QED BY <2>1, <3>2, <3>3, SMT DEF Note
  <2>3. CASE file' = [file EXCEPT !.whole = ~@]
    <3>1. \A v \in BOOLEAN : [file EXCEPT !.whole = v] \in Note
      BY <2>1, SMT DEF Note
    <3>2. file' = [file EXCEPT !.whole = ~file.whole] /\ (~file.whole) \in BOOLEAN
      BY <2>3
    <3> QED BY <2>1, <3>1, <3>2
  <2>4. ASSUME NEW q \in Answered(file.gen), file' = [file EXCEPT !.gen.answers[q] = "none"]
        PROVE  file' \in Note
    <3>1. q \in Questions /\ file.gen \in Generated
      BY <2>1, SMT DEF Answered, Note
    <3>2. file.gen.answers \in [Questions -> Said \cup {"none"}]
      BY <3>1, SMT DEF Generated
    <3>3. [file.gen.answers EXCEPT ![q] = "none"] \in [Questions -> Said \cup {"none"}]
      BY <3>1, <3>2, SMT
    <3>4. \A a \in [Questions -> Said \cup {"none"}] :
            [file.gen EXCEPT !.answers = a] \in Generated
      BY <3>1, SMT DEF Generated
    <3>5. file' = [file EXCEPT !.gen =
                     [file.gen EXCEPT !.answers = [file.gen.answers EXCEPT ![q] = "none"]]]
      BY <2>1, <2>4, SMT DEF Note, Generated
    <3>6. \A g \in Generated : [file EXCEPT !.gen = g] \in Note
      BY <2>1, SMT DEF Note
    <3> QED BY <3>3, <3>4, <3>5, <3>6
  <2>5. file' \in Note \cup {NoNote}
    BY <1>2, <2>1, <2>2, <2>3, <2>4 DEF EditRest
  <2> QED BY <1>1, <2>1, <2>5
<1> QED BY <1>1, <1>2

LEMMA EditKeeps == IInv /\ Edit => IInv'
<1> SUFFICES ASSUME IInv, Edit PROVE IInv'
  OBVIOUS
<1>1. /\ RestTyped /\ run \in Run /\ pc \in PCs /\ Inv
      /\ UNCHANGED <<base, committed, observed, offset, pc, run, overrun>>
  BY DEF IInv, TypeOK, RestTyped, Edit
<1>2. file' \in Note \cup {NoNote} /\ disturbed' \in BOOLEAN
  BY <1>1, EditTyped DEF Edit, RestTyped
<1>3. edits' \in 0..MaxEdits /\ faults' \in 0..MaxFaults
  BY <1>1, InboxAssumption, SMT DEF Edit, RestTyped
<1>4. TypeOK'
  BY <1>1, <1>2, <1>3 DEF TypeOK, RestTyped
<1>5. /\ Carried' = Carried /\ Marked' = Marked /\ Left' = Left /\ InHand' = InHand
      /\ Current' = Current /\ (Inputs => Inputs')
  <2>1. Inputs => Inputs'
    BY <1>1, InputsKeep
  <2> QED BY <1>1, <2>1 DEF Carried, Marked, Left, InHand, Current
<1> QED BY <1>1, <1>4, <1>5 DEF IInv, Inv

LEMMA IInvStep == IInv /\ [Next]_vars => IInv'
<1> SUFFICES ASSUME IInv, [Next]_vars PROVE IInv'
  OBVIOUS
<1>1. CASE TaskStep
  BY <1>1, LookKeeps, RecountKeeps, MarkKeeps, EvidenceKeeps, TurnKeeps, AskKeeps,
     AskFailsKeeps, AnswerKeeps, ReadKeeps, WriteKeeps, ConfirmKeeps, AcceptKeeps,
     CommitKeeps, ConflictKeeps, AuditKeeps DEF TaskStep
<1>2. CASE UNCHANGED vars
  <2>1. TypeOK'
    BY <1>2 DEF vars, IInv, TypeOK
  <2>2. Inv'
    <3>1. Inputs => Inputs'
      BY <1>2, InputsKeep DEF vars
    <3> QED BY <1>2, <3>1 DEF vars, IInv, Inv, Carried, Marked, Left, InHand, Current
  <2> QED BY <2>1, <2>2 DEF IInv
<1> QED BY <1>1, <1>2, PollKeeps, PublicationKeeps, PublishFailsKeeps, PollFailsKeeps,
        CrashKeeps, EditKeeps DEF Next

LEMMA Invariance == Spec => []IInv
BY IInvInit, IInvStep, PTL DEF Spec

-----------------------------------------------------------------------------
(* What the program does to the note.                                      *)

\* The note changes by ids on the accepted one, or by a publication on what it has
\* read or has been pinned to.
LEMMA FileChanges ==
  ASSUME IInv, Next, ByProgram
  PROVE  (Mark /\ file = run.pin) \/ (Write /\ file = Expected)
<1>1. ~Edit
  BY InboxAssumption, SMT DEF ByProgram, Edit, IInv, TypeOK
<1>2. file' # file
  BY DEF ByProgram
<1>3. Mark \/ Write
  BY <1>1, <1>2 DEF Next, TaskStep, Poll, Publication, Look, Recount, Evidence, Turn, Ask,
    AskFails, Answer, Read, Confirm, Accept, Commit, Conflict, Audit, PublishFails,
    PollFails, Crash
<1>4. CASE Mark
  BY <1>2, <1>4 DEF Mark
<1>5. CASE Write
  BY <1>2, <1>5 DEF Write
<1> QED BY <1>3, <1>4, <1>5

LEMMA MarkChanges ==
  ASSUME IInv, Mark, file = run.pin
  PROVE  /\ file.whole /\ file.gen = base /\ SameLines(file, file')
         /\ file'.gen = file.gen
<1>1. file \in Note /\ file.whole /\ file.gen = base /\ file' = AssignIds(file)
  BY DEF IInv, Inv, Polling, Carried, Mark
<1> QED BY <1>1, IdsTyped

LEMMA WriteChanges ==
  ASSUME IInv, Write, file = Expected, file # NoNote
  PROVE  /\ file.whole /\ file.gen = base
         /\ ~overrun' =>
              /\ run.cur = file /\ file' # NoNote
              /\ file'.user = file.user /\ file'.gen = run.input
<1>1. /\ TypeOK /\ Inputs /\ Current /\ file' = Merged(run.cur, run.input)
      /\ overrun' = (overrun \/ run.cur # file)
  BY DEF IInv, Inv, Publishing, Write
<1>2. run.cur \in Note \cup {NoNote} /\ run.input \in Generated
  BY <1>1, SMT DEF TypeOK, Run
<1>3. file.whole /\ file.gen = base
  <2>1. CASE run.pin = NoNote
    BY <1>1, <2>1 DEF Expected, Current
  <2>2. CASE run.pin # NoNote
    BY <1>1, <2>2 DEF Expected, Inputs, JobInput, CountInput, AnswerInput, Carried
  <2> QED BY <2>1, <2>2
<1>4. ASSUME ~overrun'
      PROVE  /\ run.cur = file /\ file' # NoNote
             /\ file'.user = file.user /\ file'.gen = run.input
  <2>1. run.cur = file
    BY <1>1, <1>4
  <2>2. file \in Note
    BY <1>2, <2>1
  <2>3. /\ file' \in Note /\ file'.gen = run.input /\ file'.user = file.user
    <3> HIDE DEF Merged
    <3> QED BY <1>1, <1>2, <2>1, <2>2, MergedTyped
  <2> QED BY <2>1, <2>3, NoValues
<1> QED BY <1>3, <1>4

\* The user's region of the inbox survives every write of a poll or a publication:
\* writeMarkdown compares before it writes, and the merge takes the region over.
THEOREM RegionIsKept == Spec => RegionKept
<1>1. ASSUME IInv, [Next]_vars
      PROVE  [ByProgram /\ ~overrun' => SameLines(file, file')]_vars
  <2> SUFFICES ASSUME Next, ByProgram, ~overrun' PROVE SameLines(file, file')
    BY <1>1
  <2>1. CASE Mark /\ file = run.pin
    BY <1>1, <2>1, MarkChanges
  <2>2. CASE Write /\ file = Expected
    BY <1>1, <2>2, WriteChanges DEF ByProgram, SameLines
  <2> QED BY <1>1, <2>1, <2>2, FileChanges
<1> QED BY <1>1, Invariance, PTL DEF Spec, RegionKept

\* A note whose generated part, property or marker is not as accepted is left alone.
THEOREM HandEditsAreKept == Spec => HandEditsKept
<1>1. ASSUME IInv, [Next]_vars
      PROVE  [ByProgram => file.whole /\ file.gen = base]_vars
  <2> SUFFICES ASSUME Next, ByProgram PROVE file.whole /\ file.gen = base
    BY <1>1
  <2>1. CASE Mark /\ file = run.pin
    BY <1>1, <2>1, MarkChanges
  <2>2. CASE Write /\ file = Expected
    BY <1>1, <2>2, WriteChanges DEF ByProgram
  <2> QED BY <1>1, <2>1, <2>2, FileChanges
<1> QED BY <1>1, Invariance, PTL DEF Spec, HandEditsKept

LEMMA LineAnswered ==
  ASSUME IInv, AnswerInput, ~overrun, run.pin = file
  PROVE  file.user[run.question] = [wording |-> WithAnswer.answers[run.question], id |-> TRUE]
<1>1. /\ run.parsed \in Note /\ file.user = run.parsed.user /\ base \in Generated
      /\ run.question \in Questions /\ run.question \notin Unmarked(run.parsed)
      /\ run.question \in Asked(run.parsed)
  BY DEF AnswerInput, Carried, Marked, InHand, Asked
<1>2. PICK l \in Line : l = run.parsed.user[run.question]
  BY <1>1, SMT DEF Note
<1>3. l.id = TRUE /\ l = [wording |-> l.wording, id |-> l.id]
  <2>1. l.id
    BY <1>1, <1>2 DEF Unmarked
  <2> QED BY <2>1, <1>2 DEF Line
<1>4. WithAnswer.answers[run.question] = l.wording
  BY <1>1, <1>2, AnswerTyped DEF InHand
<1> QED BY <1>1, <1>2, <1>3, <1>4

\* An answer is added to the very question it was asked for: the pin of its write and
\* the parsed note have the same region.
THEOREM AnswersDoFit == Spec => AnswersFit
<1>1. ASSUME IInv, [Next]_vars
      PROVE  [ByProgram /\ ~overrun' => \A q \in Questions :
                file'.gen.answers[q] # file.gen.answers[q] =>
                  file.user[q] = [wording |-> file'.gen.answers[q], id |-> TRUE]]_vars
  <2> SUFFICES ASSUME Next, ByProgram, ~overrun', NEW q \in Questions,
                      file'.gen.answers[q] # file.gen.answers[q]
               PROVE  file.user[q] = [wording |-> file'.gen.answers[q], id |-> TRUE]
    BY <1>1
  <2>1. CASE Mark /\ file = run.pin
    BY <1>1, <2>1, MarkChanges
  <2>2. CASE Write /\ file = Expected
    <3>1. /\ file # NoNote /\ file.gen = base /\ run.cur = file
          /\ file'.gen = run.input
      BY <1>1, <2>2, WriteChanges DEF ByProgram
    <3>2. Inputs /\ Current /\ overrun' = (overrun \/ run.cur # file)
      BY <1>1, <2>2 DEF IInv, Inv, Publishing, Write
    <3>3. base # NoBase
      BY <3>1, <3>2 DEF Current
    <3>4. AnswerInput
      BY <3>1, <3>2, <3>3 DEF Inputs, JobInput, CountInput
    <3>5. run.input = WithAnswer /\ run.pin = file /\ ~overrun
      BY <2>2, <3>2, <3>4, NoValues DEF AnswerInput, Carried, Expected
    <3>6. q = run.question
      BY <3>1, <3>4, <3>5, AnswerTyped DEF AnswerInput, Carried
    <3> QED BY <1>1, <3>1, <3>4, <3>5, <3>6, LineAnswered
  <2> QED BY <1>1, <2>1, <2>2, FileChanges
<1> QED BY <1>1, Invariance, PTL DEF Spec, AnswersFit

\* A publication never takes an answer back: jobs start from the head revision, and
\* answers are added one at a time to questions which have none.
THEOREM AnswersDoStay == Spec => AnswersStay
<1>1. ASSUME IInv, [Next]_vars
      PROVE  [base # NoBase =>
                base' # NoBase
                /\ \A q \in Answered(base) : base'.answers[q] = base.answers[q]]_vars
  <2> SUFFICES ASSUME Next, base # NoBase, base' # base
               PROVE  base' # NoBase
                      /\ \A q \in Answered(base) : base'.answers[q] = base.answers[q]
    BY <1>1
  <2>1. Accept
    BY DEF Next, TaskStep, Poll, Publication, Look, Recount, Mark, Evidence, Turn, Ask,
      AskFails, Answer, Read, Write, Confirm, Commit, Conflict, Audit, PublishFails,
      PollFails, Crash, Edit
  <2>2. Inputs /\ base' = run.input /\ run \in Run
    BY <1>1, <2>1 DEF IInv, TypeOK, Inv, Publishing, Accept
  <2>3. base' \in Generated
    BY <2>2, SMT DEF Run
  <2>4. base' # NoBase
    BY <2>3, NoValues
  <2>5. CASE JobInput \/ CountInput
    BY <2>2, <2>4, <2>5 DEF JobInput, CountInput
  <2>6. CASE AnswerInput
    <3>1. run.input = WithAnswer /\ run.question \notin Answered(base)
      BY <2>6 DEF AnswerInput
    <3>2. \A q \in Questions \ {run.question} : WithAnswer.answers[q] = base.answers[q]
      BY <2>6, AnswerTyped DEF AnswerInput, Carried
    <3> QED BY <2>2, <2>4, <3>1, <3>2 DEF Answered
  <2> QED BY <2>2, <2>5, <2>6 DEF Inputs
<1> QED BY <1>1, Invariance, PTL DEF Spec, AnswersStay

-----------------------------------------------------------------------------
(* Why a conflict is the user's doing, or a failure's.                     *)

\* While nothing has come in between, the note is the accepted one, and between the
\* write and its row the one that is about to be accepted.
Settled ==
  ~disturbed =>
    IF pc = "append" THEN file \in Note /\ file.whole /\ file.gen = run.input
    ELSE IF base = NoBase THEN file = NoNote
    ELSE file \in Note /\ file.whole /\ file.gen = base

\* A publication confirms only a note that it would not change.
Confirmed == pc = "confirm" => Merged(run.cur, run.input) = run.cur

EarnedInv == Settled /\ Confirmed

LEMMA EarnedStays ==
  ASSUME EarnedInv, UNCHANGED <<file, base, disturbed>>, pc # "append",
         pc' \notin {"append", "confirm"}
  PROVE  EarnedInv'
BY DEF EarnedInv, Settled, Confirmed

LEMMA EarnedRead == IInv /\ EarnedInv /\ Read => EarnedInv'
<1> SUFFICES ASSUME IInv, EarnedInv, Read PROVE EarnedInv'
  OBVIOUS
<1>1. /\ run \in Run /\ run' = [run EXCEPT !.cur = file]
      /\ pc = "read" /\ pc' \in {"write", "confirm", "conflict"}
      /\ pc' = "confirm" => Merged(file, run.input) = file
      /\ UNCHANGED <<file, base, disturbed>>
  BY DEF IInv, TypeOK, Read
<1>2. run'.cur = file /\ run'.input = run.input
  BY <1>1, SMT DEF Run
<1>3. Settled'
  BY <1>1 DEF EarnedInv, Settled
<1>4. Confirmed'
  BY <1>1, <1>2 DEF Confirmed
<1> QED BY <1>3, <1>4 DEF EarnedInv

LEMMA EarnedWrite == IInv /\ EarnedInv /\ Write => EarnedInv'
<1> SUFFICES ASSUME IInv, EarnedInv, Write PROVE EarnedInv'
  OBVIOUS
<1>1. /\ run.cur \in Note \cup {NoNote} /\ run.input \in Generated /\ Current
      /\ pc = "write" /\ UNCHANGED <<base, run, disturbed>>
  BY SMT DEF IInv, TypeOK, Inv, Run, Write
<1>2. CASE file # Expected
  <2>1. UNCHANGED file /\ pc' = "audit"
    BY <1>2 DEF Write
  <2> QED BY <1>1, <2>1, EarnedStays
<1>3. CASE file = Expected
  <2>1. file' = Merged(run.cur, run.input) /\ pc' = "append"
    BY <1>3 DEF Write
  <2>2. file' \in Note /\ file'.whole /\ file'.gen = run.input
    BY <1>1, <2>1, MergedTyped DEF Current
  <2> QED BY <1>1, <2>1, <2>2 DEF EarnedInv, Settled, Confirmed
<1> QED BY <1>2, <1>3

LEMMA EarnedConfirm == IInv /\ EarnedInv /\ Confirm => EarnedInv'
<1> SUFFICES ASSUME IInv, EarnedInv, Confirm PROVE EarnedInv'
  OBVIOUS
<1>1. /\ run.cur \in Note \cup {NoNote} /\ run.input \in Generated /\ Current /\ base # NoBase
      /\ pc = "confirm" /\ Merged(run.cur, run.input) = run.cur
      /\ UNCHANGED <<file, base, run, disturbed>>
      /\ pc' = IF file = run.cur THEN "append" ELSE "conflict"
  BY SMT DEF IInv, TypeOK, Inv, Run, Confirm, EarnedInv, Confirmed
<1>2. CASE file # run.cur
  BY <1>1, <1>2, EarnedStays
<1>3. CASE file = run.cur
  <2>1. file \in Note /\ file.whole
    BY <1>1, <1>3 DEF Current
  <2>2. file.gen = run.input
    BY <1>1, <1>3, MergedTyped
  <2> QED BY <1>1, <1>3, <2>1, <2>2 DEF EarnedInv, Settled, Confirmed
<1> QED BY <1>2, <1>3

LEMMA EarnedAccept == IInv /\ EarnedInv /\ Accept => EarnedInv'
<1> SUFFICES ASSUME IInv, EarnedInv, Accept PROVE EarnedInv'
  OBVIOUS
<1>1. /\ run.input \in Generated /\ base' = run.input /\ UNCHANGED <<file, disturbed>>
      /\ pc = "append" /\ pc' \in {"commit", "recount", "next"}
  BY SMT DEF IInv, TypeOK, Run, Accept, NextQuestion
<1>2. base' # NoBase
  BY <1>1, NoValues
<1> QED BY <1>1, <1>2 DEF EarnedInv, Settled, Confirmed

LEMMA EarnedMark == IInv /\ EarnedInv /\ Mark => EarnedInv'
<1> SUFFICES ASSUME IInv, EarnedInv, Mark PROVE EarnedInv'
  OBVIOUS
<1>1. /\ pc = "mark" /\ pc' = "idle" /\ UNCHANGED <<base, disturbed>>
      /\ file' = IF file = run.pin THEN AssignIds(file) ELSE file
      /\ base \in Generated /\ run.pin \in Note
  BY DEF IInv, Inv, Polling, Carried, Mark, Forget, End
<1>2. file = run.pin => file' \in Note /\ file'.gen = file.gen /\ file'.whole = file.whole
  BY <1>1, IdsTyped
<1> QED BY <1>1, <1>2, NoValues DEF EarnedInv, Settled, Confirmed

\* An edit of a line leaves the rest of the note alone.
LEMMA EarnedEdit == IInv /\ EarnedInv /\ Edit => EarnedInv'
<1> SUFFICES ASSUME IInv, EarnedInv, Edit PROVE EarnedInv'
  OBVIOUS
<1>1. file \in Note \cup {NoNote} /\ disturbed \in BOOLEAN /\ UNCHANGED <<base, pc, run>>
  BY DEF IInv, TypeOK, Edit
<1>2. Confirmed'
  BY <1>1 DEF EarnedInv, Confirmed
<1>3. ASSUME NEW q \in Questions, EditLine(q) PROVE Settled'
  <2>1. file # NoNote /\ file \in Note /\ disturbed' = disturbed
    BY <1>1, <1>3 DEF EditLine
  <2>2. PICK l : file' = [file EXCEPT !.user[q] = l]
    BY <1>3 DEF EditLine
  <2>3. file'.gen = file.gen /\ file'.whole = file.whole
    BY <2>1, <2>2, SMT DEF Note
  <2>4. file' \in Note
    BY <1>1, <1>3, EditTyped
  <2> QED BY <1>1, <2>1, <2>3, <2>4, NoValues DEF EarnedInv, Settled
<1>4. CASE EditRest
  <2>1. disturbed'
    BY <1>4 DEF EditRest
  <2> QED BY <1>2, <2>1 DEF EarnedInv, Settled
<1> QED BY <1>2, <1>3, <1>4 DEF EarnedInv, Edit

LEMMA EarnedStep == IInv /\ EarnedInv /\ [Next]_vars => EarnedInv'
<1> SUFFICES ASSUME IInv, EarnedInv, [Next]_vars PROVE EarnedInv'
  OBVIOUS
<1>1. CASE Poll \/ Look \/ Recount \/ Publication
  <2>1. pc # "append" /\ pc' \notin {"append", "confirm"} /\ UNCHANGED <<file, base, disturbed>>
    BY <1>1 DEF Poll, Look, Recount, Publication, Forget, End, AfterCount, Publish
  <2> QED BY <2>1, EarnedStays
<1>2. CASE Evidence \/ Turn \/ Ask \/ AskFails \/ Answer
  <2>1. pc # "append" /\ pc' \notin {"append", "confirm"} /\ UNCHANGED <<file, base, disturbed>>
    BY <1>2 DEF Evidence, Turn, Ask, AskFails, Answer, Forget, End, Publish, NextQuestion
  <2> QED BY <2>1, EarnedStays
<1>3. CASE Commit \/ Conflict \/ Audit \/ PollFails
  <2>1. pc # "append" /\ pc' \notin {"append", "confirm"} /\ UNCHANGED <<file, base, disturbed>>
    BY <1>3 DEF Commit, Conflict, Audit, PollFails, Forget, End, NextQuestion
  <2> QED BY <2>1, EarnedStays
<1>4. CASE PublishFails \/ Crash
  <2>1. /\ pc' \notin {"append", "confirm"} /\ UNCHANGED <<file, base>>
        /\ disturbed' = (disturbed \/ pc = "append")
    BY <1>4 DEF PublishFails, Crash, Unaccepted, Forget, End, NextQuestion
  <2> QED BY <2>1 DEF EarnedInv, Settled, Confirmed
<1>5. CASE UNCHANGED vars
  BY <1>5 DEF vars, EarnedInv, Settled, Confirmed
<1> QED BY <1>1, <1>2, <1>3, <1>4, <1>5, EarnedRead, EarnedWrite, EarnedConfirm, EarnedAccept,
        EarnedMark, EarnedEdit DEF Next, TaskStep

\* A publication that turns a note into a conflict copy has found something of the
\* user's in the generated part, or what an earlier one had written and not recorded:
\* the program never takes its own text for a stranger's.
THEOREM ConflictsDoComeEarned == Spec => ConflictsAreEarned
<1>1. Init => EarnedInv
  BY DEF Init, EarnedInv, Settled, Confirmed
<1>2. ASSUME IInv, EarnedInv, [Next]_vars
      PROVE  [pc = "read" /\ pc' = "conflict" => disturbed]_vars
  <2> SUFFICES ASSUME Next, pc = "read", pc' = "conflict", ~disturbed PROVE FALSE
    BY <1>2
  <2>1. Read
    BY DEF Next, TaskStep, Poll, Publication, Look, Recount, Mark, Evidence, Turn, Ask,
      AskFails, Answer, Write, Confirm, Accept, Commit, Conflict, Audit, PublishFails,
      PollFails, Crash, Edit, End, Forget, NextQuestion
  <2>2. IF base = NoBase THEN file = NoNote
        ELSE file \in Note /\ file.whole /\ file.gen = base
    BY <1>2 DEF EarnedInv, Settled
  <2>3. base # NoBase => ~Conflicting(base, file)
    BY <2>2, NoValues DEF Conflicting
  <2> QED BY <2>1, <2>2, <2>3 DEF Read
<1> QED BY <1>1, <1>2, EarnedStep, Invariance, IInvInit, PTL DEF Spec, ConflictsAreEarned

\* The values of the variables: every text, region and pin a task carries is one that
\* the note or the accepted revision can have.
THEOREM TypesHold == Spec => []TypeOK
BY Invariance, PTL DEF IInv

=============================================================================
