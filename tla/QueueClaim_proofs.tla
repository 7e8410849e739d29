-------------------------- MODULE QueueClaim_proofs --------------------------
(***************************************************************************)
(* The safety properties of QueueClaim hold for every number of bundles,    *)
(* entries, files and disturbances, and QueueClaim implements ClaimLease.   *)
(*                                                                         *)
(* The layers, each inductive relative to those above it:                   *)
(*   TypeInv      the types, and what each pc says of the locals,           *)
(*   ControlInv   which parts of a run may be under way together,           *)
(*   SoundToken   a claim goes on only with sound contents,                 *)
(*   NamesInv     the three names of a reservation agree, lanes exclude     *)
(*                each other,                                              *)
(*   PlaceInv     where the names are at each point of a commit,            *)
(*   Effect       what one step may do to a reservation,                    *)
(*   BackedInv    what the reservation in hand holds, what is staged, and   *)
(*                what covers a removal.                                   *)
(***************************************************************************)
EXTENDS QueueClaim, TLAPS

-----------------------------------------------------------------------------
(* Types.                                                                  *)

\* The steps of claim up to its return, of its catch, and of removeCompleted.
Claiming ==
  {"begin", "existing", "stage", "copy", "acquire", "create", "write", "publish",
   "settle", "commit", "detach", "relink", "tidy", "confirm", "claimed"}

Catching == {"normalize", "dropStaging", "dropMarker", "dropAnchor", "reject", "receipt"}

Removing == {"rmRead", "rmMove", "rmCheck", "rmEntry", "rmMarker", "rmAnchor"}

Codes == {"none", "invalid", "copyFailed", "unstable"}

\* The locals: a lane once something runs, a token once the bundle is read.
RunPart ==
  /\ run \in Runs /\ pc \in PCs
  /\ pc \notin {"idle", "scan"} => lane \in Kinds
  /\ pc \in Claiming \ {"begin"} => run.tok \in Bundle
  /\ pc = "write" => run.res \in Files

NamesPart ==
  /\ marker \in [Kinds -> Files \cup {NoFile}]
  /\ anchor \in [Kinds -> Files \cup {NoFile}]
  /\ quarantine \in [Kinds -> Files \cup {NoFile}]
  /\ content \in [Files -> Record \cup {Blank}]

RestPart ==
  /\ bundle \in [Kinds -> MaybeBundle]
  /\ cleanup \in [Kinds -> MaybeBundle]
  /\ left \in [Kinds -> 0..Entries]
  /\ staged \in Data \cup {"none"}
  /\ observed \in [Kinds -> MaybeBundle]
  /\ stamp \in 0..MaxStamp /\ disturbances \in 0..MaxDisturbances

ToldPart ==
  /\ rejected \in BOOLEAN /\ receipt \in {"none", "failed", "completed"}
  /\ job \in Kinds \cup {"none"} /\ owed \in BOOLEAN
  /\ owed => job \in Kinds
  /\ pc \in Removing => job = lane

\* The type invariant, with what the control points know of the locals.
TypeInv == RunPart /\ NamesPart /\ RestPart /\ ToldPart

LEMMA TypesAreTypeOK == TypeInv => TypeOK
  BY DEF TypeInv, TypeOK, RunPart, NamesPart, RestPart, ToldPart

\* There are two lanes and each is the other of the other.
LEMMA KindsApart ==
  /\ "icloud" \in Kinds /\ "icloud_course" \in Kinds /\ "none" \notin Kinds
  /\ \A k \in Kinds : Other(k) \in Kinds /\ Other(k) # k /\ Other(Other(k)) = k
  BY DEF Kinds, Other

\* The null values are apart from the real ones.
LEMMA Values ==
  /\ NoBundle \in MaybeBundle /\ NoBundle \notin Bundle
  /\ \A b \in Bundle : b \in MaybeBundle /\ b # NoBundle /\ b.data \in Data
  /\ \A b \in MaybeBundle : b # NoBundle => b \in Bundle
  /\ Blank \notin Record /\ Blank.token = NoBundle
  /\ \A r \in Record : r.token \in Bundle
  /\ \A k \in Kinds, t \in Bundle : [kind |-> k, token |-> t] \in Record
  BY DEF NoBundle, Bundle, Kinds, MaybeBundle, Blank, Record

\* What iCloud delivers is a bundle.
LEMMA StampedType ==
  ASSUME stamp \in 0..MaxStamp, stamp < MaxStamp, NEW d \in Data
  PROVE  Stamped(d) \in Bundle
  BY QueueAssumption DEF Stamped, Bundle

LEMMA NoRunType == NoRun \in Runs /\ NoRun.lane = "none"
  BY DEF NoRun, Runs, MaybeBundle

\* The locals of a claim or a removal stay in their type, whichever one is set.
LEMMA RunsKept ==
  ASSUME NEW r \in Runs
  PROVE  /\ \A c \in Codes :
              [r EXCEPT !.code = c] \in Runs /\ [r EXCEPT !.code = c].lane = r.lane
         /\ \A k \in Kinds : [r EXCEPT !.lane = k] \in Runs /\ [r EXCEPT !.lane = k].lane = k
         /\ [r EXCEPT !.existing = TRUE] \in Runs
         /\ [r EXCEPT !.existing = TRUE].lane = r.lane /\ [r EXCEPT !.existing = TRUE].tok = r.tok
         /\ [r EXCEPT !.created = TRUE] \in Runs
         /\ [r EXCEPT !.created = TRUE].lane = r.lane /\ [r EXCEPT !.created = TRUE].tok = r.tok
         /\ [r EXCEPT !.started = TRUE] \in Runs
         /\ [r EXCEPT !.started = TRUE].lane = r.lane /\ [r EXCEPT !.started = TRUE].tok = r.tok
         /\ \A o \in {"temp", "final"} :
              /\ [r EXCEPT !.own = o] \in Runs
              /\ [r EXCEPT !.own = o].lane = r.lane /\ [r EXCEPT !.own = o].tok = r.tok
  BY DEF Runs, Codes

\* So does the file in hand.
LEMMA FileKept ==
  ASSUME NEW r \in Runs, NEW f \in Files \cup {NoFile}
  PROVE  /\ [r EXCEPT !.res = f] \in Runs /\ [r EXCEPT !.res = f].lane = r.lane
         /\ [r EXCEPT !.res = f].tok = r.tok /\ [r EXCEPT !.res = f].res = f
  BY DEF Runs

LEMMA LaneTaken ==
  ASSUME NEW k \in Kinds
  PROVE  [NoRun EXCEPT !.lane = k] \in Runs /\ [NoRun EXCEPT !.lane = k].lane = k
  BY NoRunType, RunsKept

\* The ways a step of a claim ends.
LEMMA RunSteps ==
  ASSUME RunPart, lane \in Kinds
  PROVE  /\ \A why \in Codes : Fail(why) => RunPart' /\ pc' = "normalize"
         /\ Drift => RunPart' /\ pc' = "normalize"
         /\ \A next \in PCs \ {"write"} :
              Go(next) /\ (next \in Claiming => run.tok \in Bundle) => RunPart' /\ pc' = next
<1> USE RunsKept DEF RunPart, lane
<1>1. \A why \in Codes : Fail(why) => RunPart' /\ pc' = "normalize"
  <2> SUFFICES ASSUME NEW why \in Codes, Fail(why) PROVE RunPart' /\ pc' = "normalize"
    OBVIOUS
  <2>1. run' \in Runs /\ run'.lane = run.lane /\ pc' = "normalize"
    BY DEF Fail
  <2> QED
    BY <2>1 DEF PCs, Claiming
<1>2. Drift => RunPart' /\ pc' = "normalize"
  BY <1>1 DEF Drift, Codes
<1>3. \A next \in PCs \ {"write"} :
        Go(next) /\ (next \in Claiming => run.tok \in Bundle) => RunPart' /\ pc' = next
  BY DEF Go
<1> QED
  BY <1>1, <1>2, <1>3

LEMMA RunEnds ==
  ASSUME pc' \in {"idle", "scan"}, run' = NoRun
  PROVE  RunPart' /\ pc' \notin Removing
  BY NoRunType DEF RunPart, PCs, Claiming, Removing

\* Reading a reservation keeps the types, whether it succeeds or fails.
LEMMA ReadsKeepType ==
  ASSUME NEW k \in Kinds, NamesPart
  PROVE  /\ Recover(k) => NamesPart'
         /\ RecoverFails(k) => NamesPart'
         /\ UNCHANGED names => NamesPart'
         /\ Seen(k) \in Files \cup {NoFile}
         /\ TokenOf(k) \in MaybeBundle
<1>1. Recover(k) => NamesPart'
  BY DEF NamesPart, Recover
<1>2. RecoverFails(k) => NamesPart'
  BY DEF NamesPart, RecoverFails, names
<1>3. UNCHANGED names => NamesPart'
  BY DEF NamesPart, names
<1>4. Seen(k) \in Files \cup {NoFile}
  BY DEF NamesPart, Seen
<1>5. TokenOf(k) \in MaybeBundle
  BY <1>4, Values DEF NamesPart, TokenOf
<1> QED
  BY <1>1, <1>2, <1>3, <1>4, <1>5

LEMMA DisturbType == ASSUME NEW what, Disturb(what), RestPart PROVE disturbances' \in 0..MaxDisturbances
  BY QueueAssumption DEF Disturb, RestPart

\* What was told is kept by the steps that do not tell.
LEMMA ToldKept ==
  ASSUME ToldPart
  PROVE  /\ UNCHANGED told /\ pc' \notin Removing => ToldPart'
         /\ UNCHANGED told /\ pc \in Removing /\ run'.lane = run.lane => ToldPart'
         /\ \A again \in BOOLEAN : RemoveEnds(again) /\ pc \in Removing /\ lane \in Kinds => ToldPart'
  BY DEF ToldPart, told, RemoveEnds, lane, Removing

LEMMA TypesStart == Init => TypeInv
<1> SUFFICES ASSUME Init PROVE TypeInv
  OBVIOUS
<1>1. RunPart
  BY NoRunType DEF Init, RunPart, PCs, Claiming
<1>2. NamesPart
  BY Values DEF Init, NamesPart
<1>3. RestPart
  BY Values, QueueAssumption DEF Init, RestPart
<1>4. ToldPart
  BY DEF Init, ToldPart, Removing
<1> QED
  BY <1>1, <1>2, <1>3, <1>4 DEF TypeInv

\* Every step keeps the types.
LEMMA TypeSteps == TypeInv /\ [Next]_vars => TypeInv'
<1> SUFFICES ASSUME TypeInv, [Next]_vars PROVE TypeInv'
  OBVIOUS
<1> USE DEF TypeInv
<1>1. ASSUME Poll PROVE TypeInv'
  <2>1. RunPart'
    <3>1. CASE owed
      BY <1>1, <3>1, LaneTaken DEF Poll, RunPart, lane, PCs, Claiming, Removing, Codes, ToldPart
    <3>2. CASE ~owed
      BY <1>1, <3>2, RunEnds DEF Poll, Poll
    <3> QED
      BY <1>1, <3>1, <3>2 DEF Poll
  <2>2. NamesPart'
    BY <1>1, ReadsKeepType, KindsApart DEF Poll, disk
  <2>3. RestPart'
    BY <1>1 DEF Poll, RestPart, disk, bounds
  <2>4. ToldPart'
    BY <1>1, LaneTaken DEF Poll, ToldPart, told, Removing, lane
  <2> QED
    BY <2>1, <2>2, <2>3, <2>4
<1>2. ASSUME ScanNothing PROVE TypeInv'
  <2>1. RunPart' /\ pc' \notin Removing
    BY <1>2 DEF ScanNothing, RunPart, lane, PCs, Claiming, Removing, Codes
  <2>2. NamesPart'
    BY <1>2, ReadsKeepType, KindsApart DEF ScanNothing, disk
  <2>3. RestPart'
    BY <1>2 DEF ScanNothing, RestPart, disk, bounds
  <2>4. ToldPart'
    BY <1>2, <2>1, ToldKept DEF ScanNothing
  <2> QED
    BY <2>1, <2>2, <2>3, <2>4
<1>3. ASSUME NEW k \in Kinds, ScanCollision(k) PROVE TypeInv'
  <2>1. RunPart' /\ pc' \notin Removing
    BY <1>3 DEF ScanCollision, RunPart, lane, PCs, Claiming, Removing, Codes
  <2>2. NamesPart'
    BY <1>3, ReadsKeepType DEF ScanCollision, names
  <2>3. RestPart'
    BY <1>3, Values, DisturbType DEF ScanCollision, RestPart, RecoverFails
  <2>4. ToldPart'
    BY <1>3, <2>1 DEF ScanCollision, ToldPart
  <2> QED
    BY <2>1, <2>2, <2>3, <2>4
<1>4. ASSUME NEW k \in Kinds, ScanObserves(k) PROVE TypeInv'
  <2>1. RunPart' /\ pc' \notin Removing
    BY <1>4 DEF ScanObserves, RunPart, lane, PCs, Claiming, Removing, Codes
  <2>2. NamesPart'
    BY <1>4, ReadsKeepType DEF ScanObserves
  <2>3. RestPart'
    BY <1>4, Values DEF ScanObserves, RestPart, bounds
  <2>4. ToldPart'
    BY <1>4, <2>1, ToldKept DEF ScanObserves
  <2> QED
    BY <2>1, <2>2, <2>3, <2>4
<1>5. ASSUME NEW k \in Kinds, ScanReady(k) PROVE TypeInv'
  <2>1. RunPart' /\ pc' \notin Removing
    <3>1. CASE job = "none"
      BY <1>5, <3>1, LaneTaken DEF ScanReady, RunPart, lane, PCs, Claiming, Removing, Codes
    <3>2. CASE job # "none"
      BY <1>5, <3>2, RunEnds DEF ScanReady, Removing
    <3> QED
      BY <1>5, <3>1, <3>2 DEF ScanReady
  <2>2. NamesPart'
    BY <1>5, ReadsKeepType DEF ScanReady
  <2>3. RestPart'
    BY <1>5 DEF ScanReady, RestPart, bounds
  <2>4. ToldPart'
    BY <1>5, <2>1 DEF ScanReady, ToldPart
  <2> QED
    BY <2>1, <2>2, <2>3, <2>4
<1>6. ASSUME Begin PROVE TypeInv'
  <2>0. lane \in Kinds
    BY <1>6 DEF Begin, RunPart
  <2>1. RunPart' /\ pc' \notin Removing
    <3>1. CASE pc' = "idle" /\ run' = NoRun
      BY <3>1, RunEnds
    <3>2. CASE Fail("invalid")
      BY <3>2, <2>0, RunSteps DEF Codes, Removing
    <3>3. CASE bundle[lane] # NoBundle /\ ~Fail("invalid") /\ ~(pc' = "idle" /\ run' = NoRun)
      <4>1. bundle[lane] \in Bundle /\ bundle[lane] \in MaybeBundle
        BY <2>0, <3>3, Values DEF RestPart
      <4>2. PICK known \in BOOLEAN :
              LET opened == [run EXCEPT !.tok = bundle[lane], !.manifest = known] IN
              \/ pc' = "normalize" /\ run' = [opened EXCEPT !.code = "invalid"]
              \/ pc' = "existing" /\ run' = opened
        BY <1>6, <3>3 DEF Begin
      <4> DEFINE opened == [run EXCEPT !.tok = bundle[lane], !.manifest = known]
      <4>0. known \in BOOLEAN
        BY <4>2
      <4>3. opened \in Runs /\ opened.lane = lane /\ opened.tok = bundle[lane]
        BY <4>0, <4>1 DEF RunPart, Runs, lane
      <4>4. \/ pc' = "normalize" /\ run' = [opened EXCEPT !.code = "invalid"]
            \/ pc' = "existing" /\ run' = opened
        BY <4>2
      <4> HIDE DEF opened
      <4>5. CASE pc' = "normalize" /\ run' = [opened EXCEPT !.code = "invalid"]
        BY <4>3, <4>5, <2>0, RunsKept DEF RunPart, lane, PCs, Codes, Claiming, Removing
      <4>6. CASE pc' = "existing" /\ run' = opened
        BY <4>1, <4>3, <4>6, <2>0 DEF RunPart, lane, PCs, Claiming, Removing
      <4> QED
        BY <4>4, <4>5, <4>6
    <3> QED
      BY <1>6, <3>1, <3>2, <3>3 DEF Begin
  <2>2. NamesPart'
    BY <1>6, ReadsKeepType, KindsApart DEF Begin, disk
  <2>3. RestPart'
    BY <1>6 DEF Begin, RestPart, disk, bounds
  <2>4. ToldPart'
    BY <1>6, <2>1, ToldKept DEF Begin
  <2> QED
    BY <2>1, <2>2, <2>3, <2>4
<1>7. ASSUME ReadExisting PROVE TypeInv'
  <2>0. lane \in Kinds /\ run.tok \in Bundle
    BY <1>7 DEF ReadExisting, RunPart, Claiming
  <2>1. RunPart' /\ pc' \notin Removing
    <3>1. CASE Drifted
      BY <1>7, <3>1, <2>0, RunSteps DEF ReadExisting, Removing
    <3>2. CASE Fail("invalid")
      BY <1>7, <3>2, <2>0, RunSteps DEF ReadExisting, Codes, Removing
    <3>3. CASE ~Drifted /\ Go("stage")
      BY <1>7, <3>3, <2>0, RunSteps DEF ReadExisting, PCs, Removing
    <3>4. CASE ~Drifted /\ pc' = "stage" /\ run' = [run EXCEPT !.existing = TRUE]
      BY <1>7, <3>4, <2>0, RunsKept DEF ReadExisting, RunPart, lane, PCs, Claiming, Removing, Codes
    <3> QED
      BY <1>7, <3>1, <3>2, <3>3, <3>4 DEF ReadExisting
  <2>2. NamesPart'
    BY <1>7, <2>0, ReadsKeepType DEF ReadExisting
  <2>3. RestPart'
    BY <1>7 DEF ReadExisting, RestPart, bounds
  <2>4. ToldPart'
    BY <1>7, <2>1, ToldKept DEF ReadExisting
  <2> QED
    BY <2>1, <2>2, <2>3, <2>4
<1>8. ASSUME Stage PROVE TypeInv'
  <2>0. lane \in Kinds /\ run.tok \in Bundle
    BY <1>8 DEF Stage, RunPart, Claiming
  <2>1. RunPart' /\ pc' \notin Removing
    <3>1. CASE Drifted
      BY <1>8, <3>1, <2>0, RunSteps DEF Stage, Removing
    <3>2. CASE Fail("copyFailed")
      BY <1>8, <3>2, <2>0, RunSteps DEF Stage, Codes, Removing
    <3>3. CASE ~Drifted /\ Go("acquire")
      BY <1>8, <3>3, <2>0, RunSteps DEF Stage, PCs, Removing
    <3>4. CASE ~Drifted /\ pc' = "copy" /\ run' = [run EXCEPT !.own = "temp"]
      BY <1>8, <3>4, <2>0, RunsKept DEF Stage, RunPart, lane, PCs, Claiming, Removing, Codes
    <3> QED
      BY <1>8, <3>1, <3>2, <3>3, <3>4 DEF Stage
  <2>2. NamesPart'
    BY <1>8, ReadsKeepType, KindsApart DEF Stage, disk
  <2>3. RestPart'
    BY <1>8 DEF Stage, RestPart, disk, bounds
  <2>4. ToldPart'
    BY <1>8, <2>1, ToldKept DEF Stage
  <2> QED
    BY <2>1, <2>2, <2>3, <2>4
<1>9. ASSUME Copy PROVE TypeInv'
  <2>0. lane \in Kinds /\ run.tok \in Bundle
    BY <1>9 DEF Copy, RunPart, Claiming
  <2>1. RunPart' /\ pc' \notin Removing
    BY <1>9, <2>0, RunSteps DEF Copy, PCs, Codes, Removing
  <2>2. NamesPart'
    BY <1>9, ReadsKeepType, KindsApart DEF Copy, disk
  <2>3. RestPart'
    BY <1>9 DEF Copy, RestPart, disk, bounds
  <2>4. ToldPart'
    BY <1>9, <2>1, ToldKept DEF Copy
  <2> QED
    BY <2>1, <2>2, <2>3, <2>4
<1>10. ASSUME Acquire PROVE TypeInv'
  <2>0. lane \in Kinds /\ run.tok \in Bundle
    BY <1>10 DEF Acquire, RunPart, Claiming
  <2>1. RunPart' /\ pc' \notin Removing
    <3>1. CASE Drifted
      BY <1>10, <3>1, <2>0, RunSteps DEF Acquire, Removing
    <3>2. CASE Fail("invalid")
      BY <1>10, <3>2, <2>0, RunSteps DEF Acquire, Codes, Removing
    <3>3. CASE ~Drifted /\ Go("create")
      BY <1>10, <3>3, <2>0, RunSteps DEF Acquire, PCs, Removing
    <3>4. CASE ~Drifted /\ pc' = AfterAcquire /\ run' = [run EXCEPT !.res = Seen(lane)]
      BY <1>10, <3>4, <2>0, ReadsKeepType, FileKept DEF Acquire, RunPart, lane, PCs, Claiming, Removing, Codes, AfterAcquire
    <3> QED
      BY <1>10, <3>1, <3>2, <3>3, <3>4 DEF Acquire
  <2>2. NamesPart'
    BY <1>10, <2>0, ReadsKeepType DEF Acquire
  <2>3. RestPart'
    BY <1>10 DEF Acquire, RestPart, bounds
  <2>4. ToldPart'
    BY <1>10, <2>1, ToldKept DEF Acquire
  <2> QED
    BY <2>1, <2>2, <2>3, <2>4
<1>11. ASSUME Create PROVE TypeInv'
  <2>0. lane \in Kinds /\ run.tok \in Bundle
    BY <1>11 DEF Create, RunPart, Claiming
  <2>1. RunPart' /\ pc' \notin Removing
    <3>1. CASE bundle[Other(lane)] # NoBundle
      BY <1>11, <3>1, <2>0, RunSteps DEF Create, Codes, Removing
    <3>2. CASE \E f \in Files \ InUse : pc' = "write" /\ run' = [run EXCEPT !.res = f]
      BY <1>11, <3>2, <2>0, FileKept DEF Create, RunPart, lane, PCs, Claiming, Removing, Codes
    <3> QED
      BY <1>11, <3>1, <3>2 DEF Create
  <2>2. NamesPart'
    BY <1>11, <2>0, ReadsKeepType DEF Create, NamesPart
  <2>3. RestPart'
    BY <1>11 DEF Create, RestPart, bounds
  <2>4. ToldPart'
    BY <1>11, <2>1, ToldKept DEF Create
  <2> QED
    BY <2>1, <2>2, <2>3, <2>4
<1>12. ASSUME Write PROVE TypeInv'
  <2>0. lane \in Kinds /\ run.tok \in Bundle
    BY <1>12 DEF Write, RunPart, Claiming
  <2>1. RunPart' /\ pc' \notin Removing
    BY <1>12, <2>0, RunsKept DEF Write, RunPart, lane, PCs, Claiming, Removing, Codes, AfterAcquire
  <2>2. NamesPart'
    <3>1. [kind |-> lane, token |-> run.tok] \in Record
      BY <2>0, Values
    <3>2. content' \in [Files -> Record \cup {Blank}]
      BY <1>12, <3>1 DEF Write, NamesPart
    <3> QED
      BY <1>12, <3>2 DEF Write, NamesPart
  <2>3. RestPart'
    BY <1>12 DEF Write, RestPart, bounds
  <2>4. ToldPart'
    BY <1>12, <2>1, ToldKept DEF Write
  <2> QED
    BY <2>1, <2>2, <2>3, <2>4
<1>13. ASSUME WriteFails PROVE TypeInv'
  <2>0. lane \in Kinds
    BY <1>13 DEF WriteFails, RunPart
  <2>1. RunPart' /\ pc' \notin Removing
    <3>1. [run EXCEPT !.code = "invalid", !.res = NoFile] \in Runs
      BY DEF RunPart, Runs
    <3>2. [run EXCEPT !.code = "invalid", !.res = NoFile].lane = run.lane
      BY DEF RunPart, Runs
    <3> QED
      BY <1>13, <2>0, <3>1, <3>2 DEF WriteFails, RunPart, lane, PCs, Claiming, Removing
  <2>2. NamesPart'
    <3>1. marker' \in {marker, [marker EXCEPT ![lane] = NoFile]}
      BY <1>13 DEF WriteFails
    <3>2. marker' \in [Kinds -> Files \cup {NoFile}]
      BY <3>1 DEF NamesPart
    <3> QED
      BY <1>13, <3>2 DEF WriteFails, NamesPart
  <2>3. RestPart'
    BY <1>13, DisturbType DEF WriteFails, RestPart
  <2>4. ToldPart'
    BY <1>13, <2>1, ToldKept DEF WriteFails
  <2> QED
    BY <2>1, <2>2, <2>3, <2>4
<1>14. ASSUME Publish PROVE TypeInv'
  <2>0. lane \in Kinds /\ run.tok \in Bundle
    BY <1>14 DEF Publish, RunPart, Claiming
  <2>1. RunPart' /\ pc' \notin Removing
    BY <1>14, <2>0, RunsKept DEF Publish, RunPart, lane, PCs, Claiming, Removing, Codes
  <2>2. NamesPart'
    BY <1>14, ReadsKeepType, KindsApart DEF Publish, disk
  <2>3. RestPart'
    BY <1>14, <2>0, Values DEF Publish, RestPart, bounds
  <2>4. ToldPart'
    BY <1>14, <2>1, ToldKept DEF Publish
  <2> QED
    BY <2>1, <2>2, <2>3, <2>4
<1>15. ASSUME Settle PROVE TypeInv'
  <2>0. lane \in Kinds /\ run.tok \in Bundle
    BY <1>15 DEF Settle, RunPart, Claiming
  <2>1. RunPart' /\ pc' \notin Removing
    <3>1. CASE Drifted
      BY <1>15, <3>1, <2>0, RunSteps DEF Settle, Removing
    <3>2. CASE ~Drifted
      BY <1>15, <3>2, <2>0, RunsKept DEF Settle, RunPart, lane, PCs, Claiming, Removing, Codes
    <3> QED
      BY <1>15, <3>1, <3>2 DEF Settle
  <2>2. NamesPart'
    BY <1>15, ReadsKeepType, KindsApart DEF Settle, disk
  <2>3. RestPart'
    BY <1>15 DEF Settle, RestPart, disk, bounds
  <2>4. ToldPart'
    BY <1>15, <2>1, ToldKept DEF Settle
  <2> QED
    BY <2>1, <2>2, <2>3, <2>4
<1>16. ASSUME Commit PROVE TypeInv'
  <2>0. lane \in Kinds /\ run.tok \in Bundle
    BY <1>16 DEF Commit, RunPart, Claiming
  <2>1. RunPart' /\ pc' \notin Removing
    <3>1. CASE Fail("invalid")
      BY <1>16, <3>1, <2>0, RunSteps DEF Commit, Codes, Removing
    <3>2. CASE Go("detach")
      BY <1>16, <3>2, <2>0, RunSteps DEF Commit, PCs, Removing
    <3> QED
      BY <1>16, <3>1, <3>2 DEF Commit
  <2>2. NamesPart'
    <3>1. CASE UNCHANGED names
      BY <3>1, <2>0, ReadsKeepType
    <3>2. CASE ~UNCHANGED names
      BY <1>16, <3>2, <2>0 DEF Commit, NamesPart, Owned, Readable, Seen
    <3> QED
      BY <3>1, <3>2
  <2>3. RestPart'
    BY <1>16 DEF Commit, RestPart, bounds
  <2>4. ToldPart'
    BY <1>16, <2>1, ToldKept DEF Commit
  <2> QED
    BY <2>1, <2>2, <2>3, <2>4
<1>17. ASSUME Detach PROVE TypeInv'
  <2>0. lane \in Kinds /\ run.tok \in Bundle
    BY <1>17 DEF Detach, RunPart, Claiming
  <2>1. RunPart' /\ pc' \notin Removing
    BY <1>17, <2>0, RunSteps DEF Detach, PCs, Removing
  <2>2. NamesPart'
    BY <1>17, <2>0 DEF Detach, NamesPart
  <2>3. RestPart'
    BY <1>17 DEF Detach, RestPart, bounds
  <2>4. ToldPart'
    BY <1>17, <2>1, ToldKept DEF Detach
  <2> QED
    BY <2>1, <2>2, <2>3, <2>4
<1>18. ASSUME Relink PROVE TypeInv'
  <2>0. lane \in Kinds /\ run.tok \in Bundle
    BY <1>18 DEF Relink, RunPart, Claiming
  <2>1. RunPart' /\ pc' \notin Removing
    <3>1. CASE Fail("invalid")
      BY <1>18, <3>1, <2>0, RunSteps DEF Relink, Codes, Removing
    <3>2. CASE Go("tidy")
      BY <1>18, <3>2, <2>0, RunSteps DEF Relink, PCs, Removing
    <3> QED
      BY <1>18, <3>1, <3>2 DEF Relink
  <2>2. NamesPart'
    <3>1. CASE UNCHANGED names
      BY <3>1, <2>0, ReadsKeepType
    <3>2. CASE ~UNCHANGED names
      BY <1>18, <3>2, <2>0 DEF Relink, NamesPart
    <3> QED
      BY <3>1, <3>2
  <2>3. RestPart'
    BY <1>18 DEF Relink, RestPart, bounds
  <2>4. ToldPart'
    BY <1>18, <2>1, ToldKept DEF Relink
  <2> QED
    BY <2>1, <2>2, <2>3, <2>4
<1>19. ASSUME Tidy PROVE TypeInv'
  <2>0. lane \in Kinds /\ run.tok \in Bundle
    BY <1>19 DEF Tidy, RunPart, Claiming
  <2>1. RunPart' /\ pc' \notin Removing
    BY <1>19, <2>0, RunSteps DEF Tidy, PCs, Removing
  <2>2. NamesPart'
    BY <1>19, <2>0 DEF Tidy, NamesPart
  <2>3. RestPart'
    BY <1>19 DEF Tidy, RestPart, bounds
  <2>4. ToldPart'
    BY <1>19, <2>1, ToldKept DEF Tidy
  <2> QED
    BY <2>1, <2>2, <2>3, <2>4
<1>20. ASSUME PublicationFails PROVE TypeInv'
  <2>0. lane \in Kinds
    BY <1>20 DEF PublicationFails, RunPart
  <2>1. RunPart' /\ pc' \notin Removing
    BY <1>20, <2>0, RunSteps DEF PublicationFails, Codes, Removing
  <2>2. NamesPart'
    <3>1. CASE Recover(lane)
      BY <3>1, <2>0, ReadsKeepType
    <3>2. CASE /\ marker' \in {marker, [marker EXCEPT ![lane] = quarantine[lane]]}
               /\ UNCHANGED <<anchor, quarantine, content>>
      <4>1. marker' \in [Kinds -> Files \cup {NoFile}]
        BY <3>2, <2>0 DEF NamesPart
      <4> QED
        BY <3>2, <4>1 DEF NamesPart
    <3> QED
      BY <1>20, <3>1, <3>2 DEF PublicationFails
  <2>3. RestPart'
    BY <1>20, DisturbType DEF PublicationFails, RestPart
  <2>4. ToldPart'
    BY <1>20, <2>1, ToldKept DEF PublicationFails
  <2> QED
    BY <2>1, <2>2, <2>3, <2>4
<1>21. ASSUME CallFails PROVE TypeInv'
  <2>0. lane \in Kinds
    BY <1>21 DEF CallFails, RunPart, ClaimCalls
  <2>1. RunPart' /\ pc' \notin Removing
    BY <1>21, <2>0, RunSteps DEF CallFails, Codes, Removing
  <2>2. NamesPart'
    BY <1>21, ReadsKeepType, KindsApart DEF CallFails, disk
  <2>3. RestPart'
    BY <1>21, DisturbType DEF CallFails, RestPart, disk
  <2>4. ToldPart'
    BY <1>21, <2>1, ToldKept DEF CallFails
  <2> QED
    BY <2>1, <2>2, <2>3, <2>4
<1>22. ASSUME ReadFails PROVE TypeInv'
  <2>0. lane \in Kinds
    BY <1>22 DEF ReadFails, RunPart
  <2>1. RunPart' /\ pc' \notin Removing
    BY <1>22, <2>0, RunSteps DEF ReadFails, Codes, Removing
  <2>2. NamesPart'
    BY <1>22, <2>0, ReadsKeepType DEF ReadFails
  <2>3. RestPart'
    BY <1>22, DisturbType DEF ReadFails, RestPart, RecoverFails
  <2>4. ToldPart'
    BY <1>22, <2>1, ToldKept DEF ReadFails
  <2> QED
    BY <2>1, <2>2, <2>3, <2>4
<1>23. ASSUME Confirm PROVE TypeInv'
  <2>0. lane \in Kinds /\ run.tok \in Bundle
    BY <1>23 DEF Confirm, RunPart, Claiming
  <2>1. RunPart' /\ pc' \notin Removing
    BY <1>23, <2>0, RunSteps DEF Confirm, PCs, Removing
  <2>2. NamesPart'
    BY <1>23, ReadsKeepType, KindsApart DEF Confirm, disk
  <2>3. RestPart'
    BY <1>23 DEF Confirm, RestPart, disk, bounds
  <2>4. ToldPart'
    BY <1>23, <2>1, ToldKept DEF Confirm
  <2> QED
    BY <2>1, <2>2, <2>3, <2>4
<1>24. ASSUME Insert PROVE TypeInv'
  <2>0. lane \in Kinds
    BY <1>24 DEF Insert, RunPart
  <2>1. RunPart' /\ pc' \notin Removing
    BY <1>24, RunEnds DEF Insert
  <2>2. NamesPart'
    BY <1>24, ReadsKeepType, KindsApart DEF Insert, disk
  <2>3. RestPart'
    BY <1>24 DEF Insert, RestPart, disk, bounds
  <2>4. ToldPart'
    BY <1>24, <2>1 DEF Insert, ToldPart, RunPart
  <2> QED
    BY <2>1, <2>2, <2>3, <2>4
<1>25. ASSUME GiveUp PROVE TypeInv'
  <2>1. RunPart' /\ pc' \notin Removing
    BY <1>25, RunEnds DEF GiveUp
  <2>2. NamesPart'
    BY <1>25, ReadsKeepType, KindsApart DEF GiveUp, disk
  <2>3. RestPart'
    <3>1. staged' \in Data \cup {"none"} /\ disturbances' \in 0..MaxDisturbances
      BY <1>25, DisturbType DEF GiveUp, RestPart
    <3> QED
      BY <1>25, <3>1 DEF GiveUp, RestPart
  <2>4. ToldPart'
    <3>1. rejected' \in BOOLEAN /\ receipt' \in {"none", "failed", "completed"}
      BY <1>25 DEF GiveUp, ToldPart
    <3> QED
      BY <1>25, <2>1, <3>1 DEF GiveUp, ToldPart
  <2> QED
    BY <2>1, <2>2, <2>3, <2>4
<1>26. ASSUME Normalize PROVE TypeInv'
  <2>0. lane \in Kinds
    BY <1>26 DEF Normalize, RunPart
  <2>1. RunPart' /\ pc' \notin Removing
    BY <1>26, <2>0, RunsKept DEF Normalize, RunPart, lane, PCs, Claiming, Removing, Codes
  <2>2. NamesPart'
    BY <1>26, ReadsKeepType, KindsApart DEF Normalize, disk
  <2>3. RestPart'
    BY <1>26 DEF Normalize, RestPart, disk, bounds
  <2>4. ToldPart'
    BY <1>26, <2>1, ToldKept DEF Normalize
  <2> QED
    BY <2>1, <2>2, <2>3, <2>4
<1>27. ASSUME DropStaging PROVE TypeInv'
  <2>0. lane \in Kinds
    BY <1>27 DEF DropStaging, RunPart
  <2>1. RunPart' /\ pc' \notin Removing
    BY <1>27, <2>0, RunSteps DEF DropStaging, PCs, Claiming, Removing, AfterStaging
  <2>2. NamesPart'
    BY <1>27, ReadsKeepType, KindsApart DEF DropStaging, disk
  <2>3. RestPart'
    BY <1>27 DEF DropStaging, RestPart, bounds
  <2>4. ToldPart'
    BY <1>27, <2>1, ToldKept DEF DropStaging
  <2> QED
    BY <2>1, <2>2, <2>3, <2>4
<1>28. ASSUME DropStagingFails PROVE TypeInv'
  <2>0. lane \in Kinds
    BY <1>28 DEF DropStagingFails, RunPart
  <2>1. RunPart' /\ pc' \notin Removing
    BY <1>28, <2>0, RunsKept DEF DropStagingFails, RunPart, lane, PCs, Claiming, Removing, Codes
  <2>2. NamesPart'
    BY <1>28, ReadsKeepType, KindsApart DEF DropStagingFails, disk
  <2>3. RestPart'
    <3>1. staged' \in Data \cup {"none"}
      BY <1>28 DEF DropStagingFails, RestPart
    <3> QED
      BY <1>28, <3>1, DisturbType DEF DropStagingFails, RestPart
  <2>4. ToldPart'
    BY <1>28, <2>1, ToldKept DEF DropStagingFails
  <2> QED
    BY <2>1, <2>2, <2>3, <2>4
<1>29. ASSUME DropMarker PROVE TypeInv'
  <2>0. lane \in Kinds
    BY <1>29 DEF DropMarker, RunPart
  <2>1. RunPart' /\ pc' \notin Removing
    BY <1>29, <2>0, RunSteps DEF DropMarker, PCs, Claiming, Removing
  <2>2. NamesPart'
    <3>1. CASE UNCHANGED names
      BY <3>1, <2>0, ReadsKeepType
    <3>2. CASE ~UNCHANGED names
      BY <1>29, <3>2, <2>0 DEF DropMarker, NamesPart
    <3> QED
      BY <3>1, <3>2
  <2>3. RestPart'
    BY <1>29 DEF DropMarker, RestPart, bounds
  <2>4. ToldPart'
    BY <1>29, <2>1, ToldKept DEF DropMarker
  <2> QED
    BY <2>1, <2>2, <2>3, <2>4
<1>30. ASSUME DropAnchor PROVE TypeInv'
  <2>0. lane \in Kinds
    BY <1>30 DEF DropAnchor, RunPart
  <2>1. RunPart' /\ pc' \notin Removing
    BY <1>30, <2>0, RunSteps DEF DropAnchor, PCs, Claiming, Removing
  <2>2. NamesPart'
    BY <1>30, <2>0 DEF DropAnchor, NamesPart
  <2>3. RestPart'
    BY <1>30 DEF DropAnchor, RestPart, bounds
  <2>4. ToldPart'
    BY <1>30, <2>1, ToldKept DEF DropAnchor
  <2> QED
    BY <2>1, <2>2, <2>3, <2>4
<1>31. ASSUME DropFails PROVE TypeInv'
  <2>0. lane \in Kinds
    BY <1>31 DEF DropFails, RunPart
  <2>1. RunPart' /\ pc' \notin Removing
    BY <1>31, <2>0, RunSteps DEF DropFails, PCs, Claiming, Removing
  <2>2. NamesPart'
    BY <1>31, <2>0, ReadsKeepType DEF DropFails
  <2>3. RestPart'
    BY <1>31, DisturbType DEF DropFails, RestPart, RecoverFails
  <2>4. ToldPart'
    BY <1>31, <2>1, ToldKept DEF DropFails
  <2> QED
    BY <2>1, <2>2, <2>3, <2>4
<1>32. ASSUME Reject PROVE TypeInv'
  <2>0. lane \in Kinds
    BY <1>32 DEF Reject, RunPart
  <2>1. RunPart' /\ pc' \notin Removing
    BY <1>32, <2>0, RunSteps DEF Reject, PCs, Claiming, Removing
  <2>2. NamesPart'
    BY <1>32, ReadsKeepType, KindsApart DEF Reject, disk
  <2>3. RestPart'
    BY <1>32 DEF Reject, RestPart, disk, bounds
  <2>4. ToldPart'
    BY <1>32, <2>1 DEF Reject, ToldPart
  <2> QED
    BY <2>1, <2>2, <2>3, <2>4
<1>33. ASSUME WriteReceipt PROVE TypeInv'
  <2>1. RunPart' /\ pc' \notin Removing
    BY <1>33, RunEnds DEF WriteReceipt
  <2>2. NamesPart'
    BY <1>33, ReadsKeepType, KindsApart DEF WriteReceipt, disk
  <2>3. RestPart'
    BY <1>33 DEF WriteReceipt, RestPart, disk, bounds
  <2>4. ToldPart'
    BY <1>33, <2>1 DEF WriteReceipt, ToldPart
  <2> QED
    BY <2>1, <2>2, <2>3, <2>4
<1>34. ASSUME TellFails PROVE TypeInv'
  <2>1. RunPart' /\ pc' \notin Removing
    BY <1>34, RunEnds DEF TellFails
  <2>2. NamesPart'
    BY <1>34, ReadsKeepType, KindsApart DEF TellFails, disk
  <2>3. RestPart'
    BY <1>34, DisturbType DEF TellFails, RestPart, disk
  <2>4. ToldPart'
    BY <1>34, <2>1, ToldKept DEF TellFails
  <2> QED
    BY <2>1, <2>2, <2>3, <2>4
<1>35. ASSUME RemoveRead PROVE TypeInv'
  <2>0. lane \in Kinds /\ pc \in Removing
    BY <1>35 DEF RemoveRead, RunPart, Removing
  <2>1. RunPart' /\ (run'.lane = run.lane \/ pc' = "scan")
    <3>1. CASE \E again \in BOOLEAN : RemoveEnds(again)
      BY <3>1, RunEnds DEF RemoveEnds
    <3>2. CASE /\ pc' \in {"rmMarker", "rmMove", "rmEntry"}
               /\ run' = [run EXCEPT !.res = Seen(lane), !.tok = TokenOf(lane)]
      <4>1. Seen(lane) \in Files \cup {NoFile} /\ TokenOf(lane) \in MaybeBundle
        BY <2>0, ReadsKeepType
      <4>2. run' \in Runs /\ run'.lane = run.lane
        BY <3>2, <4>1 DEF RunPart, Runs
      <4> QED
        BY <3>2, <4>2, <2>0 DEF RunPart, lane, PCs, Claiming, Removing
    <3> QED
      BY <1>35, <3>1, <3>2 DEF RemoveRead
  <2>2. NamesPart'
    BY <1>35, <2>0, ReadsKeepType DEF RemoveRead
  <2>3. RestPart'
    BY <1>35 DEF RemoveRead, RestPart, bounds
  <2>4. ToldPart'
    BY <1>35, <2>0, <2>1, ToldKept DEF RemoveRead
  <2> QED
    BY <2>1, <2>2, <2>3, <2>4
<1>36. ASSUME RemoveMove PROVE TypeInv'
  <2>0. lane \in Kinds /\ pc \in Removing
    BY <1>36 DEF RemoveMove, RunPart, Removing
  <2>1. RunPart' /\ (run'.lane = run.lane \/ pc' = "scan")
    <3>1. CASE \E again \in BOOLEAN : RemoveEnds(again)
      BY <1>36, <3>1, RunEnds DEF RemoveMove, RemoveEnds
    <3>2. CASE Go("rmCheck")
      BY <1>36, <3>2, <2>0, RunSteps DEF RemoveMove, Go, PCs, Claiming
    <3> QED
      BY <1>36, <3>1, <3>2 DEF RemoveMove
  <2>2. NamesPart'
    BY <1>36, ReadsKeepType, KindsApart DEF RemoveMove, disk
  <2>3. RestPart'
    <3>1. CASE bundle[lane] = NoBundle
      BY <1>36, <3>1 DEF RemoveMove, RestPart, bounds
    <3>2. CASE bundle[lane] # NoBundle
      BY <1>36, <3>2, <2>0, Values, QueueAssumption DEF RemoveMove, RestPart, bounds
    <3> QED
      BY <3>1, <3>2
  <2>4. ToldPart'
    BY <1>36, <2>0, <2>1, ToldKept DEF RemoveMove, Go
  <2> QED
    BY <2>1, <2>2, <2>3, <2>4
<1>37. ASSUME RemoveCheck PROVE TypeInv'
  <2>0. lane \in Kinds /\ pc \in Removing
    BY <1>37 DEF RemoveCheck, RunPart, Removing
  <2>1. RunPart' /\ (run'.lane = run.lane \/ pc' = "scan")
    <3>1. CASE \E again \in BOOLEAN : RemoveEnds(again)
      BY <1>37, <3>1, RunEnds DEF RemoveCheck, RemoveEnds
    <3>2. CASE Go("rmEntry")
      BY <1>37, <3>2, <2>0, RunSteps DEF RemoveCheck, Go, PCs, Claiming
    <3> QED
      BY <1>37, <3>1, <3>2 DEF RemoveCheck
  <2>2. NamesPart'
    BY <1>37, ReadsKeepType, KindsApart DEF RemoveCheck, disk
  <2>3. RestPart'
    BY <1>37 DEF RemoveCheck, RestPart, disk, bounds
  <2>4. ToldPart'
    BY <1>37, <2>0, <2>1, ToldKept DEF RemoveCheck, Go
  <2> QED
    BY <2>1, <2>2, <2>3, <2>4
<1>38. ASSUME RemoveEntry PROVE TypeInv'
  <2>0. lane \in Kinds /\ pc \in Removing
    BY <1>38 DEF RemoveEntry, RunPart, Removing
  <2>1. RunPart' /\ (run'.lane = run.lane \/ pc' = "scan")
    <3>1. CASE \E again \in BOOLEAN : RemoveEnds(again)
      BY <1>38, <3>1, RunEnds DEF RemoveEntry, RemoveEnds
    <3>2. CASE Go("rmEntry")
      BY <1>38, <3>2, <2>0, RunSteps DEF RemoveEntry, Go, PCs, Claiming
    <3> QED
      BY <1>38, <3>1, <3>2 DEF RemoveEntry
  <2>2. NamesPart'
    BY <1>38, ReadsKeepType, KindsApart DEF RemoveEntry, disk
  <2>3. RestPart'
    <3>1. left' \in {left, [left EXCEPT ![lane] = @ - 1]} /\ left[lane] > 0
      BY <1>38 DEF RemoveEntry
    <3>2. left[lane] \in 0..Entries /\ left[lane] - 1 \in 0..Entries
      BY <3>1, <2>0, QueueAssumption DEF RestPart
    <3>3. left' \in [Kinds -> 0..Entries]
      BY <3>1, <3>2 DEF RestPart
    <3> QED
      BY <1>38, <3>3 DEF RemoveEntry, RestPart, bounds
  <2>4. ToldPart'
    BY <1>38, <2>0, <2>1, ToldKept DEF RemoveEntry, Go
  <2> QED
    BY <2>1, <2>2, <2>3, <2>4
<1>39. ASSUME RemoveDirectory PROVE TypeInv'
  <2>0. lane \in Kinds /\ pc \in Removing
    BY <1>39 DEF RemoveDirectory, RunPart, Removing
  <2>1. RunPart' /\ (run'.lane = run.lane \/ pc' = "scan")
    <3>1. CASE \E again \in BOOLEAN : RemoveEnds(again)
      BY <1>39, <3>1, RunEnds DEF RemoveDirectory, RemoveEnds
    <3>2. CASE Go("rmMarker")
      BY <1>39, <3>2, <2>0, RunSteps DEF RemoveDirectory, Go, PCs, Claiming
    <3> QED
      BY <1>39, <3>1, <3>2 DEF RemoveDirectory
  <2>2. NamesPart'
    BY <1>39, ReadsKeepType, KindsApart DEF RemoveDirectory, disk
  <2>3. RestPart'
    BY <1>39, <2>0, Values DEF RemoveDirectory, RestPart, bounds
  <2>4. ToldPart'
    BY <1>39, <2>0, <2>1, ToldKept DEF RemoveDirectory, Go
  <2> QED
    BY <2>1, <2>2, <2>3, <2>4
<1>40. ASSUME RemoveMarker PROVE TypeInv'
  <2>0. lane \in Kinds /\ pc \in Removing
    BY <1>40 DEF RemoveMarker, RunPart, Removing
  <2>1. RunPart' /\ (run'.lane = run.lane \/ pc' = "scan")
    <3>1. CASE \E again \in BOOLEAN : RemoveEnds(again)
      BY <1>40, <3>1, RunEnds DEF RemoveMarker, RemoveEnds
    <3>2. CASE Go("rmAnchor")
      BY <1>40, <3>2, <2>0, RunSteps DEF RemoveMarker, Go, PCs, Claiming
    <3> QED
      BY <1>40, <3>1, <3>2 DEF RemoveMarker
  <2>2. NamesPart'
    <3>1. CASE UNCHANGED names
      BY <3>1, <2>0, ReadsKeepType
    <3>2. CASE ~UNCHANGED names
      BY <1>40, <3>2, <2>0 DEF RemoveMarker, NamesPart
    <3> QED
      BY <3>1, <3>2
  <2>3. RestPart'
    BY <1>40 DEF RemoveMarker, RestPart, bounds
  <2>4. ToldPart'
    BY <1>40, <2>0, <2>1, ToldKept DEF RemoveMarker, Go
  <2> QED
    BY <2>1, <2>2, <2>3, <2>4
<1>41. ASSUME RemoveAnchor PROVE TypeInv'
  <2>0. lane \in Kinds /\ pc \in Removing
    BY <1>41 DEF RemoveAnchor, RunPart, Removing
  <2>1. RunPart' /\ (run'.lane = run.lane \/ pc' = "scan")
    <3>1. CASE \E again \in BOOLEAN : RemoveEnds(again)
      BY <1>41, <3>1, RunEnds DEF RemoveAnchor, RemoveEnds
    <3>2. CASE Go("rmAnchor")
      BY <1>41, <3>2, <2>0, RunSteps DEF RemoveAnchor, Go, PCs, Claiming
    <3> QED
      BY <1>41, <3>1, <3>2 DEF RemoveAnchor
  <2>2. NamesPart'
    BY <1>41, <2>0 DEF RemoveAnchor, NamesPart
  <2>3. RestPart'
    BY <1>41 DEF RemoveAnchor, RestPart, bounds
  <2>4. ToldPart'
    BY <1>41, <2>0, <2>1, ToldKept DEF RemoveAnchor, Go
  <2> QED
    BY <2>1, <2>2, <2>3, <2>4
<1>42. ASSUME RemoveFails PROVE TypeInv'
  <2>0. lane \in Kinds /\ pc \in Removing
    BY <1>42 DEF RemoveFails, RunPart, Removing
  <2>1. RunPart' /\ (run'.lane = run.lane \/ pc' = "scan")
    <3>1. CASE \E again \in BOOLEAN : RemoveEnds(again)
      BY <1>42, <3>1, RunEnds DEF RemoveFails, RemoveEnds
    <3>2. CASE Go("rmAnchor")
      BY <1>42, <3>2, <2>0, RunSteps DEF RemoveFails, Go, PCs, Claiming
    <3> QED
      BY <1>42, <3>1, <3>2 DEF RemoveFails
  <2>2. NamesPart'
    BY <1>42, <2>0, ReadsKeepType DEF RemoveFails
  <2>3. RestPart'
    <3>1. left' \in {left, [left EXCEPT ![lane] = @ - 1]} /\ (left' # left => left[lane] > 0)
      BY <1>42 DEF RemoveFails
    <3>2. left[lane] \in 0..Entries /\ (left[lane] > 0 => left[lane] - 1 \in 0..Entries)
      BY <2>0, QueueAssumption DEF RestPart
    <3>3. left' \in [Kinds -> 0..Entries]
      BY <3>1, <3>2 DEF RestPart
    <3> QED
      BY <1>42, <3>3, DisturbType DEF RemoveFails, RestPart, RecoverFails
  <2>4. ToldPart'
    BY <1>42, <2>0, <2>1, ToldKept DEF RemoveFails, Go
  <2> QED
    BY <2>1, <2>2, <2>3, <2>4
<1>43. ASSUME CompleteJob PROVE TypeInv'
  <2>1. RunPart' /\ pc' \notin Removing
    BY <1>43 DEF CompleteJob, RunPart, lane, PCs, Claiming, Removing, Codes
  <2>2. NamesPart'
    BY <1>43, ReadsKeepType, KindsApart DEF CompleteJob, disk
  <2>3. RestPart'
    <3>1. staged' \in Data \cup {"none"}
      BY <1>43 DEF CompleteJob, RestPart
    <3> QED
      BY <1>43, <3>1 DEF CompleteJob, RestPart, bounds
  <2>4. ToldPart'
    BY <1>43, <2>1 DEF CompleteJob, ToldPart
  <2> QED
    BY <2>1, <2>2, <2>3, <2>4
<1>44. ASSUME Crash PROVE TypeInv'
  <2>1. RunPart' /\ pc' \notin Removing
    BY <1>44, RunEnds DEF Crash
  <2>2. NamesPart'
    BY <1>44, ReadsKeepType, KindsApart DEF Crash, disk
  <2>3. RestPart'
    BY <1>44, Values, DisturbType DEF Crash, RestPart, disk
  <2>4. ToldPart'
    BY <1>44, <2>1, ToldKept DEF Crash
  <2> QED
    BY <2>1, <2>2, <2>3, <2>4
<1>45. ASSUME NEW k \in Kinds, Deliver(k) PROVE TypeInv'
  <2>1. RunPart' /\ pc' = pc /\ lane' = lane
    BY <1>45 DEF Deliver, RunPart, lane
  <2>2. NamesPart'
    BY <1>45, ReadsKeepType, KindsApart DEF Deliver, disk
  <2>3. RestPart'
    <3>1. PICK d \in Data : bundle' = [bundle EXCEPT ![k] = Stamped(d)]
      BY <1>45 DEF Deliver
    <3>2. Stamped(d) \in MaybeBundle
      BY <1>45, StampedType, Values DEF Deliver, RestPart
    <3>3. bundle' \in [Kinds -> MaybeBundle] /\ stamp' \in 0..MaxStamp
      BY <1>45, <3>1, <3>2, QueueAssumption DEF Deliver, RestPart
    <3> QED
      BY <1>45, <3>3 DEF Deliver, RestPart
  <2>4. ToldPart'
    BY <1>45, <2>1 DEF Deliver, ToldPart, told
  <2> QED
    BY <2>1, <2>2, <2>3, <2>4
<1>46. ASSUME NEW k \in Kinds, Change(k) PROVE TypeInv'
  <2>1. RunPart' /\ pc' = pc /\ lane' = lane
    BY <1>46 DEF Change, RunPart, lane
  <2>2. NamesPart'
    BY <1>46, ReadsKeepType, KindsApart DEF Change, disk
  <2>3. RestPart'
    <3>1. PICK d \in Data :
            \/ bundle' = [bundle EXCEPT ![k] = Stamped(d)] /\ cleanup' = cleanup
            \/ cleanup' = [cleanup EXCEPT ![k] = Stamped(d)] /\ bundle' = bundle
      <4>1. CASE bundle[k] # NoBundle /\ cleanup' = cleanup
        BY <1>46, <4>1 DEF Change
      <4>2. CASE cleanup[k] # NoBundle /\ bundle' = bundle
        BY <1>46, <4>2 DEF Change
      <4> QED
        BY <1>46, <4>1, <4>2 DEF Change
    <3>2. Stamped(d) \in MaybeBundle
      BY <1>46, StampedType, Values DEF Change, RestPart
    <3>3. bundle' \in [Kinds -> MaybeBundle] /\ cleanup' \in [Kinds -> MaybeBundle]
      BY <3>1, <3>2 DEF RestPart
    <3>4. stamp' \in 0..MaxStamp
      BY <1>46, QueueAssumption DEF Change, RestPart
    <3> QED
      BY <1>46, <3>3, <3>4, DisturbType DEF Change, RestPart
  <2>4. ToldPart'
    BY <1>46, <2>1 DEF Change, ToldPart, told
  <2> QED
    BY <2>1, <2>2, <2>3, <2>4
<1>47. ASSUME NEW k \in Kinds, Withdraw(k) PROVE TypeInv'
  <2>1. RunPart' /\ pc' = pc /\ lane' = lane
    BY <1>47 DEF Withdraw, RunPart, lane
  <2>2. NamesPart'
    BY <1>47, ReadsKeepType, KindsApart DEF Withdraw, disk
  <2>3. RestPart'
    BY <1>47, Values, DisturbType DEF Withdraw, RestPart
  <2>4. ToldPart'
    BY <1>47, <2>1 DEF Withdraw, ToldPart, told
  <2> QED
    BY <2>1, <2>2, <2>3, <2>4
<1>48. CASE UNCHANGED vars
  BY <1>48 DEF TypeInv, RunPart, NamesPart, RestPart, ToldPart, lane, vars, disk, told, bounds, names
<1> QED
  BY <1>1, <1>2, <1>3, <1>4, <1>5, <1>6, <1>7, <1>8, <1>9, <1>10, <1>11, <1>12, <1>13,
     <1>14, <1>15, <1>16, <1>17, <1>18, <1>19, <1>20, <1>21, <1>22, <1>23, <1>24, <1>25, <1>26,
     <1>27, <1>28, <1>29, <1>30, <1>31, <1>32, <1>33, <1>34, <1>35, <1>36, <1>37, <1>38, <1>39,
     <1>40, <1>41, <1>42, <1>43, <1>44, <1>45, <1>46, <1>47, <1>48
  DEF Next, ScanStep, ClaimStep, RemoveStep, FaultStep, OutsideStep

-----------------------------------------------------------------------------
(* Control.                                                                *)

\* A claim runs only for an id without a job and without a rejection, a removal
\* only for a completed job; a moved bundle belongs to the job.
ControlInv ==
  /\ pc \in Claiming \cup Catching => job = "none"
  /\ pc \in Claiming => ~rejected
  /\ pc \in Removing => receipt = "completed"
  /\ owed => receipt = "completed"
  /\ receipt = "completed" => job # "none"
  /\ \A k \in Kinds : cleanup[k] # NoBundle => job = k

LEMMA ControlSteps ==
  ASSUME TypeInv, TypeInv', ControlInv, Next
  PROVE  ControlInv'
<1> USE DEF ControlInv, Claiming, Catching, Removing, told, disk, names, bounds
<1>1. ASSUME Poll PROVE ControlInv'
  BY <1>1 DEF Poll
<1>2. ASSUME ScanNothing PROVE ControlInv'
  BY <1>2 DEF ScanNothing
<1>3. ASSUME NEW k \in Kinds, ScanCollision(k) PROVE ControlInv'
  BY <1>3 DEF ScanCollision, RecoverFails, Disturb
<1>4. ASSUME NEW k \in Kinds, ScanObserves(k) PROVE ControlInv'
  BY <1>4 DEF ScanObserves, Recover
<1>5. ASSUME NEW k \in Kinds, ScanReady(k) PROVE ControlInv'
  BY <1>5 DEF ScanReady, Recover
<1>6. ASSUME Begin PROVE ControlInv'
  BY <1>6 DEF Begin, Fail
<1>7. ASSUME ReadExisting PROVE ControlInv'
  BY <1>7 DEF ReadExisting, Recover, Drift, Fail, Go
<1>8. ASSUME Stage PROVE ControlInv'
  BY <1>8 DEF Stage, Drift, Fail, Go
<1>9. ASSUME Copy PROVE ControlInv'
  BY <1>9 DEF Copy, Go, Fail
<1>10. ASSUME Acquire PROVE ControlInv'
  BY <1>10 DEF Acquire, Recover, Drift, Fail, Go, AfterAcquire
<1>11. ASSUME Create PROVE ControlInv'
  BY <1>11 DEF Create, Fail
<1>12. ASSUME Write PROVE ControlInv'
  BY <1>12 DEF Write, AfterAcquire
<1>13. ASSUME Publish PROVE ControlInv'
  BY <1>13 DEF Publish
<1>14. ASSUME Settle PROVE ControlInv'
  BY <1>14 DEF Settle, Drift, Fail
<1>15. ASSUME Commit PROVE ControlInv'
  BY <1>15 DEF Commit, Fail, Go
<1>16. ASSUME Detach PROVE ControlInv'
  BY <1>16 DEF Detach, Go
<1>17. ASSUME Relink PROVE ControlInv'
  BY <1>17 DEF Relink, Fail, Go
<1>18. ASSUME Tidy PROVE ControlInv'
  BY <1>18 DEF Tidy, Go
<1>19. ASSUME Confirm PROVE ControlInv'
  BY <1>19 DEF Confirm, Drift, Fail, Go
<1>20. ASSUME Insert PROVE ControlInv'
  BY <1>20, KindsApart DEF Insert, TypeInv, RunPart, lane
<1>21. ASSUME GiveUp PROVE ControlInv'
  BY <1>21 DEF GiveUp, Disturb
<1>22. ASSUME Normalize PROVE ControlInv'
  BY <1>22 DEF Normalize
<1>23. ASSUME DropStaging PROVE ControlInv'
  BY <1>23 DEF DropStaging, Go, AfterStaging
<1>24. ASSUME DropMarker PROVE ControlInv'
  BY <1>24 DEF DropMarker, Go
<1>25. ASSUME DropAnchor PROVE ControlInv'
  BY <1>25 DEF DropAnchor, Go
<1>26. ASSUME Reject PROVE ControlInv'
  BY <1>26 DEF Reject, Go
<1>27. ASSUME WriteReceipt PROVE ControlInv'
  BY <1>27 DEF WriteReceipt
<1>28. ASSUME RemoveRead PROVE ControlInv'
  BY <1>28 DEF RemoveRead, Recover, RemoveEnds
<1>29. ASSUME RemoveMove PROVE ControlInv'
    <2>1. CASE bundle[lane] = NoBundle
    BY <1>29, <2>1 DEF RemoveMove, RemoveEnds
    <2>2. CASE bundle[lane] # NoBundle
      <3>1. \A k \in Kinds : cleanup'[k] = cleanup[k] \/ k = lane
      BY <1>29, <2>2 DEF RemoveMove, TypeInv, RestPart
      <3>2. job = lane /\ pc' = "rmCheck"
      BY <1>29, <2>2 DEF RemoveMove, Go, TypeInv, ToldPart
      <3> QED
      BY <1>29, <2>2, <3>1, <3>2 DEF RemoveMove
    <2> QED
    BY <2>1, <2>2
<1>30. ASSUME RemoveCheck PROVE ControlInv'
  BY <1>30 DEF RemoveCheck, RemoveEnds, Go
<1>31. ASSUME RemoveEntry PROVE ControlInv'
  BY <1>31 DEF RemoveEntry, RemoveEnds, Go
<1>32. ASSUME RemoveDirectory PROVE ControlInv'
  BY <1>32 DEF RemoveDirectory, Go
<1>33. ASSUME RemoveMarker PROVE ControlInv'
  BY <1>33 DEF RemoveMarker, RemoveEnds, Go
<1>34. ASSUME RemoveAnchor PROVE ControlInv'
  BY <1>34 DEF RemoveAnchor, RemoveEnds
<1>35. ASSUME CompleteJob PROVE ControlInv'
  BY <1>35 DEF CompleteJob
<1>36. ASSUME WriteFails PROVE ControlInv'
  BY <1>36 DEF WriteFails, Disturb
<1>37. ASSUME PublicationFails PROVE ControlInv'
  BY <1>37 DEF PublicationFails, Disturb, Recover, Fail
<1>38. ASSUME CallFails PROVE ControlInv'
  BY <1>38 DEF CallFails, Disturb, Fail, ClaimCalls
<1>39. ASSUME ReadFails PROVE ControlInv'
  BY <1>39 DEF ReadFails, RecoverFails, Disturb, Fail
<1>40. ASSUME DropStagingFails PROVE ControlInv'
  BY <1>40 DEF DropStagingFails, Disturb
<1>41. ASSUME DropFails PROVE ControlInv'
  BY <1>41 DEF DropFails, RecoverFails, Disturb, Go
<1>42. ASSUME TellFails PROVE ControlInv'
  BY <1>42 DEF TellFails, Disturb
<1>43. ASSUME RemoveFails PROVE ControlInv'
  BY <1>43 DEF RemoveFails, RecoverFails, Disturb, RemoveEnds
<1>44. ASSUME Crash PROVE ControlInv'
  BY <1>44 DEF Crash, Disturb
<1>45. ASSUME NEW k \in Kinds, Deliver(k) PROVE ControlInv'
  BY <1>45 DEF Deliver
<1>46. ASSUME NEW k \in Kinds, Change(k) PROVE ControlInv'
    <2>1. \A x \in Kinds : cleanup'[x] # NoBundle => cleanup[x] # NoBundle
      <3>1. CASE cleanup' = cleanup
      BY <3>1
      <3>2. CASE cleanup' # cleanup
      BY <1>46, <3>2 DEF Change, TypeInv, RestPart
      <3> QED
      BY <3>1, <3>2
    <2> QED
    BY <1>46, <2>1 DEF Change
<1>47. ASSUME NEW k \in Kinds, Withdraw(k) PROVE ControlInv'
  BY <1>47 DEF Withdraw, Disturb
<1> QED
  BY <1>1, <1>2, <1>3, <1>4, <1>5, <1>6, <1>7, <1>8, <1>9, <1>10, <1>11, <1>12, <1>13,
     <1>14, <1>15, <1>16, <1>17, <1>18, <1>19, <1>20, <1>21, <1>22, <1>23, <1>24, <1>25, <1>26,
     <1>27, <1>28, <1>29, <1>30, <1>31, <1>32, <1>33, <1>34, <1>35, <1>36, <1>37, <1>38, <1>39,
     <1>40, <1>41, <1>42, <1>43, <1>44, <1>45, <1>46, <1>47
    DEF Next, ScanStep, ClaimStep, RemoveStep, FaultStep, OutsideStep

\* Once it was read, the bundle in hand is sound.
SoundToken == pc \in Claiming \ {"begin"} => run.tok.data \notin Unsound

LEMMA SoundTokenSteps ==
  ASSUME TypeInv, TypeInv', SoundToken, Next
  PROVE  SoundToken'
<1> USE DEF SoundToken, Claiming, TypeInv, RunPart, Runs
<1>1. ASSUME Poll PROVE SoundToken'
  BY <1>1 DEF Poll
<1>2. ASSUME ScanNothing PROVE SoundToken'
  BY <1>2 DEF ScanNothing
<1>3. ASSUME NEW k \in Kinds, ScanCollision(k) PROVE SoundToken'
  BY <1>3 DEF ScanCollision, RecoverFails, Disturb
<1>4. ASSUME NEW k \in Kinds, ScanObserves(k) PROVE SoundToken'
  BY <1>4 DEF ScanObserves, Recover
<1>5. ASSUME NEW k \in Kinds, ScanReady(k) PROVE SoundToken'
  BY <1>5 DEF ScanReady, Recover
<1>6. ASSUME Begin PROVE SoundToken'
  BY <1>6 DEF Begin, Fail
<1>7. ASSUME ReadExisting PROVE SoundToken'
  BY <1>7 DEF ReadExisting, Recover, Drift, Fail, Go
<1>8. ASSUME Stage PROVE SoundToken'
  BY <1>8 DEF Stage, Drift, Fail, Go
<1>9. ASSUME Copy PROVE SoundToken'
  BY <1>9 DEF Copy, Go, Fail
<1>10. ASSUME Acquire PROVE SoundToken'
  BY <1>10 DEF Acquire, Recover, Drift, Fail, Go, AfterAcquire
<1>11. ASSUME Create PROVE SoundToken'
  BY <1>11 DEF Create, Fail
<1>12. ASSUME Write PROVE SoundToken'
  BY <1>12 DEF Write, AfterAcquire
<1>13. ASSUME Publish PROVE SoundToken'
  BY <1>13 DEF Publish
<1>14. ASSUME Settle PROVE SoundToken'
  BY <1>14 DEF Settle, Drift, Fail
<1>15. ASSUME Commit PROVE SoundToken'
  BY <1>15 DEF Commit, Fail, Go
<1>16. ASSUME Detach PROVE SoundToken'
  BY <1>16 DEF Detach, Go
<1>17. ASSUME Relink PROVE SoundToken'
  BY <1>17 DEF Relink, Fail, Go
<1>18. ASSUME Tidy PROVE SoundToken'
  BY <1>18 DEF Tidy, Go
<1>19. ASSUME Confirm PROVE SoundToken'
  BY <1>19 DEF Confirm, Drift, Fail, Go
<1>20. ASSUME Insert PROVE SoundToken'
  BY <1>20 DEF Insert
<1>21. ASSUME GiveUp PROVE SoundToken'
  BY <1>21 DEF GiveUp, Disturb
<1>22. ASSUME Normalize PROVE SoundToken'
  BY <1>22 DEF Normalize
<1>23. ASSUME DropStaging PROVE SoundToken'
  BY <1>23 DEF DropStaging, Go, AfterStaging
<1>24. ASSUME DropMarker PROVE SoundToken'
  BY <1>24 DEF DropMarker, Go
<1>25. ASSUME DropAnchor PROVE SoundToken'
  BY <1>25 DEF DropAnchor, Go
<1>26. ASSUME Reject PROVE SoundToken'
  BY <1>26 DEF Reject, Go
<1>27. ASSUME WriteReceipt PROVE SoundToken'
  BY <1>27 DEF WriteReceipt
<1>28. ASSUME RemoveRead PROVE SoundToken'
  BY <1>28 DEF RemoveRead, Recover, RemoveEnds
<1>29. ASSUME RemoveMove PROVE SoundToken'
  BY <1>29 DEF RemoveMove, RemoveEnds, Go
<1>30. ASSUME RemoveCheck PROVE SoundToken'
  BY <1>30 DEF RemoveCheck, RemoveEnds, Go
<1>31. ASSUME RemoveEntry PROVE SoundToken'
  BY <1>31 DEF RemoveEntry, RemoveEnds, Go
<1>32. ASSUME RemoveDirectory PROVE SoundToken'
  BY <1>32 DEF RemoveDirectory, Go
<1>33. ASSUME RemoveMarker PROVE SoundToken'
  BY <1>33 DEF RemoveMarker, RemoveEnds, Go
<1>34. ASSUME RemoveAnchor PROVE SoundToken'
  BY <1>34 DEF RemoveAnchor, RemoveEnds
<1>35. ASSUME CompleteJob PROVE SoundToken'
  BY <1>35 DEF CompleteJob
<1>36. ASSUME WriteFails PROVE SoundToken'
  BY <1>36 DEF WriteFails, Disturb
<1>37. ASSUME PublicationFails PROVE SoundToken'
  BY <1>37 DEF PublicationFails, Disturb, Recover, Fail
<1>38. ASSUME CallFails PROVE SoundToken'
  BY <1>38 DEF CallFails, Disturb, Fail, ClaimCalls
<1>39. ASSUME ReadFails PROVE SoundToken'
  BY <1>39 DEF ReadFails, RecoverFails, Disturb, Fail
<1>40. ASSUME DropStagingFails PROVE SoundToken'
  BY <1>40 DEF DropStagingFails, Disturb
<1>41. ASSUME DropFails PROVE SoundToken'
  BY <1>41 DEF DropFails, RecoverFails, Disturb, Go
<1>42. ASSUME TellFails PROVE SoundToken'
  BY <1>42 DEF TellFails, Disturb
<1>43. ASSUME RemoveFails PROVE SoundToken'
  BY <1>43 DEF RemoveFails, RecoverFails, Disturb, RemoveEnds
<1>44. ASSUME Crash PROVE SoundToken'
  BY <1>44 DEF Crash, Disturb
<1>45. ASSUME NEW k \in Kinds, Deliver(k) PROVE SoundToken'
  BY <1>45 DEF Deliver
<1>46. ASSUME NEW k \in Kinds, Change(k) PROVE SoundToken'
  BY <1>46 DEF Change, Disturb
<1>47. ASSUME NEW k \in Kinds, Withdraw(k) PROVE SoundToken'
  BY <1>47 DEF Withdraw, Disturb
<1> QED
  BY <1>1, <1>2, <1>3, <1>4, <1>5, <1>6, <1>7, <1>8, <1>9, <1>10, <1>11, <1>12, <1>13,
     <1>14, <1>15, <1>16, <1>17, <1>18, <1>19, <1>20, <1>21, <1>22, <1>23, <1>24, <1>25, <1>26,
     <1>27, <1>28, <1>29, <1>30, <1>31, <1>32, <1>33, <1>34, <1>35, <1>36, <1>37, <1>38, <1>39,
     <1>40, <1>41, <1>42, <1>43, <1>44, <1>45, <1>46, <1>47
    DEF Next, ScanStep, ClaimStep, RemoveStep, FaultStep, OutsideStep

-----------------------------------------------------------------------------
(* The three names.                                                        *)

\* The names of a lane are names of one file, the quarantine never the only one.
Agree(k) ==
  /\ marker[k] # NoFile /\ anchor[k] # NoFile => marker[k] = anchor[k]
  /\ quarantine[k] # NoFile => Seen(k) = quarantine[k]

\* Marker and foreign bundle exclude each other, as do the markers of the lanes,
\* and a job has no quarantine left over.
NamesInv ==
  /\ \A k \in Kinds : Agree(k)
  /\ \A k \in Kinds : marker[k] # NoFile => bundle[Other(k)] = NoBundle
  /\ OneMarker
  /\ \A k \in Kinds : Seen(k) # NoFile => Seen(k) # Seen(Other(k))
  /\ pc \in Claiming \cup Catching => marker[Other(lane)] = NoFile
  /\ job # "none" => quarantine[job] = NoFile

\* Where the reservation in hand is at each point of the claim.
PlaceInv ==
  /\ pc = "create" => Seen(lane) = NoFile
  /\ pc = "write" => marker[lane] = run.res /\ anchor[lane] = NoFile /\ quarantine[lane] = NoFile
  /\ pc \in {"detach", "tidy", "confirm", "claimed"} => marker[lane] = run.res
  /\ pc \in {"detach", "relink", "tidy", "confirm", "claimed"} =>
       anchor[lane] = run.res /\ run.res \in Files
  /\ pc \in {"relink", "tidy"} => quarantine[lane] = run.res
  /\ pc \in {"detach", "confirm", "claimed"} => quarantine[lane] = NoFile
  /\ pc \in {"dropAnchor", "rmAnchor"} => marker[lane] = NoFile /\ quarantine[lane] = NoFile

\* While the names agree, they are the names of the file that is seen.
LEMMA AgreedNames ==
  ASSUME NEW k \in Kinds, Agree(k)
  PROVE  /\ NamesOf(k) = {Seen(k)} \ {NoFile}
         /\ Seen(k) = NoFile <=> NamesOf(k) = {}
         /\ Unreserved(k) => marker[k] = NoFile /\ anchor[k] = NoFile /\ quarantine[k] = NoFile
  BY DEF Agree, NamesOf, Seen, Unreserved

\* A read moves no name of the other lane and changes no file that is seen.
LEMMA RecoverEffect ==
  ASSUME NEW k \in Kinds, NamesPart, \A x \in Kinds : Agree(x), Recover(k)
  PROVE  /\ anchor' = anchor /\ content' = content
         /\ quarantine'[k] = NoFile
         /\ marker'[k] = IF quarantine[k] # NoFile THEN Seen(k) ELSE marker[k]
         /\ \A x \in Kinds \ {k} : marker'[x] = marker[x] /\ quarantine'[x] = quarantine[x]
         /\ \A x \in Kinds : Agree(x)' /\ Seen(x)' = Seen(x)
<1>1. /\ anchor' = anchor /\ content' = content
      /\ quarantine'[k] = NoFile
      /\ marker'[k] = IF quarantine[k] # NoFile THEN Seen(k) ELSE marker[k]
      /\ \A x \in Kinds \ {k} : marker'[x] = marker[x] /\ quarantine'[x] = quarantine[x]
  BY DEF NamesPart, Recover, Agree
<1>2. ASSUME NEW x \in Kinds PROVE Agree(x)' /\ Seen(x)' = Seen(x)
  BY <1>1 DEF Agree, Seen
<1> QED
  BY <1>1, <1>2

\* Nor does a read that fails.
LEMMA RecoverFailsEffect ==
  ASSUME NEW k \in Kinds, NamesPart, \A x \in Kinds : Agree(x), RecoverFails(k)
  PROVE  /\ anchor' = anchor /\ content' = content /\ quarantine' = quarantine
         /\ \/ marker' = marker
            \/ Readable(k) /\ quarantine[k] # NoFile /\ marker'[k] = Seen(k)
         /\ \A x \in Kinds \ {k} : marker'[x] = marker[x]
         /\ \A x \in Kinds : Agree(x)' /\ Seen(x)' = Seen(x)
<1>1. /\ anchor' = anchor /\ content' = content /\ quarantine' = quarantine
      /\ \/ marker' = marker
         \/ Readable(k) /\ quarantine[k] # NoFile /\ marker'[k] = Seen(k)
      /\ \A x \in Kinds \ {k} : marker'[x] = marker[x]
  BY DEF NamesPart, RecoverFails, Agree, names
<1>2. ASSUME NEW x \in Kinds PROVE Agree(x)' /\ Seen(x)' = Seen(x)
  BY <1>1 DEF Agree, Seen
<1> QED
  BY <1>1, <1>2

\* Nothing but a scan begins a claim, and a claim stays in its lane.
LEMMA StaySteps ==
  ASSUME TypeInv, Next
  PROVE  pc' \in Claiming \cup Catching /\ pc # "scan" =>
           pc \in Claiming \cup Catching /\ lane' = lane
<1> DEFINE Stay == pc' \in Claiming \cup Catching /\ pc # "scan" =>
           pc \in Claiming \cup Catching /\ lane' = lane
<1> SUFFICES Stay
  OBVIOUS
<1> USE DEF Claiming, Catching, TypeInv, RunPart, Runs, lane
<1>1. ASSUME Poll PROVE Stay
  BY <1>1 DEF Poll
<1>2. ASSUME ScanNothing PROVE Stay
  BY <1>2 DEF ScanNothing
<1>3. ASSUME NEW k \in Kinds, ScanCollision(k) PROVE Stay
  BY <1>3 DEF ScanCollision, RecoverFails, Disturb
<1>4. ASSUME NEW k \in Kinds, ScanObserves(k) PROVE Stay
  BY <1>4 DEF ScanObserves, Recover
<1>5. ASSUME NEW k \in Kinds, ScanReady(k) PROVE Stay
  BY <1>5 DEF ScanReady, Recover
<1>6. ASSUME Begin PROVE Stay
  BY <1>6 DEF Begin, Fail
<1>7. ASSUME ReadExisting PROVE Stay
  BY <1>7 DEF ReadExisting, Recover, Drift, Fail, Go
<1>8. ASSUME Stage PROVE Stay
  BY <1>8 DEF Stage, Drift, Fail, Go
<1>9. ASSUME Copy PROVE Stay
  BY <1>9 DEF Copy, Go, Fail
<1>10. ASSUME Acquire PROVE Stay
  BY <1>10 DEF Acquire, Recover, Drift, Fail, Go, AfterAcquire
<1>11. ASSUME Create PROVE Stay
  BY <1>11 DEF Create, Fail
<1>12. ASSUME Write PROVE Stay
  BY <1>12 DEF Write, AfterAcquire
<1>13. ASSUME Publish PROVE Stay
  BY <1>13 DEF Publish
<1>14. ASSUME Settle PROVE Stay
  BY <1>14 DEF Settle, Drift, Fail
<1>15. ASSUME Commit PROVE Stay
  BY <1>15 DEF Commit, Fail, Go
<1>16. ASSUME Detach PROVE Stay
  BY <1>16 DEF Detach, Go
<1>17. ASSUME Relink PROVE Stay
  BY <1>17 DEF Relink, Fail, Go
<1>18. ASSUME Tidy PROVE Stay
  BY <1>18 DEF Tidy, Go
<1>19. ASSUME Confirm PROVE Stay
  BY <1>19 DEF Confirm, Drift, Fail, Go
<1>20. ASSUME Insert PROVE Stay
  BY <1>20 DEF Insert
<1>21. ASSUME GiveUp PROVE Stay
  BY <1>21 DEF GiveUp, Disturb
<1>22. ASSUME Normalize PROVE Stay
  BY <1>22 DEF Normalize
<1>23. ASSUME DropStaging PROVE Stay
  BY <1>23 DEF DropStaging, Go, AfterStaging
<1>24. ASSUME DropMarker PROVE Stay
  BY <1>24 DEF DropMarker, Go
<1>25. ASSUME DropAnchor PROVE Stay
  BY <1>25 DEF DropAnchor, Go
<1>26. ASSUME Reject PROVE Stay
  BY <1>26 DEF Reject, Go
<1>27. ASSUME WriteReceipt PROVE Stay
  BY <1>27 DEF WriteReceipt
<1>28. ASSUME RemoveRead PROVE Stay
  BY <1>28 DEF RemoveRead, Recover, RemoveEnds
<1>29. ASSUME RemoveMove PROVE Stay
  BY <1>29 DEF RemoveMove, RemoveEnds, Go
<1>30. ASSUME RemoveCheck PROVE Stay
  BY <1>30 DEF RemoveCheck, RemoveEnds, Go
<1>31. ASSUME RemoveEntry PROVE Stay
  BY <1>31 DEF RemoveEntry, RemoveEnds, Go
<1>32. ASSUME RemoveDirectory PROVE Stay
  BY <1>32 DEF RemoveDirectory, Go
<1>33. ASSUME RemoveMarker PROVE Stay
  BY <1>33 DEF RemoveMarker, RemoveEnds, Go
<1>34. ASSUME RemoveAnchor PROVE Stay
  BY <1>34 DEF RemoveAnchor, RemoveEnds
<1>35. ASSUME CompleteJob PROVE Stay
  BY <1>35 DEF CompleteJob
<1>36. ASSUME WriteFails PROVE Stay
  BY <1>36 DEF WriteFails, Disturb
<1>37. ASSUME PublicationFails PROVE Stay
  BY <1>37 DEF PublicationFails, Disturb, Recover, Fail
<1>38. ASSUME CallFails PROVE Stay
  BY <1>38 DEF CallFails, Disturb, Fail, ClaimCalls
<1>39. ASSUME ReadFails PROVE Stay
  BY <1>39 DEF ReadFails, RecoverFails, Disturb, Fail
<1>40. ASSUME DropStagingFails PROVE Stay
  BY <1>40 DEF DropStagingFails, Disturb
<1>41. ASSUME DropFails PROVE Stay
  BY <1>41 DEF DropFails, RecoverFails, Disturb, Go
<1>42. ASSUME TellFails PROVE Stay
  BY <1>42 DEF TellFails, Disturb
<1>43. ASSUME RemoveFails PROVE Stay
  BY <1>43 DEF RemoveFails, RecoverFails, Disturb, RemoveEnds
<1>44. ASSUME Crash PROVE Stay
  BY <1>44 DEF Crash, Disturb
<1>45. ASSUME NEW k \in Kinds, Deliver(k) PROVE Stay
  BY <1>45 DEF Deliver
<1>46. ASSUME NEW k \in Kinds, Change(k) PROVE Stay
  BY <1>46 DEF Change, Disturb
<1>47. ASSUME NEW k \in Kinds, Withdraw(k) PROVE Stay
  BY <1>47 DEF Withdraw, Disturb
<1> QED
  BY <1>1, <1>2, <1>3, <1>4, <1>5, <1>6, <1>7, <1>8, <1>9, <1>10, <1>11, <1>12, <1>13,
     <1>14, <1>15, <1>16, <1>17, <1>18, <1>19, <1>20, <1>21, <1>22, <1>23, <1>24, <1>25, <1>26,
     <1>27, <1>28, <1>29, <1>30, <1>31, <1>32, <1>33, <1>34, <1>35, <1>36, <1>37, <1>38, <1>39,
     <1>40, <1>41, <1>42, <1>43, <1>44, <1>45, <1>46, <1>47
  DEF Next, ScanStep, ClaimStep, RemoveStep, FaultStep, OutsideStep

\* Names that no step touches, and bundles that go or come where no marker is.
LEMMA NamesFrame ==
  ASSUME NamesInv, UNCHANGED <<marker, anchor, quarantine>>,
         \A k \in Kinds : bundle'[k] # NoBundle => bundle[k] # NoBundle \/ marker[Other(k)] = NoFile,
         pc' \in Claiming \cup Catching => pc \in Claiming \cup Catching /\ lane' = lane,
         job' # "none" => job' = job \/ quarantine[job'] = NoFile
  PROVE  NamesInv'
<1> USE KindsApart DEF NamesInv, names
<1>1. \A k \in Kinds : Agree(k)' /\ Seen(k)' = Seen(k)
  BY DEF Agree, Seen
<1>2. \A k \in Kinds : marker'[k] # NoFile => bundle'[Other(k)] = NoBundle
  OBVIOUS
<1>3. OneMarker'
  BY DEF OneMarker
<1>4. \A k \in Kinds : Seen(k)' # NoFile => Seen(k)' # Seen(Other(k))'
  BY <1>1
<1>5. pc' \in Claiming \cup Catching => marker'[Other(lane)'] = NoFile
  BY DEF Other
<1> QED
  BY <1>1, <1>2, <1>3, <1>4, <1>5

\* The names of one lane change.
LEMMA OneLane ==
  ASSUME NamesInv, NEW L \in Kinds, bundle' = bundle, job \in Kinds \cup {"none"},
         marker'[Other(L)] = marker[Other(L)], anchor'[Other(L)] = anchor[Other(L)],
         quarantine'[Other(L)] = quarantine[Other(L)], Agree(L)',
         marker'[L] # NoFile =>
           marker[L] # NoFile \/ (bundle[Other(L)] = NoBundle /\ marker[Other(L)] = NoFile),
         Seen(L)' # NoFile => Seen(L)' = Seen(L) \/ Seen(L)' # Seen(Other(L)),
         pc' \in Claiming \cup Catching => lane' = L /\ marker[Other(L)] = NoFile,
         job' = job, job = L => quarantine'[L] = NoFile
  PROVE  NamesInv'
<1> USE KindsApart DEF NamesInv
<1>1. \A k \in Kinds : k = L \/ k = Other(L)
  BY DEF Kinds, Other
<1>2. Agree(Other(L))' /\ Seen(Other(L))' = Seen(Other(L))
  BY DEF Agree, Seen
<1>3. \A k \in Kinds : marker'[k] # NoFile => bundle'[Other(k)] = NoBundle
  BY <1>1
<1>4. OneMarker'
  BY <1>1 DEF OneMarker
<1>5. \A k \in Kinds : Seen(k)' # NoFile => Seen(k)' # Seen(Other(k))'
  BY <1>1, <1>2
<1>6. pc' \in Claiming \cup Catching => marker'[Other(lane)'] = NoFile
  BY DEF Other
<1>7. \A k \in Kinds : Agree(k)'
  BY <1>1, <1>2
<1>8. job' # "none" => quarantine'[job'] = NoFile
  BY <1>1
<1> QED
  BY <1>3, <1>4, <1>5, <1>6, <1>7, <1>8

LEMMA NamesSteps ==
  ASSUME TypeInv, TypeInv', ControlInv, NamesInv, PlaceInv, Next
  PROVE  NamesInv'
<1> USE KindsApart DEF Claiming, Catching, Removing, told, disk, names, bounds
<1>0. pc' \in Claiming \cup Catching /\ pc # "scan" =>
        pc \in Claiming \cup Catching /\ lane' = lane
  BY StaySteps
<1>a. NamesPart /\ job \in Kinds \cup {"none"} /\ \A k \in Kinds : Agree(k)
  BY DEF TypeInv, NamesInv, ToldPart
<1>1. ASSUME Poll PROVE NamesInv'
  BY <1>1, NamesFrame DEF Poll
<1>2. ASSUME ScanNothing PROVE NamesInv'
  BY <1>2, NamesFrame, <1>0 DEF ScanNothing
<1>3. ASSUME NEW k \in Kinds, ScanCollision(k) PROVE NamesInv'
  <2>1. marker[Other(k)] = NoFile
    BY <1>3 DEF ScanCollision, NamesInv
  <2>2. CASE UNCHANGED names
    BY <1>3, <2>2, NamesFrame DEF ScanCollision
  <2>3. CASE RecoverFails(k)
    BY <1>3, <2>1, <2>3, <1>a, RecoverFailsEffect, OneLane, <1>a DEF ScanCollision, NamesInv, Readable
  <2> QED
    BY <1>3, <2>2, <2>3 DEF ScanCollision
<1>4. ASSUME NEW k \in Kinds, ScanObserves(k) PROVE NamesInv'
  <2>1. marker[Other(k)] = NoFile /\ Recover(k)
    BY <1>4 DEF ScanObserves, NamesInv
  <2>2. marker'[k] # NoFile => marker[k] # NoFile \/ bundle[Other(k)] = NoBundle
    BY <1>4, <2>1, <1>a, AgreedNames, RecoverEffect DEF ScanObserves, Collision, Readable
  <2> QED
    BY <1>4, <2>1, <2>2, <1>a, RecoverEffect, OneLane, <1>a DEF ScanObserves, NamesInv
<1>5. ASSUME NEW k \in Kinds, ScanReady(k) PROVE NamesInv'
  <2>1. marker[Other(k)] = NoFile /\ Recover(k)
    BY <1>5 DEF ScanReady, NamesInv
  <2>2. marker'[k] # NoFile => marker[k] # NoFile \/ bundle[Other(k)] = NoBundle
    BY <1>5, <2>1, <1>a, AgreedNames, RecoverEffect DEF ScanReady, Collision, Readable
  <2>3. pc' \in Claiming \cup Catching => lane' = k
    BY <1>5, LaneTaken DEF ScanReady, lane
  <2> QED
    BY <1>5, <2>1, <2>2, <2>3, <1>a, RecoverEffect, OneLane, <1>a DEF ScanReady, NamesInv
<1>6. ASSUME Begin PROVE NamesInv'
  BY <1>6, NamesFrame, <1>0 DEF Begin, Fail
<1>7. ASSUME ReadExisting PROVE NamesInv'
  <2>0. PICK L \in Kinds : L = lane /\ marker[Other(L)] = NoFile /\ job = "none"
    BY <1>7 DEF ReadExisting, TypeInv, RunPart, NamesInv, ControlInv
  <2>1. CASE UNCHANGED names
    BY <1>7, <2>1, <1>0, NamesFrame DEF ReadExisting
  <2>2. CASE Readable(L) /\ Recover(L)
    BY <1>7, <2>0, <2>2, <1>0, <1>a, RecoverEffect, OneLane, <1>a DEF ReadExisting, Readable
  <2> QED
    BY <1>7, <2>0, <2>1, <2>2 DEF ReadExisting
<1>8. ASSUME Stage PROVE NamesInv'
  BY <1>8, NamesFrame, <1>0 DEF Stage, Drift, Fail, Go
<1>9. ASSUME Copy PROVE NamesInv'
  BY <1>9, NamesFrame, <1>0 DEF Copy, Go, Fail
<1>10. ASSUME Acquire PROVE NamesInv'
  <2>0. PICK L \in Kinds : L = lane /\ marker[Other(L)] = NoFile /\ job = "none"
    BY <1>10 DEF Acquire, TypeInv, RunPart, NamesInv, ControlInv
  <2>1. CASE UNCHANGED names
    BY <1>10, <2>1, <1>0, NamesFrame DEF Acquire
  <2>2. CASE Readable(L) /\ Recover(L)
    BY <1>10, <2>0, <2>2, <1>0, <1>a, RecoverEffect, OneLane, <1>a DEF Acquire, Readable
  <2> QED
    BY <1>10, <2>0, <2>1, <2>2 DEF Acquire
<1>11. ASSUME Create PROVE NamesInv'
  <2>0. PICK L \in Kinds : L = lane /\ marker[Other(L)] = NoFile /\ job = "none"
    BY <1>11 DEF Create, TypeInv, RunPart, NamesInv, ControlInv
  <2>1. CASE UNCHANGED names
    BY <1>11, <2>1, <1>0, NamesFrame DEF Create
  <2>2. ASSUME NEW f \in Files \ InUse, bundle[Other(L)] = NoBundle,
               marker' = [marker EXCEPT ![L] = f], UNCHANGED <<anchor, quarantine, bundle, job>>
        PROVE  NamesInv'
    <3>1. marker'[L] = f /\ marker'[Other(L)] = marker[Other(L)] /\ f # NoFile
      BY <2>0, <2>2, QueueAssumption DEF TypeInv, NamesPart
    <3>2. Seen(L) = NoFile /\ Agree(L)
      BY <1>11, <2>0, <1>a DEF Create, PlaceInv
    <3>3. Agree(L)' /\ Seen(L)' = f
      BY <2>2, <3>1, <3>2 DEF Agree, Seen
    <3>4. f # Seen(Other(L))
      BY <2>0, <2>2, <3>1, <1>a, AgreedNames DEF InUse
    <3> QED
      BY <2>0, <2>2, <3>1, <3>3, <3>4, <1>0, <1>11, OneLane, <1>a DEF Create
  <2> QED
    BY <1>11, <2>0, <2>1, <2>2 DEF Create
<1>12. ASSUME Write PROVE NamesInv'
  BY <1>12, NamesFrame, <1>0 DEF Write, AfterAcquire
<1>13. ASSUME Publish PROVE NamesInv'
  BY <1>13, NamesFrame, <1>0 DEF Publish
<1>14. ASSUME Settle PROVE NamesInv'
  BY <1>14, NamesFrame, <1>0 DEF Settle, Drift, Fail
<1>15. ASSUME Commit PROVE NamesInv'
  <2>0. PICK L \in Kinds : L = lane /\ marker[Other(L)] = NoFile /\ job = "none"
    BY <1>15 DEF Commit, TypeInv, RunPart, NamesInv, ControlInv
  <2>1. CASE UNCHANGED names
    BY <1>15, <2>1, <1>0, NamesFrame DEF Commit
  <2>2. CASE Owned /\ ~UNCHANGED names
    <3>1. Seen(L) = run.res /\ bundle[Other(L)] = NoBundle /\ Seen(L) # NoFile
      BY <2>0, <2>2, <1>a, AgreedNames DEF Owned, Readable
    <3>2. /\ marker'[L] = run.res /\ anchor'[L] = run.res /\ quarantine'[L] = NoFile
          /\ marker'[Other(L)] = marker[Other(L)] /\ anchor'[Other(L)] = anchor[Other(L)]
          /\ quarantine'[Other(L)] = quarantine[Other(L)]
      BY <1>15, <2>0, <2>2 DEF Commit, TypeInv, NamesPart
    <3>3. Agree(L)' /\ Seen(L)' = Seen(L)
      BY <3>1, <3>2 DEF Agree, Seen
    <3> QED
      BY <1>15, <2>0, <3>1, <3>2, <3>3, <1>0, OneLane, <1>a DEF Commit
  <2> QED
    BY <1>15, <2>0, <2>1, <2>2 DEF Commit
<1>16. ASSUME Detach PROVE NamesInv'
  <2>0. PICK L \in Kinds : L = lane /\ marker[Other(L)] = NoFile /\ job = "none"
    BY <1>16 DEF Detach, TypeInv, RunPart, NamesInv, ControlInv
  <2>1. /\ marker'[L] = NoFile /\ anchor' = anchor /\ quarantine'[L] = marker[L]
        /\ marker'[Other(L)] = marker[Other(L)] /\ quarantine'[Other(L)] = quarantine[Other(L)]
    BY <1>16, <2>0 DEF Detach, TypeInv, NamesPart
  <2>2. Agree(L)' /\ Seen(L)' = Seen(L)
    BY <1>16, <2>1 DEF Detach, Agree, Seen, PlaceInv
  <2> QED
    BY <1>16, <2>0, <2>1, <2>2, <1>0, OneLane, <1>a DEF Detach, Fail, Go
<1>17. ASSUME Relink PROVE NamesInv'
  <2>0. PICK L \in Kinds : L = lane /\ marker[Other(L)] = NoFile /\ job = "none"
    BY <1>17 DEF Relink, TypeInv, RunPart, NamesInv, ControlInv
  <2>1. CASE UNCHANGED names
    BY <1>17, <2>1, <1>0, NamesFrame DEF Relink
  <2>2. CASE bundle[Other(L)] = NoBundle
    <3>1. /\ marker'[L] = quarantine[L] /\ anchor' = anchor /\ quarantine' = quarantine
          /\ marker'[Other(L)] = marker[Other(L)]
      BY <1>17, <2>0, <2>2 DEF Relink, TypeInv, NamesPart
    <3>2. anchor[L] = run.res /\ quarantine[L] = run.res /\ run.res \in Files
      BY <1>17, <2>0 DEF Relink, PlaceInv
    <3>3. Agree(L)' /\ Seen(L)' = Seen(L)
      BY <3>1, <3>2, <1>a, <2>0, QueueAssumption DEF Agree, Seen
    <3> QED
      BY <1>17, <2>0, <2>2, <3>1, <3>3, <1>0, OneLane, <1>a DEF Relink
  <2> QED
    BY <1>17, <2>0, <2>1, <2>2 DEF Relink
<1>18. ASSUME Tidy PROVE NamesInv'
  <2>0. PICK L \in Kinds : L = lane /\ marker[Other(L)] = NoFile /\ job = "none"
    BY <1>18 DEF Tidy, TypeInv, RunPart, NamesInv, ControlInv
  <2>1. /\ marker' = marker /\ anchor' = anchor /\ quarantine'[L] = NoFile
        /\ quarantine'[Other(L)] = quarantine[Other(L)]
    BY <1>18, <2>0 DEF Tidy, TypeInv, NamesPart
  <2>2. Agree(L)' /\ Seen(L)' = Seen(L)
    BY <2>0, <2>1, <1>a DEF Agree, Seen
  <2> QED
    BY <1>18, <2>0, <2>1, <2>2, <1>0, OneLane, <1>a DEF Tidy, Fail, Go
<1>19. ASSUME Confirm PROVE NamesInv'
  BY <1>19, NamesFrame, <1>0 DEF Confirm, Drift, Fail, Go
<1>20. ASSUME Insert PROVE NamesInv'
  BY <1>20, NamesFrame DEF Insert, PlaceInv
<1>21. ASSUME GiveUp PROVE NamesInv'
  BY <1>21, NamesFrame, <1>0 DEF GiveUp, Disturb
<1>22. ASSUME Normalize PROVE NamesInv'
  BY <1>22, NamesFrame, <1>0 DEF Normalize
<1>23. ASSUME DropStaging PROVE NamesInv'
  BY <1>23, NamesFrame, <1>0 DEF DropStaging, Go, AfterStaging
<1>24. ASSUME DropMarker PROVE NamesInv'
  <2>0. PICK L \in Kinds : L = lane /\ marker[Other(L)] = NoFile /\ job = "none"
    BY <1>24 DEF DropMarker, TypeInv, RunPart, NamesInv, ControlInv
  <2>1. CASE UNCHANGED names
    BY <1>24, <2>1, <1>0, NamesFrame DEF DropMarker
  <2>2. CASE ~UNCHANGED names
    <3>1. /\ marker'[L] = NoFile /\ anchor' = anchor /\ quarantine'[L] = NoFile
          /\ marker'[Other(L)] = marker[Other(L)] /\ quarantine'[Other(L)] = quarantine[Other(L)]
      BY <1>24, <2>0, <2>2 DEF DropMarker, TypeInv, NamesPart
    <3>2. Agree(L)' /\ (Seen(L)' # NoFile => Seen(L)' = Seen(L))
      BY <2>0, <3>1, <1>a DEF Agree, Seen
    <3> QED
      BY <1>24, <2>0, <2>2, <3>1, <3>2, <1>0, OneLane, <1>a DEF DropMarker
  <2> QED
    BY <2>1, <2>2
<1>25. ASSUME DropAnchor PROVE NamesInv'
  <2>0. PICK L \in Kinds : L = lane /\ marker[Other(L)] = NoFile /\ job = "none"
    BY <1>25 DEF DropAnchor, TypeInv, RunPart, NamesInv, ControlInv
  <2>1. anchor'[L] = NoFile /\ anchor'[Other(L)] = anchor[Other(L)] /\ marker' = marker /\ quarantine' = quarantine
    BY <1>25, <2>0 DEF DropAnchor, TypeInv, NamesPart
  <2>2. marker[L] = NoFile /\ quarantine[L] = NoFile
    BY <1>25, <2>0 DEF DropAnchor, PlaceInv
  <2>3. Agree(L)' /\ Seen(L)' = NoFile
    BY <2>1, <2>2 DEF Agree, Seen
  <2> QED
    BY <1>25, <2>0, <2>1, <2>2, <2>3, <1>0, OneLane, <1>a DEF DropAnchor
<1>26. ASSUME Reject PROVE NamesInv'
  BY <1>26, NamesFrame, <1>0 DEF Reject, Go
<1>27. ASSUME WriteReceipt PROVE NamesInv'
  BY <1>27, NamesFrame, <1>0 DEF WriteReceipt
<1>28. ASSUME RemoveRead PROVE NamesInv'
  <2>0. PICK L \in Kinds : L = lane /\ quarantine[L] = NoFile /\ job = L
    BY <1>28 DEF RemoveRead, TypeInv, RunPart, ToldPart, NamesInv
  <2>1. UNCHANGED names
    BY <1>28, <2>0 DEF RemoveRead, Recover, TypeInv, NamesPart
  <2> QED
    BY <1>28, <2>1, <1>0, NamesFrame DEF RemoveRead, RemoveEnds
<1>29. ASSUME RemoveMove PROVE NamesInv'
  <2>1. \A x \in Kinds : bundle'[x] # NoBundle => bundle[x] # NoBundle \/ marker[Other(x)] = NoFile
    BY <1>29 DEF RemoveMove, TypeInv, RestPart
  <2> QED
    BY <1>29, <2>1, <1>0, NamesFrame DEF RemoveMove, RemoveEnds, Go
<1>30. ASSUME RemoveCheck PROVE NamesInv'
  BY <1>30, NamesFrame, <1>0 DEF RemoveCheck, RemoveEnds, Go
<1>31. ASSUME RemoveEntry PROVE NamesInv'
  BY <1>31, NamesFrame, <1>0 DEF RemoveEntry, RemoveEnds, Go
<1>32. ASSUME RemoveDirectory PROVE NamesInv'
  BY <1>32, NamesFrame, <1>0 DEF RemoveDirectory, Go
<1>33. ASSUME RemoveMarker PROVE NamesInv'
  <2>0. PICK L \in Kinds : L = lane /\ quarantine[L] = NoFile /\ job = L
    BY <1>33 DEF RemoveMarker, TypeInv, RunPart, ToldPart, NamesInv
  <2>1. CASE UNCHANGED names
    BY <1>33, <2>1, <1>0, NamesFrame DEF RemoveMarker, RemoveEnds, Go
  <2>2. CASE ~UNCHANGED names
    <3>1. /\ marker'[L] = NoFile /\ anchor' = anchor /\ quarantine'[L] = NoFile
          /\ marker'[Other(L)] = marker[Other(L)] /\ quarantine'[Other(L)] = quarantine[Other(L)]
      BY <1>33, <2>0, <2>2 DEF RemoveMarker, TypeInv, NamesPart
    <3>2. Agree(L)' /\ (Seen(L)' # NoFile => Seen(L)' = Seen(L))
      BY <2>0, <3>1, <1>a DEF Agree, Seen
    <3> QED
      BY <1>33, <2>0, <2>2, <3>1, <3>2, <1>0, OneLane, <1>a DEF RemoveMarker, RemoveEnds, Go
  <2> QED
    BY <2>1, <2>2
<1>34. ASSUME RemoveAnchor PROVE NamesInv'
  <2>0. PICK L \in Kinds : L = lane /\ quarantine[L] = NoFile /\ job = L
    BY <1>34 DEF RemoveAnchor, TypeInv, RunPart, ToldPart, NamesInv
  <2>1. anchor'[L] = NoFile /\ anchor'[Other(L)] = anchor[Other(L)] /\ marker' = marker /\ quarantine' = quarantine
    BY <1>34, <2>0 DEF RemoveAnchor, TypeInv, NamesPart
  <2>2. marker[L] = NoFile /\ quarantine[L] = NoFile
    BY <1>34, <2>0 DEF RemoveAnchor, PlaceInv
  <2>3. Agree(L)' /\ Seen(L)' = NoFile
    BY <2>1, <2>2 DEF Agree, Seen
  <2> QED
    BY <1>34, <2>0, <2>1, <2>2, <2>3, <1>0, OneLane, <1>a DEF RemoveAnchor, RemoveEnds
<1>35. ASSUME CompleteJob PROVE NamesInv'
  BY <1>35, NamesFrame, <1>0 DEF CompleteJob
<1>36. ASSUME WriteFails PROVE NamesInv'
  <2>0. PICK L \in Kinds : L = lane /\ marker[Other(L)] = NoFile /\ job = "none"
    BY <1>36 DEF WriteFails, TypeInv, RunPart, NamesInv, ControlInv
  <2>1. marker' \in {marker, [marker EXCEPT ![L] = NoFile]} /\ anchor' = anchor /\ quarantine' = quarantine
    BY <1>36, <2>0 DEF WriteFails
  <2>2. marker'[Other(L)] = marker[Other(L)] /\ marker'[L] \in {marker[L], NoFile}
    BY <2>0, <2>1 DEF TypeInv, NamesPart
  <2>3. anchor[L] = NoFile /\ quarantine[L] = NoFile
    BY <1>36, <2>0 DEF WriteFails, PlaceInv
  <2>4. Agree(L)' /\ (Seen(L)' # NoFile => Seen(L)' = Seen(L))
    BY <2>1, <2>2, <2>3 DEF Agree, Seen
  <2> QED
    BY <1>36, <2>0, <2>1, <2>2, <2>4, <1>0, OneLane, <1>a DEF WriteFails, Fail, Go
<1>37. ASSUME PublicationFails PROVE NamesInv'
  <2>0. PICK L \in Kinds : L = lane /\ marker[Other(L)] = NoFile /\ job = "none"
    BY <1>37 DEF PublicationFails, TypeInv, RunPart, NamesInv, ControlInv
  <2>1. CASE UNCHANGED names
    BY <1>37, <2>1, <1>0, NamesFrame DEF PublicationFails
  <2>2. CASE bundle[Other(L)] = NoBundle /\ Recover(L)
    BY <1>37, <2>0, <2>2, <1>0, <1>a, RecoverEffect, OneLane, <1>a DEF PublicationFails
  <2>3. CASE /\ bundle[Other(L)] = NoBundle
             /\ marker' = [marker EXCEPT ![L] = quarantine[L]]
             /\ UNCHANGED <<anchor, quarantine, content>>
    <3>1. /\ marker'[L] = quarantine[L] /\ anchor' = anchor /\ quarantine' = quarantine
          /\ marker'[Other(L)] = marker[Other(L)]
      BY <2>0, <2>3 DEF TypeInv, NamesPart
    <3>2. anchor[L] = run.res /\ quarantine[L] = run.res /\ run.res \in Files
      BY <1>37, <2>0 DEF PublicationFails, PlaceInv
    <3>3. Agree(L)' /\ Seen(L)' = Seen(L)
      BY <3>1, <3>2, <1>a, <2>0, QueueAssumption DEF Agree, Seen
    <3> QED
      BY <1>37, <2>0, <2>3, <3>1, <3>3, <1>0, OneLane, <1>a DEF PublicationFails
  <2> QED
    BY <1>37, <2>0, <2>1, <2>2, <2>3 DEF PublicationFails
<1>38. ASSUME CallFails PROVE NamesInv'
  BY <1>38, NamesFrame, <1>0 DEF CallFails, Disturb, Fail, ClaimCalls
<1>39. ASSUME ReadFails PROVE NamesInv'
  <2>0. PICK L \in Kinds : L = lane /\ marker[Other(L)] = NoFile /\ job = "none"
    BY <1>39 DEF ReadFails, TypeInv, RunPart, NamesInv, ControlInv
  <2>1. CASE UNCHANGED names
    BY <1>39, <2>1, <1>0, NamesFrame DEF ReadFails, RemoveEnds
  <2>2. CASE RecoverFails(L)
    BY <1>39, <2>0, <2>2, <1>0, <1>a, RecoverFailsEffect, OneLane, <1>a DEF ReadFails, Readable, RemoveEnds
  <2> QED
    BY <1>39, <2>0, <2>1, <2>2 DEF ReadFails
<1>40. ASSUME DropStagingFails PROVE NamesInv'
  BY <1>40, NamesFrame, <1>0 DEF DropStagingFails, Disturb
<1>41. ASSUME DropFails PROVE NamesInv'
  <2>0. PICK L \in Kinds : L = lane /\ marker[Other(L)] = NoFile /\ job = "none"
    BY <1>41 DEF DropFails, TypeInv, RunPart, NamesInv, ControlInv
  <2>1. CASE UNCHANGED names
    BY <1>41, <2>1, <1>0, NamesFrame DEF DropFails, RemoveEnds
  <2>2. CASE RecoverFails(L)
    BY <1>41, <2>0, <2>2, <1>0, <1>a, RecoverFailsEffect, OneLane, <1>a DEF DropFails, Readable, RemoveEnds
  <2> QED
    BY <1>41, <2>0, <2>1, <2>2 DEF DropFails
<1>42. ASSUME TellFails PROVE NamesInv'
  BY <1>42, NamesFrame, <1>0 DEF TellFails, Disturb
<1>43. ASSUME RemoveFails PROVE NamesInv'
  <2>0. PICK L \in Kinds : L = lane /\ quarantine[L] = NoFile /\ job = L
    BY <1>43 DEF RemoveFails, TypeInv, RunPart, ToldPart, NamesInv
  <2>1. UNCHANGED <<marker, anchor, quarantine>>
    BY <1>43, <2>0, <1>a, RecoverFailsEffect DEF RemoveFails
  <2> QED
    BY <1>43, <2>1, <1>0, NamesFrame DEF RemoveFails, RemoveEnds
<1>44. ASSUME Crash PROVE NamesInv'
  BY <1>44, NamesFrame, <1>0 DEF Crash, Disturb
<1>45. ASSUME NEW k \in Kinds, Deliver(k) PROVE NamesInv'
  <2>1. \A x \in Kinds : bundle'[x] # NoBundle => bundle[x] # NoBundle \/ marker[Other(x)] = NoFile
    BY <1>45 DEF Deliver, TypeInv, RestPart
  <2> QED
    BY <1>45, <2>1, <1>0, NamesFrame DEF Deliver
<1>46. ASSUME NEW k \in Kinds, Change(k) PROVE NamesInv'
  <2>1. \A x \in Kinds : bundle'[x] # NoBundle => bundle[x] # NoBundle
    <3>1. CASE bundle' = bundle
      BY <3>1
    <3>2. CASE bundle' # bundle
      BY <1>46, <3>2 DEF Change, TypeInv, RestPart
    <3> QED
      BY <3>1, <3>2
  <2> QED
    BY <1>46, <2>1, <1>0, NamesFrame DEF Change, Disturb
<1>47. ASSUME NEW k \in Kinds, Withdraw(k) PROVE NamesInv'
  <2>1. \A x \in Kinds : bundle'[x] # NoBundle => bundle[x] # NoBundle \/ marker[Other(x)] = NoFile
    BY <1>47 DEF Withdraw, TypeInv, RestPart
  <2> QED
    BY <1>47, <2>1, <1>0, NamesFrame DEF Withdraw, Disturb
<1> QED
  BY <1>1, <1>2, <1>3, <1>4, <1>5, <1>6, <1>7, <1>8, <1>9, <1>10, <1>11, <1>12, <1>13,
     <1>14, <1>15, <1>16, <1>17, <1>18, <1>19, <1>20, <1>21, <1>22, <1>23, <1>24, <1>25, <1>26,
     <1>27, <1>28, <1>29, <1>30, <1>31, <1>32, <1>33, <1>34, <1>35, <1>36, <1>37, <1>38, <1>39,
     <1>40, <1>41, <1>42, <1>43, <1>44, <1>45, <1>46, <1>47
  DEF Next, ScanStep, ClaimStep, RemoveStep, FaultStep, OutsideStep

LEMMA PlaceSteps ==
  ASSUME TypeInv, TypeInv', ControlInv, NamesInv, PlaceInv, Next
  PROVE  PlaceInv'
<1> USE DEF told, disk, names, bounds
<1>a. run \in Runs /\ NamesPart /\ \A k \in Kinds : Agree(k)
  BY DEF TypeInv, RunPart, NamesInv
<1>b. /\ \A why : Fail(why) => PlaceInv'
      /\ Drift => PlaceInv'
      /\ run' = NoRun /\ pc' \in {"idle", "scan"} => PlaceInv'
      /\ \A next \in {"stage", "copy", "acquire", "reject", "dropMarker", "receipt", "dropStaging", "rmMarker",
                     "rmEntry", "rmCheck"} : pc' = next => PlaceInv'
  BY DEF Fail, Drift, PlaceInv
<1>c. UNCHANGED <<names, pc, run>> => PlaceInv'
  BY DEF PlaceInv, lane, Seen
<1>1. ASSUME Poll PROVE PlaceInv'
  BY <1>1, <1>b DEF Poll, PlaceInv
<1>2. ASSUME ScanNothing PROVE PlaceInv'
  BY <1>2, <1>b DEF ScanNothing, PlaceInv
<1>3. ASSUME NEW k \in Kinds, ScanCollision(k) PROVE PlaceInv'
  BY <1>3, <1>b DEF ScanCollision, RecoverFails, Disturb, PlaceInv
<1>4. ASSUME NEW k \in Kinds, ScanObserves(k) PROVE PlaceInv'
  BY <1>4, <1>b DEF ScanObserves, Recover, PlaceInv
<1>5. ASSUME NEW k \in Kinds, ScanReady(k) PROVE PlaceInv'
  BY <1>5, <1>b DEF ScanReady, Recover, PlaceInv
<1>6. ASSUME Begin PROVE PlaceInv'
  BY <1>6, <1>b DEF Begin, Fail, PlaceInv
<1>7. ASSUME ReadExisting PROVE PlaceInv'
  BY <1>7, <1>b DEF ReadExisting, Recover, Drift, Fail, Go, PlaceInv
<1>8. ASSUME Stage PROVE PlaceInv'
  BY <1>8, <1>b DEF Stage, Drift, Fail, Go, PlaceInv
<1>9. ASSUME Copy PROVE PlaceInv'
  BY <1>9, <1>b DEF Copy, Go, Fail, PlaceInv
<1>10. ASSUME Acquire PROVE PlaceInv'
  <2>0. PICK L \in Kinds : L = lane
    BY <1>10 DEF Acquire, TypeInv, RunPart
  <2>1. CASE pc' \in {"normalize", "publish", "settle"}
    BY <2>1 DEF PlaceInv
  <2>2. CASE Unreserved(L) /\ Go("create") /\ UNCHANGED names
    <3>1. Seen(L) = NoFile
      BY <2>2, <1>a, AgreedNames DEF Unreserved
    <3>2. Seen(L)' = NoFile
      BY <2>2, <3>1 DEF Seen
    <3> QED
      BY <2>0, <2>2, <3>2 DEF Go, PlaceInv, lane, Seen
  <2> QED
    BY <1>10, <2>0, <2>1, <2>2 DEF Acquire, Fail, Drift, AfterAcquire
<1>11. ASSUME Create PROVE PlaceInv'
  <2>0. PICK L \in Kinds : L = lane
    BY <1>11 DEF Create, TypeInv, RunPart
  <2>1. CASE Fail("invalid")
    BY <2>1, <1>b
  <2>2. ASSUME NEW f \in Files \ InUse, marker' = [marker EXCEPT ![L] = f],
               UNCHANGED <<anchor, quarantine>>, pc' = "write", run' = [run EXCEPT !.res = f]
        PROVE  PlaceInv'
    <3>1. run'.res = f /\ run'.lane = L /\ marker'[L] = f
      BY <2>0, <2>2, <1>a, FileKept DEF NamesPart, lane
    <3>2. anchor[L] = NoFile /\ quarantine[L] = NoFile
      BY <1>11, <2>0, <1>a DEF Create, PlaceInv, Agree, Seen
    <3> QED
      BY <2>2, <3>1, <3>2 DEF PlaceInv, lane
  <2> QED
    BY <1>11, <2>0, <2>1, <2>2 DEF Create
<1>12. ASSUME Write PROVE PlaceInv'
  BY <1>12 DEF Write, AfterAcquire, PlaceInv
<1>13. ASSUME Publish PROVE PlaceInv'
  BY <1>13, <1>b DEF Publish, PlaceInv
<1>14. ASSUME Settle PROVE PlaceInv'
  BY <1>14, <1>b DEF Settle, Drift, Fail, PlaceInv
<1>15. ASSUME Commit PROVE PlaceInv'
  <2>0. PICK L \in Kinds : L = lane
    BY <1>15 DEF Commit, TypeInv, RunPart
  <2>1. CASE Fail("invalid")
    BY <2>1, <1>b
  <2>2. CASE Owned /\ Go("detach") /\ ~Fail("invalid")
    <3>1. marker'[L] = run.res /\ anchor'[L] = run.res /\ quarantine'[L] = NoFile
      BY <1>15, <2>0, <2>2, <1>a DEF Commit, NamesPart
    <3>2. run.res \in Files
      BY <2>0, <2>2, <1>a, AgreedNames, ReadsKeepType DEF Owned, Readable
    <3> QED
      BY <2>0, <2>2, <3>1, <3>2 DEF Go, PlaceInv, lane
  <2> QED
    BY <1>15, <2>1, <2>2 DEF Commit
<1>16. ASSUME Detach PROVE PlaceInv'
  <2>0. PICK L \in Kinds : L = lane
    BY <1>16 DEF Detach, TypeInv, RunPart
  <2>1. CASE Fail("invalid") \/ Drift
    BY <2>1, <1>b
  <2>2. CASE pc' = "relink" /\ run' = run
    <3>1. anchor'[L] = run.res /\ run.res \in Files /\ quarantine'[L] = run.res
      BY <1>16, <2>0, <2>2, <1>a DEF Detach, PlaceInv, NamesPart, Fail
    <3> QED
      BY <2>0, <2>2, <3>1 DEF PlaceInv, lane
  <2> QED
    BY <1>16, <2>1, <2>2 DEF Detach, Go
<1>17. ASSUME Relink PROVE PlaceInv'
  <2>0. PICK L \in Kinds : L = lane
    BY <1>17 DEF Relink, TypeInv, RunPart
  <2>1. CASE Fail("invalid") \/ Drift
    BY <2>1, <1>b
  <2>2. CASE pc' = "tidy" /\ run' = run
    <3>1. /\ marker'[L] = run.res /\ anchor'[L] = run.res /\ run.res \in Files
          /\ quarantine'[L] = run.res
      BY <1>17, <2>0, <2>2, <1>a DEF Relink, PlaceInv, NamesPart, Fail
    <3> QED
      BY <2>0, <2>2, <3>1 DEF PlaceInv, lane
  <2> QED
    BY <1>17, <2>1, <2>2 DEF Relink, Go
<1>18. ASSUME Tidy PROVE PlaceInv'
  <2>0. PICK L \in Kinds : L = lane
    BY <1>18 DEF Tidy, TypeInv, RunPart
  <2>1. CASE Fail("invalid") \/ Drift
    BY <2>1, <1>b
  <2>2. CASE pc' = "confirm" /\ run' = run
    <3>1. /\ marker'[L] = run.res /\ anchor'[L] = run.res /\ run.res \in Files
          /\ quarantine'[L] = NoFile
      BY <1>18, <2>0, <2>2, <1>a DEF Tidy, PlaceInv, NamesPart, Fail
    <3> QED
      BY <2>0, <2>2, <3>1 DEF PlaceInv, lane
  <2> QED
    BY <1>18, <2>1, <2>2 DEF Tidy, Go
<1>19. ASSUME Confirm PROVE PlaceInv'
  <2>0. PICK L \in Kinds : L = lane
    BY <1>19 DEF Confirm, TypeInv, RunPart
  <2>1. CASE Fail("invalid") \/ Drift
    BY <2>1, <1>b
  <2>2. CASE pc' = "claimed" /\ run' = run
    <3>1. /\ marker'[L] = run.res /\ anchor'[L] = run.res /\ run.res \in Files
          /\ quarantine'[L] = NoFile
      BY <1>19, <2>0, <2>2, <1>a DEF Confirm, PlaceInv, NamesPart, Fail
    <3> QED
      BY <2>0, <2>2, <3>1 DEF PlaceInv, lane
  <2> QED
    BY <1>19, <2>1, <2>2 DEF Confirm, Go
<1>20. ASSUME Insert PROVE PlaceInv'
  BY <1>20, <1>b DEF Insert, PlaceInv
<1>21. ASSUME GiveUp PROVE PlaceInv'
  BY <1>21, <1>b DEF GiveUp, Disturb, PlaceInv
<1>22. ASSUME Normalize PROVE PlaceInv'
  BY <1>22, <1>b DEF Normalize, PlaceInv
<1>23. ASSUME DropStaging PROVE PlaceInv'
  BY <1>23, <1>b DEF DropStaging, Go, AfterStaging, PlaceInv
<1>24. ASSUME DropMarker PROVE PlaceInv'
  <2>0. PICK L \in Kinds : L = lane
    BY <1>24 DEF DropMarker, TypeInv, RunPart
  <2>1. CASE Go("reject")
    BY <2>1, <1>b DEF Go, RemoveEnds
  <2>2. CASE pc' = "dropAnchor" /\ run' = run
    <3>1. marker'[L] = NoFile /\ quarantine'[L] = NoFile
      BY <1>24, <2>0, <2>2, <1>a DEF DropMarker, NamesPart, Go, RemoveEnds
    <3> QED
      BY <2>0, <2>2, <3>1 DEF PlaceInv, lane
  <2> QED
    BY <1>24, <2>1, <2>2 DEF DropMarker, Go
<1>25. ASSUME DropAnchor PROVE PlaceInv'
  BY <1>25, <1>b DEF DropAnchor, Go, PlaceInv
<1>26. ASSUME Reject PROVE PlaceInv'
  BY <1>26, <1>b DEF Reject, Go, PlaceInv
<1>27. ASSUME WriteReceipt PROVE PlaceInv'
  BY <1>27, <1>b DEF WriteReceipt, PlaceInv
<1>28. ASSUME RemoveRead PROVE PlaceInv'
  BY <1>28, <1>b DEF RemoveRead, Recover, RemoveEnds, PlaceInv
<1>29. ASSUME RemoveMove PROVE PlaceInv'
  BY <1>29, <1>b DEF RemoveMove, RemoveEnds, Go, PlaceInv
<1>30. ASSUME RemoveCheck PROVE PlaceInv'
  BY <1>30, <1>b DEF RemoveCheck, RemoveEnds, Go, PlaceInv
<1>31. ASSUME RemoveEntry PROVE PlaceInv'
  BY <1>31, <1>b DEF RemoveEntry, RemoveEnds, Go, PlaceInv
<1>32. ASSUME RemoveDirectory PROVE PlaceInv'
  BY <1>32, <1>b DEF RemoveDirectory, Go, PlaceInv
<1>33. ASSUME RemoveMarker PROVE PlaceInv'
  <2>0. PICK L \in Kinds : L = lane
    BY <1>33 DEF RemoveMarker, TypeInv, RunPart
  <2>1. CASE RemoveEnds(TRUE)
    BY <2>1, <1>b DEF Go, RemoveEnds
  <2>2. CASE pc' = "rmAnchor" /\ run' = run
    <3>1. marker'[L] = NoFile /\ quarantine'[L] = NoFile
      BY <1>33, <2>0, <2>2, <1>a DEF RemoveMarker, NamesPart, Go, RemoveEnds
    <3> QED
      BY <2>0, <2>2, <3>1 DEF PlaceInv, lane
  <2> QED
    BY <1>33, <2>1, <2>2 DEF RemoveMarker, Go
<1>34. ASSUME RemoveAnchor PROVE PlaceInv'
  BY <1>34, <1>b DEF RemoveAnchor, RemoveEnds, PlaceInv
<1>35. ASSUME CompleteJob PROVE PlaceInv'
  BY <1>35, <1>b DEF CompleteJob, PlaceInv
<1>36. ASSUME WriteFails PROVE PlaceInv'
  BY <1>36, <1>b DEF WriteFails, Disturb, PlaceInv
<1>37. ASSUME PublicationFails PROVE PlaceInv'
  BY <1>37, <1>b DEF PublicationFails, Disturb, Recover, Fail, PlaceInv
<1>38. ASSUME CallFails PROVE PlaceInv'
  BY <1>38, <1>b DEF CallFails, Disturb, Fail, ClaimCalls, PlaceInv
<1>39. ASSUME ReadFails PROVE PlaceInv'
  BY <1>39, <1>b DEF ReadFails, RecoverFails, Disturb, Fail, PlaceInv
<1>40. ASSUME DropStagingFails PROVE PlaceInv'
  BY <1>40, <1>b DEF DropStagingFails, Disturb, PlaceInv
<1>41. ASSUME DropFails PROVE PlaceInv'
  BY <1>41, <1>b DEF DropFails, RecoverFails, Disturb, Go, PlaceInv
<1>42. ASSUME TellFails PROVE PlaceInv'
  BY <1>42, <1>b DEF TellFails, Disturb, PlaceInv
<1>43. ASSUME RemoveFails PROVE PlaceInv'
  BY <1>43, <1>b DEF RemoveFails, RecoverFails, Disturb, RemoveEnds, PlaceInv
<1>44. ASSUME Crash PROVE PlaceInv'
  BY <1>44, <1>b DEF Crash, Disturb, PlaceInv
<1>45. ASSUME NEW k \in Kinds, Deliver(k) PROVE PlaceInv'
  BY <1>45, <1>c DEF Deliver
<1>46. ASSUME NEW k \in Kinds, Change(k) PROVE PlaceInv'
  BY <1>46, <1>c DEF Change
<1>47. ASSUME NEW k \in Kinds, Withdraw(k) PROVE PlaceInv'
  BY <1>47, <1>c DEF Withdraw
<1> QED
  BY <1>1, <1>2, <1>3, <1>4, <1>5, <1>6, <1>7, <1>8, <1>9, <1>10, <1>11, <1>12, <1>13,
     <1>14, <1>15, <1>16, <1>17, <1>18, <1>19, <1>20, <1>21, <1>22, <1>23, <1>24, <1>25, <1>26,
     <1>27, <1>28, <1>29, <1>30, <1>31, <1>32, <1>33, <1>34, <1>35, <1>36, <1>37, <1>38, <1>39,
     <1>40, <1>41, <1>42, <1>43, <1>44, <1>45, <1>46, <1>47
  DEF Next, ScanStep, ClaimStep, RemoveStep, FaultStep, OutsideStep

\* Only the insert gives the id a job.
LEMMA JobChanges ==
  ASSUME Next, pc # "claimed"
  PROVE  job' = job
<1> DEFINE Same == job' = job
<1> SUFFICES Same
  OBVIOUS
<1> USE DEF told
<1>1. ASSUME Poll PROVE Same
  BY <1>1 DEF Poll
<1>2. ASSUME ScanNothing PROVE Same
  BY <1>2 DEF ScanNothing
<1>3. ASSUME NEW k \in Kinds, ScanCollision(k) PROVE Same
  BY <1>3 DEF ScanCollision, RecoverFails, Disturb
<1>4. ASSUME NEW k \in Kinds, ScanObserves(k) PROVE Same
  BY <1>4 DEF ScanObserves, Recover
<1>5. ASSUME NEW k \in Kinds, ScanReady(k) PROVE Same
  BY <1>5 DEF ScanReady, Recover
<1>6. ASSUME Begin PROVE Same
  BY <1>6 DEF Begin, Fail
<1>7. ASSUME ReadExisting PROVE Same
  BY <1>7 DEF ReadExisting, Recover, Drift, Fail, Go
<1>8. ASSUME Stage PROVE Same
  BY <1>8 DEF Stage, Drift, Fail, Go
<1>9. ASSUME Copy PROVE Same
  BY <1>9 DEF Copy, Go, Fail
<1>10. ASSUME Acquire PROVE Same
  BY <1>10 DEF Acquire, Recover, Drift, Fail, Go, AfterAcquire
<1>11. ASSUME Create PROVE Same
  BY <1>11 DEF Create, Fail
<1>12. ASSUME Write PROVE Same
  BY <1>12 DEF Write, AfterAcquire
<1>13. ASSUME Publish PROVE Same
  BY <1>13 DEF Publish
<1>14. ASSUME Settle PROVE Same
  BY <1>14 DEF Settle, Drift, Fail
<1>15. ASSUME Commit PROVE Same
  BY <1>15 DEF Commit, Fail, Go
<1>16. ASSUME Detach PROVE Same
  BY <1>16 DEF Detach, Go
<1>17. ASSUME Relink PROVE Same
  BY <1>17 DEF Relink, Fail, Go
<1>18. ASSUME Tidy PROVE Same
  BY <1>18 DEF Tidy, Go
<1>19. ASSUME Confirm PROVE Same
  BY <1>19 DEF Confirm, Drift, Fail, Go
<1>20. ASSUME Insert PROVE Same
  BY <1>20 DEF Insert
<1>21. ASSUME GiveUp PROVE Same
  BY <1>21 DEF GiveUp, Disturb
<1>22. ASSUME Normalize PROVE Same
  BY <1>22 DEF Normalize
<1>23. ASSUME DropStaging PROVE Same
  BY <1>23 DEF DropStaging, Go, AfterStaging
<1>24. ASSUME DropMarker PROVE Same
  BY <1>24 DEF DropMarker, Go
<1>25. ASSUME DropAnchor PROVE Same
  BY <1>25 DEF DropAnchor, Go
<1>26. ASSUME Reject PROVE Same
  BY <1>26 DEF Reject, Go
<1>27. ASSUME WriteReceipt PROVE Same
  BY <1>27 DEF WriteReceipt
<1>28. ASSUME RemoveRead PROVE Same
  BY <1>28 DEF RemoveRead, Recover, RemoveEnds
<1>29. ASSUME RemoveMove PROVE Same
  BY <1>29 DEF RemoveMove, RemoveEnds, Go
<1>30. ASSUME RemoveCheck PROVE Same
  BY <1>30 DEF RemoveCheck, RemoveEnds, Go
<1>31. ASSUME RemoveEntry PROVE Same
  BY <1>31 DEF RemoveEntry, RemoveEnds, Go
<1>32. ASSUME RemoveDirectory PROVE Same
  BY <1>32 DEF RemoveDirectory, Go
<1>33. ASSUME RemoveMarker PROVE Same
  BY <1>33 DEF RemoveMarker, RemoveEnds, Go
<1>34. ASSUME RemoveAnchor PROVE Same
  BY <1>34 DEF RemoveAnchor, RemoveEnds
<1>35. ASSUME CompleteJob PROVE Same
  BY <1>35 DEF CompleteJob
<1>36. ASSUME WriteFails PROVE Same
  BY <1>36 DEF WriteFails, Disturb
<1>37. ASSUME PublicationFails PROVE Same
  BY <1>37 DEF PublicationFails, Disturb, Recover, Fail
<1>38. ASSUME CallFails PROVE Same
  BY <1>38 DEF CallFails, Disturb, Fail, ClaimCalls
<1>39. ASSUME ReadFails PROVE Same
  BY <1>39 DEF ReadFails, RecoverFails, Disturb, Fail
<1>40. ASSUME DropStagingFails PROVE Same
  BY <1>40 DEF DropStagingFails, Disturb
<1>41. ASSUME DropFails PROVE Same
  BY <1>41 DEF DropFails, RecoverFails, Disturb, Go
<1>42. ASSUME TellFails PROVE Same
  BY <1>42 DEF TellFails, Disturb
<1>43. ASSUME RemoveFails PROVE Same
  BY <1>43 DEF RemoveFails, RecoverFails, Disturb, RemoveEnds
<1>44. ASSUME Crash PROVE Same
  BY <1>44 DEF Crash, Disturb
<1>45. ASSUME NEW k \in Kinds, Deliver(k) PROVE Same
  BY <1>45 DEF Deliver
<1>46. ASSUME NEW k \in Kinds, Change(k) PROVE Same
  BY <1>46 DEF Change, Disturb
<1>47. ASSUME NEW k \in Kinds, Withdraw(k) PROVE Same
  BY <1>47 DEF Withdraw, Disturb
<1> QED
  BY <1>1, <1>2, <1>3, <1>4, <1>5, <1>6, <1>7, <1>8, <1>9, <1>10, <1>11, <1>12, <1>13,
     <1>14, <1>15, <1>16, <1>17, <1>18, <1>19, <1>20, <1>21, <1>22, <1>23, <1>24, <1>25, <1>26,
     <1>27, <1>28, <1>29, <1>30, <1>31, <1>32, <1>33, <1>34, <1>35, <1>36, <1>37, <1>38, <1>39,
     <1>40, <1>41, <1>42, <1>43, <1>44, <1>45, <1>46, <1>47
  DEF Next, ScanStep, ClaimStep, RemoveStep, FaultStep, OutsideStep

-----------------------------------------------------------------------------
(* The first theorems.                                                     *)

\* The layers that need nothing of what the files hold.
SafeInv == TypeInv /\ ControlInv /\ SoundToken /\ NamesInv /\ PlaceInv

LEMMA SafeSteps == SafeInv /\ [Next]_vars => SafeInv'
<1>1. SafeInv /\ Next => SafeInv'
  BY TypeSteps, ControlSteps, SoundTokenSteps, NamesSteps, PlaceSteps DEF SafeInv
<1>2. SafeInv /\ UNCHANGED vars => SafeInv'
  <2> SUFFICES ASSUME SafeInv, UNCHANGED vars PROVE SafeInv'
    OBVIOUS
  <2> USE DEF SafeInv, vars, disk, names, told, bounds
  <2>1. TypeInv'
    BY TypeSteps
  <2>2. ControlInv'
    BY DEF ControlInv
  <2>3. SoundToken'
    BY DEF SoundToken
  <2>4. NamesInv'
    BY DEF NamesInv, Agree, Seen, OneMarker, lane
  <2>5. PlaceInv'
    BY DEF PlaceInv, Seen, lane
  <2> QED
    BY <2>1, <2>2, <2>3, <2>4, <2>5
<1> QED
  BY <1>1, <1>2

LEMMA Safe == Spec => []SafeInv
<1>1. Init => SafeInv
  <2> SUFFICES ASSUME Init PROVE SafeInv
    OBVIOUS
  <2>1. TypeInv
    BY TypesStart
  <2>2. ControlInv /\ SoundToken
    BY DEF Init, ControlInv, SoundToken, Claiming, Catching, Removing
  <2>3. \A k \in Kinds : marker[k] = NoFile /\ anchor[k] = NoFile /\ quarantine[k] = NoFile
    BY DEF Init
  <2>4. NamesInv
    BY <2>3, KindsApart DEF Init, NamesInv, Agree, Seen, OneMarker, Claiming, Catching
  <2>5. PlaceInv
    BY DEF Init, PlaceInv
  <2> QED
    BY <2>1, <2>2, <2>4, <2>5 DEF SafeInv
<1> QED
  BY <1>1, SafeSteps, PTL DEF Spec

\* The variables of the queue keep their types.
THEOREM TypeCorrect == Spec => []TypeOK
<1>1. SafeInv => TypeOK
  BY TypesAreTypeOK DEF SafeInv
<1> QED
  BY <1>1, Safe, PTL

\* Wherever a commit, a recovery or a removal is cut off, the names that
\* claimReservation.ts finds next are names of one file.
THEOREM NamesStayInAgreement == Spec => []NamesAgree
<1>1. SafeInv => NamesAgree
  <2> SUFFICES ASSUME SafeInv, NEW k \in Kinds
               PROVE  /\ \A f, g \in NamesOf(k) : f = g
                      /\ quarantine[k] # NoFile => marker[k] # NoFile \/ anchor[k] # NoFile
    BY DEF NamesAgree
  <2>1. Agree(k)
    BY DEF SafeInv, NamesInv
  <2> QED
    BY <2>1, AgreedNames DEF Agree, Seen
<1> QED
  BY <1>1, Safe, PTL

\* The markers that shut the lanes against each other never shut both.
THEOREM LanesShutOnce == Spec => []OneMarker
<1>1. SafeInv => OneMarker
  BY DEF SafeInv, NamesInv
<1> QED
  BY <1>1, Safe, PTL

\* No claim makes a job of an id that has a rejection.
THEOREM RejectionsHold == Spec => RejectedStaysOut
<1>1. SafeInv /\ [Next]_vars => [rejected => job' = job]_vars
  <2> SUFFICES ASSUME SafeInv, Next, rejected PROVE job' = job
    OBVIOUS
  <2>1. pc # "claimed"
    BY DEF SafeInv, ControlInv, Claiming
  <2> QED
    BY <2>1, JobChanges
<1> QED
  BY <1>1, Safe, PTL DEF Spec, RejectedStaysOut

-----------------------------------------------------------------------------
(* What a step does to a reservation.                                      *)

\* What a step may do to the reservation of a lane.
Kept(L) == Seen(L)' = Seen(L) /\ anchor'[L] = anchor[L] /\ content' = content

Opened(L) ==
  /\ Seen(L) = NoFile /\ Seen(L)' \in Files /\ Seen(L)' # Seen(Other(L))
  /\ anchor'[L] = NoFile /\ content' = [content EXCEPT ![Seen(L)'] = Blank]

Filled(L) ==
  /\ pc = "write" /\ lane = L /\ Seen(L) = run.res
  /\ Seen(L)' = Seen(L) /\ anchor[L] = NoFile /\ anchor'[L] = NoFile
  /\ content' = [content EXCEPT ![run.res] = [kind |-> L, token |-> run.tok]]

Sealed(L) ==
  /\ Seen(L)' = Seen(L) /\ Seen(L) \in Files /\ content[Seen(L)] # Blank
  /\ anchor[L] = NoFile /\ anchor'[L] # NoFile /\ content' = content

Released(L) ==
  Seen(L) # NoFile /\ Seen(L)' = NoFile /\ anchor'[L] = NoFile /\ content' = content

\* Every step leaves a reservation alone, opens, fills, seals or releases one.
Effect ==
  \E L \in Kinds :
    /\ \A k \in Kinds \ {L} : Seen(k)' = Seen(k) /\ anchor'[k] = anchor[k]
    /\ Kept(L) \/ Opened(L) \/ Filled(L) \/ Sealed(L) \/ Released(L)

LEMMA NothingKept == UNCHANGED names => Effect
  BY KindsApart DEF Effect, Kept, Seen, names

LEMMA TwoLanes == \A L \in Kinds : Kinds \ {L} = {Other(L)}
  BY DEF Kinds, Other

LEMMA EffectSteps ==
  ASSUME TypeInv, ControlInv, NamesInv, PlaceInv, Next
  PROVE  Effect
<1> USE DEF told, disk, names, bounds
<1>a. NamesPart /\ \A k \in Kinds : Agree(k)
  BY DEF TypeInv, NamesInv
<1>1. ASSUME Poll PROVE Effect
  BY <1>1, NothingKept DEF Poll, RemoveEnds
<1>2. ASSUME ScanNothing PROVE Effect
  BY <1>2, NothingKept DEF ScanNothing, RemoveEnds
<1>3. ASSUME NEW k \in Kinds, ScanCollision(k) PROVE Effect
  <2>1. CASE UNCHANGED names
    BY <2>1, NothingKept
  <2>2. CASE RecoverFails(k)
    BY <2>2, <1>a, RecoverFailsEffect DEF Effect, Kept
  <2> QED
    BY <1>3, <2>1, <2>2 DEF ScanCollision
<1>4. ASSUME NEW k \in Kinds, ScanObserves(k) PROVE Effect
  BY <1>4, <1>a, RecoverEffect DEF ScanObserves, Effect, Kept
<1>5. ASSUME NEW k \in Kinds, ScanReady(k) PROVE Effect
  BY <1>5, <1>a, RecoverEffect DEF ScanReady, Effect, Kept
<1>6. ASSUME Begin PROVE Effect
  BY <1>6, NothingKept DEF Begin, RemoveEnds
<1>7. ASSUME ReadExisting PROVE Effect
  <2>0. PICK L \in Kinds : L = lane
    BY <1>7 DEF ReadExisting, TypeInv, RunPart
  <2>1. CASE UNCHANGED names
    BY <2>1, NothingKept
  <2>2. CASE Recover(L)
    BY <2>0, <2>2, <1>a, RecoverEffect DEF Effect, Kept
  <2> QED
    BY <1>7, <2>0, <2>1, <2>2 DEF ReadExisting
<1>8. ASSUME Stage PROVE Effect
  BY <1>8, NothingKept DEF Stage, RemoveEnds
<1>9. ASSUME Copy PROVE Effect
  BY <1>9, NothingKept DEF Copy, RemoveEnds
<1>10. ASSUME Acquire PROVE Effect
  <2>0. PICK L \in Kinds : L = lane
    BY <1>10 DEF Acquire, TypeInv, RunPart
  <2>1. CASE UNCHANGED names
    BY <2>1, NothingKept
  <2>2. CASE Recover(L)
    BY <2>0, <2>2, <1>a, RecoverEffect DEF Effect, Kept
  <2> QED
    BY <1>10, <2>0, <2>1, <2>2 DEF Acquire
<1>11. ASSUME Create PROVE Effect
  <2>0. PICK L \in Kinds : L = lane
    BY <1>11 DEF Create, TypeInv, RunPart
  <2>1. CASE UNCHANGED names
    BY <2>1, NothingKept
  <2>2. ASSUME NEW f \in Files \ InUse, marker' = [marker EXCEPT ![L] = f],
               content' = [content EXCEPT ![f] = Blank], UNCHANGED <<anchor, quarantine>>
        PROVE  Effect
    <3>1. Seen(L) = NoFile /\ anchor[L] = NoFile
      BY <1>11, <2>0 DEF Create, PlaceInv, Seen
    <3>2. /\ marker'[L] = f /\ f # NoFile
          /\ \A k \in Kinds \ {L} : marker'[k] = marker[k]
      BY <2>2, <1>a, QueueAssumption DEF NamesPart
    <3>3. Seen(L)' = f /\ \A k \in Kinds \ {L} : Seen(k)' = Seen(k)
      BY <2>2, <3>2 DEF Seen
    <3>4. f # Seen(Other(L))
      BY <2>2, <3>2, <1>a, AgreedNames, KindsApart DEF InUse
    <3> QED
      BY <2>2, <3>1, <3>3, <3>4 DEF Effect, Opened
  <2> QED
    BY <1>11, <2>0, <2>1, <2>2 DEF Create
<1>12. ASSUME Write PROVE Effect
  <2>0. PICK L \in Kinds : L = lane
    BY <1>12 DEF Write, TypeInv, RunPart
  <2>1. marker[L] = run.res /\ anchor[L] = NoFile /\ run.res \in Files
    BY <1>12, <2>0 DEF Write, PlaceInv, TypeInv, RunPart
  <2>2. Seen(L) = run.res /\ \A k \in Kinds : Seen(k)' = Seen(k)
    BY <1>12, <2>1, QueueAssumption DEF Write, Seen
  <2>3. anchor' = anchor /\ pc = "write"
    BY <1>12 DEF Write
  <2>4. content' = [content EXCEPT ![run.res] = [kind |-> L, token |-> run.tok]]
    BY <1>12, <2>0 DEF Write
  <2>5. Filled(L)
    BY <2>0, <2>1, <2>2, <2>3, <2>4 DEF Filled
  <2> QED
    BY <2>2, <2>3, <2>5 DEF Effect
<1>13. ASSUME Publish PROVE Effect
  BY <1>13, NothingKept DEF Publish, RemoveEnds
<1>14. ASSUME Settle PROVE Effect
  BY <1>14, NothingKept DEF Settle, RemoveEnds
<1>15. ASSUME Commit PROVE Effect
  <2>0. PICK L \in Kinds : L = lane
    BY <1>15 DEF Commit, TypeInv, RunPart
  <2>1. CASE UNCHANGED names
    BY <2>1, NothingKept
  <2>2. CASE Owned /\ ~UNCHANGED names
    <3>1. Seen(L) = run.res /\ content[Seen(L)] # Blank /\ Seen(L) # NoFile
      BY <2>0, <2>2, <1>a, AgreedNames DEF Owned, Readable
    <3>2. Seen(L) \in Files
      BY <3>1, <1>a, ReadsKeepType
    <3>3. /\ marker'[L] = run.res /\ anchor'[L] = run.res /\ content' = content
          /\ \A k \in Kinds \ {L} : marker'[k] = marker[k] /\ anchor'[k] = anchor[k]
      BY <1>15, <2>0, <2>2, <1>a DEF Commit, NamesPart
    <3>4. Seen(L)' = Seen(L) /\ \A k \in Kinds \ {L} : Seen(k)' = Seen(k)
      BY <3>1, <3>3 DEF Seen
    <3>5. anchor[L] \in {NoFile, run.res}
      BY <3>1, <1>a DEF Agree, Seen
    <3>6. Kept(L) \/ Sealed(L)
      BY <3>1, <3>2, <3>3, <3>4, <3>5 DEF Kept, Sealed
    <3> QED
      BY <3>3, <3>4, <3>6 DEF Effect
  <2> QED
    BY <1>15, <2>1, <2>2 DEF Commit
<1>16. ASSUME Detach PROVE Effect
  <2>0. PICK L \in Kinds : L = lane
    BY <1>16 DEF Detach, TypeInv, RunPart
  <2>1. /\ marker'[L] = NoFile /\ anchor' = anchor /\ content' = content
        /\ \A k \in Kinds \ {L} : marker'[k] = marker[k]
    BY <1>16, <2>0, <1>a DEF Detach, NamesPart
  <2>2. marker[L] = run.res /\ anchor[L] = run.res
    BY <1>16, <2>0 DEF Detach, PlaceInv
  <2>3. \A k \in Kinds : Seen(k)' = Seen(k)
    BY <2>1, <2>2 DEF Seen
  <2> QED
    BY <2>1, <2>3 DEF Effect, Kept
<1>17. ASSUME Relink PROVE Effect
  <2>0. PICK L \in Kinds : L = lane
    BY <1>17 DEF Relink, TypeInv, RunPart
  <2>1. CASE UNCHANGED names
    BY <2>1, NothingKept
  <2>2. CASE ~UNCHANGED names
    <3>1. /\ marker'[L] = quarantine[L] /\ anchor' = anchor /\ content' = content
          /\ \A k \in Kinds \ {L} : marker'[k] = marker[k]
      BY <1>17, <2>0, <2>2, <1>a DEF Relink, NamesPart
    <3>2. anchor[L] = run.res /\ quarantine[L] = run.res /\ run.res \in Files
      BY <1>17, <2>0 DEF Relink, PlaceInv
    <3>3. \A k \in Kinds : Seen(k)' = Seen(k)
      BY <3>1, <3>2, <1>a, QueueAssumption DEF Agree, Seen
    <3> QED
      BY <3>1, <3>3 DEF Effect, Kept
  <2> QED
    BY <2>1, <2>2
<1>18. ASSUME Tidy PROVE Effect
  <2>1. marker' = marker /\ anchor' = anchor /\ content' = content
    BY <1>18 DEF Tidy
  <2> QED
    BY <2>1, KindsApart DEF Effect, Kept, Seen
<1>19. ASSUME Confirm PROVE Effect
  BY <1>19, NothingKept DEF Confirm, RemoveEnds
<1>20. ASSUME Insert PROVE Effect
  BY <1>20, NothingKept DEF Insert, RemoveEnds
<1>21. ASSUME GiveUp PROVE Effect
  BY <1>21, NothingKept DEF GiveUp, RemoveEnds
<1>22. ASSUME Normalize PROVE Effect
  BY <1>22, NothingKept DEF Normalize, RemoveEnds
<1>23. ASSUME DropStaging PROVE Effect
  BY <1>23, NothingKept DEF DropStaging, RemoveEnds
<1>24. ASSUME DropMarker PROVE Effect
  <2>0. PICK L \in Kinds : L = lane
    BY <1>24 DEF DropMarker, TypeInv, RunPart
  <2>1. CASE UNCHANGED names
    BY <2>1, NothingKept
  <2>2. CASE Owned /\ ~UNCHANGED names
    <3>1. /\ marker'[L] = NoFile /\ anchor' = anchor /\ content' = content
          /\ \A k \in Kinds \ {L} : marker'[k] = marker[k]
      BY <1>24, <2>0, <2>2, <1>a DEF DropMarker, NamesPart
    <3>2. Seen(L) # NoFile
      BY <2>0, <2>2, <1>a, AgreedNames DEF Owned, Readable
    <3>3. \A k \in Kinds \ {L} : Seen(k)' = Seen(k)
      BY <3>1 DEF Seen
    <3>4. CASE anchor[L] = NoFile
      BY <3>1, <3>2, <3>3, <3>4 DEF Effect, Released, Seen
    <3>5. CASE anchor[L] # NoFile
      <4>1. Seen(L)' = Seen(L)
        BY <3>1, <3>5, <1>a DEF Seen, Agree
      <4> QED
        BY <3>1, <3>3, <4>1 DEF Effect, Kept
    <3> QED
      BY <3>4, <3>5
  <2> QED
    BY <1>24, <2>1, <2>2 DEF DropMarker
<1>25. ASSUME DropAnchor PROVE Effect
  <2>0. PICK L \in Kinds : L = lane
    BY <1>25 DEF DropAnchor, TypeInv, RunPart
  <2>1. /\ anchor'[L] = NoFile /\ marker' = marker /\ content' = content
        /\ \A k \in Kinds \ {L} : anchor'[k] = anchor[k]
    BY <1>25, <2>0, <1>a DEF DropAnchor, NamesPart
  <2>2. marker[L] = NoFile
    BY <1>25, <2>0 DEF DropAnchor, PlaceInv
  <2>3. Seen(L)' = NoFile /\ \A k \in Kinds \ {L} : Seen(k)' = Seen(k)
    BY <2>1, <2>2 DEF Seen
  <2>4. CASE anchor[L] = NoFile
    BY <2>1, <2>2, <2>3, <2>4 DEF Effect, Kept, Seen
  <2>5. CASE anchor[L] # NoFile
    BY <2>1, <2>2, <2>3, <2>5 DEF Effect, Released, Seen
  <2> QED
    BY <2>4, <2>5
<1>26. ASSUME Reject PROVE Effect
  BY <1>26, NothingKept DEF Reject, RemoveEnds
<1>27. ASSUME WriteReceipt PROVE Effect
  BY <1>27, NothingKept DEF WriteReceipt, RemoveEnds
<1>28. ASSUME RemoveRead PROVE Effect
  <2>0. PICK L \in Kinds : L = lane
    BY <1>28 DEF RemoveRead, TypeInv, RunPart
  <2>1. CASE UNCHANGED names
    BY <2>1, NothingKept
  <2>2. CASE Recover(L)
    BY <2>0, <2>2, <1>a, RecoverEffect DEF Effect, Kept
  <2> QED
    BY <1>28, <2>0, <2>1, <2>2 DEF RemoveRead
<1>29. ASSUME RemoveMove PROVE Effect
  BY <1>29, NothingKept DEF RemoveMove, RemoveEnds
<1>30. ASSUME RemoveCheck PROVE Effect
  BY <1>30, NothingKept DEF RemoveCheck, RemoveEnds
<1>31. ASSUME RemoveEntry PROVE Effect
  BY <1>31, NothingKept DEF RemoveEntry, RemoveEnds
<1>32. ASSUME RemoveDirectory PROVE Effect
  BY <1>32, NothingKept DEF RemoveDirectory, RemoveEnds
<1>33. ASSUME RemoveMarker PROVE Effect
  <2>0. PICK L \in Kinds : L = lane
    BY <1>33 DEF RemoveMarker, TypeInv, RunPart
  <2>1. CASE UNCHANGED names
    BY <2>1, NothingKept
  <2>2. CASE Owned /\ ~UNCHANGED names
    <3>1. /\ marker'[L] = NoFile /\ anchor' = anchor /\ content' = content
          /\ \A k \in Kinds \ {L} : marker'[k] = marker[k]
      BY <1>33, <2>0, <2>2, <1>a DEF RemoveMarker, NamesPart
    <3>2. Seen(L) # NoFile
      BY <2>0, <2>2, <1>a, AgreedNames DEF Owned, Readable
    <3>3. \A k \in Kinds \ {L} : Seen(k)' = Seen(k)
      BY <3>1 DEF Seen
    <3>4. CASE anchor[L] = NoFile
      BY <3>1, <3>2, <3>3, <3>4 DEF Effect, Released, Seen
    <3>5. CASE anchor[L] # NoFile
      <4>1. Seen(L)' = Seen(L)
        BY <3>1, <3>5, <1>a DEF Seen, Agree
      <4> QED
        BY <3>1, <3>3, <4>1 DEF Effect, Kept
    <3> QED
      BY <3>4, <3>5
  <2> QED
    BY <1>33, <2>1, <2>2 DEF RemoveMarker
<1>34. ASSUME RemoveAnchor PROVE Effect
  <2>0. PICK L \in Kinds : L = lane
    BY <1>34 DEF RemoveAnchor, TypeInv, RunPart
  <2>1. /\ anchor'[L] = NoFile /\ marker' = marker /\ content' = content
        /\ \A k \in Kinds \ {L} : anchor'[k] = anchor[k]
    BY <1>34, <2>0, <1>a DEF RemoveAnchor, NamesPart
  <2>2. marker[L] = NoFile
    BY <1>34, <2>0 DEF RemoveAnchor, PlaceInv
  <2>3. Seen(L)' = NoFile /\ \A k \in Kinds \ {L} : Seen(k)' = Seen(k)
    BY <2>1, <2>2 DEF Seen
  <2>4. CASE anchor[L] = NoFile
    BY <2>1, <2>2, <2>3, <2>4 DEF Effect, Kept, Seen
  <2>5. CASE anchor[L] # NoFile
    BY <2>1, <2>2, <2>3, <2>5 DEF Effect, Released, Seen
  <2> QED
    BY <2>4, <2>5
<1>35. ASSUME CompleteJob PROVE Effect
  BY <1>35, NothingKept DEF CompleteJob, RemoveEnds
<1>36. ASSUME WriteFails PROVE Effect
  <2>0. PICK L \in Kinds : L = lane
    BY <1>36 DEF WriteFails, TypeInv, RunPart
  <2>1. CASE UNCHANGED names
    BY <2>1, NothingKept
  <2>2. CASE marker' = [marker EXCEPT ![L] = NoFile]
    <3>1. marker[L] = run.res /\ anchor[L] = NoFile /\ run.res \in Files
      BY <1>36, <2>0 DEF WriteFails, PlaceInv, TypeInv, RunPart
    <3>2. marker'[L] = NoFile /\ \A k \in Kinds \ {L} : marker'[k] = marker[k]
      BY <2>2, <1>a DEF NamesPart
    <3>3. anchor' = anchor /\ content' = content
      BY <1>36 DEF WriteFails
    <3>4. Seen(L) # NoFile /\ Seen(L)' = NoFile /\ \A k \in Kinds \ {L} : Seen(k)' = Seen(k)
      BY <3>1, <3>2, <3>3, QueueAssumption DEF Seen
    <3> QED
      BY <3>1, <3>3, <3>4 DEF Effect, Released
  <2> QED
    BY <1>36, <2>0, <2>1, <2>2 DEF WriteFails
<1>37. ASSUME PublicationFails PROVE Effect
  <2>0. PICK L \in Kinds : L = lane
    BY <1>37 DEF PublicationFails, TypeInv, RunPart
  <2>1. CASE UNCHANGED names
    BY <2>1, NothingKept
  <2>2. CASE /\ marker' = [marker EXCEPT ![L] = quarantine[L]]
             /\ UNCHANGED <<anchor, quarantine, content>>
    <3>1. /\ marker'[L] = quarantine[L] /\ anchor' = anchor /\ content' = content
          /\ \A k \in Kinds \ {L} : marker'[k] = marker[k]
      BY <1>37, <2>0, <2>2, <1>a DEF PublicationFails, NamesPart
    <3>2. anchor[L] = run.res /\ quarantine[L] = run.res /\ run.res \in Files
      BY <1>37, <2>0 DEF PublicationFails, PlaceInv
    <3>3. \A k \in Kinds : Seen(k)' = Seen(k)
      BY <3>1, <3>2, <1>a, QueueAssumption DEF Agree, Seen
    <3> QED
      BY <3>1, <3>3 DEF Effect, Kept
  <2>3. CASE Recover(L)
    BY <2>0, <2>3, <1>a, RecoverEffect DEF Effect, Kept
  <2> QED
    BY <1>37, <2>0, <2>1, <2>2, <2>3 DEF PublicationFails
<1>38. ASSUME CallFails PROVE Effect
  BY <1>38, NothingKept DEF CallFails, RemoveEnds
<1>39. ASSUME ReadFails PROVE Effect
  <2>0. PICK L \in Kinds : L = lane
    BY <1>39 DEF ReadFails, TypeInv, RunPart
  <2>1. CASE UNCHANGED names
    BY <2>1, NothingKept
  <2>2. CASE RecoverFails(L)
    BY <2>0, <2>2, <1>a, RecoverFailsEffect DEF Effect, Kept
  <2> QED
    BY <1>39, <2>0, <2>1, <2>2 DEF ReadFails
<1>40. ASSUME DropStagingFails PROVE Effect
  BY <1>40, NothingKept DEF DropStagingFails, RemoveEnds
<1>41. ASSUME DropFails PROVE Effect
  <2>0. PICK L \in Kinds : L = lane
    BY <1>41 DEF DropFails, TypeInv, RunPart
  <2>1. CASE UNCHANGED names
    BY <2>1, NothingKept
  <2>2. CASE RecoverFails(L)
    BY <2>0, <2>2, <1>a, RecoverFailsEffect DEF Effect, Kept
  <2> QED
    BY <1>41, <2>0, <2>1, <2>2 DEF DropFails
<1>42. ASSUME TellFails PROVE Effect
  BY <1>42, NothingKept DEF TellFails, RemoveEnds
<1>43. ASSUME RemoveFails PROVE Effect
  <2>0. PICK L \in Kinds : L = lane
    BY <1>43 DEF RemoveFails, TypeInv, RunPart
  <2>1. CASE UNCHANGED names
    BY <2>1, NothingKept
  <2>2. CASE RecoverFails(L)
    BY <2>0, <2>2, <1>a, RecoverFailsEffect DEF Effect, Kept
  <2> QED
    BY <1>43, <2>0, <2>1, <2>2 DEF RemoveFails
<1>44. ASSUME Crash PROVE Effect
  BY <1>44, NothingKept DEF Crash, RemoveEnds
<1>45. ASSUME NEW k \in Kinds, Deliver(k) PROVE Effect
  BY <1>45, NothingKept DEF Deliver, RemoveEnds
<1>46. ASSUME NEW k \in Kinds, Change(k) PROVE Effect
  BY <1>46, NothingKept DEF Change, RemoveEnds
<1>47. ASSUME NEW k \in Kinds, Withdraw(k) PROVE Effect
  BY <1>47, NothingKept DEF Withdraw, RemoveEnds
<1> QED
  BY <1>1, <1>2, <1>3, <1>4, <1>5, <1>6, <1>7, <1>8, <1>9, <1>10, <1>11, <1>12, <1>13,
     <1>14, <1>15, <1>16, <1>17, <1>18, <1>19, <1>20, <1>21, <1>22, <1>23, <1>24, <1>25, <1>26,
     <1>27, <1>28, <1>29, <1>30, <1>31, <1>32, <1>33, <1>34, <1>35, <1>36, <1>37, <1>38, <1>39,
     <1>40, <1>41, <1>42, <1>43, <1>44, <1>45, <1>46, <1>47
  DEF Next, ScanStep, ClaimStep, RemoveStep, FaultStep, OutsideStep

-----------------------------------------------------------------------------
(* What stands behind a claim and a removal.                               *)

\* The steps of a claim that hold a written reservation.
Held ==
  {"publish", "settle", "commit", "detach", "relink", "tidy", "confirm", "claimed"}

\* A written reservation names the lane it is found in.
OwnerInv ==
  \A k \in Kinds : Seen(k) # NoFile /\ content[Seen(k)] # Blank => content[Seen(k)].kind = k

\* The reservation in hand is that of the bundle in hand.
HeldInv ==
  /\ pc = "write" => content[run.res] = Blank
  /\ pc \in Held => run.res \in Files /\ content[run.res] = [kind |-> lane, token |-> run.tok]

\* What is staged is what the bundle in hand holds.
StagedInv ==
  /\ pc = "copy" => run.own = "temp"
  /\ pc \in {"acquire", "create", "write"} => run.own = "temp" \/ staged = run.tok.data
  /\ pc \in Held \ {"publish"} => staged = run.tok.data

\* A removal in progress has its reservation, and removes what it was made for.
RemovalInv ==
  /\ RemovalIsCovered
  /\ pc \in {"rmMove", "rmCheck", "rmEntry"} => anchor[lane] # NoFile /\ run.tok = TokenOf(lane)
  /\ pc \in {"rmMarker", "rmAnchor"} => cleanup[lane] = NoBundle

LEMMA OwnerSteps ==
  ASSUME TypeInv, NamesInv, OwnerInv, Effect
  PROVE  OwnerInv'
<1>1. PICK L \in Kinds :
        /\ \A k \in Kinds \ {L} : Seen(k)' = Seen(k) /\ anchor'[k] = anchor[k]
        /\ Kept(L) \/ Opened(L) \/ Filled(L) \/ Sealed(L) \/ Released(L)
  BY DEF Effect
<1>2. NamesPart /\ \A k \in Kinds : Seen(k) \in Files \cup {NoFile}
  BY ReadsKeepType DEF TypeInv
<1>3. CASE content' = content /\ ~Opened(L)
  <2>1. \A k \in Kinds : Seen(k)' \in {Seen(k), NoFile}
    BY <1>1, <1>3 DEF Kept, Filled, Sealed, Released
  <2> QED
    BY <1>3, <2>1 DEF OwnerInv
<1>4. CASE Opened(L)
  <2> SUFFICES ASSUME NEW k \in Kinds, Seen(k)' # NoFile, content'[Seen(k)'] # Blank
               PROVE  content'[Seen(k)'].kind = k
    BY DEF OwnerInv
  <2>1. content'[Seen(L)'] = Blank
    BY <1>2, <1>4 DEF Opened, NamesPart
  <2>2. k # L
    BY <2>1
  <2>3. Seen(k)' = Seen(k) /\ Seen(k) \in Files /\ Seen(k) # Seen(L)'
    BY <1>1, <1>2, <1>4, <2>2, TwoLanes DEF Opened
  <2> QED
    BY <1>2, <1>4, <2>3, QueueAssumption DEF Opened, NamesPart, OwnerInv
<1>5. CASE Filled(L)
  <2> SUFFICES ASSUME NEW k \in Kinds, Seen(k)' # NoFile, content'[Seen(k)'] # Blank
               PROVE  content'[Seen(k)'].kind = k
    BY DEF OwnerInv
  <2>1. Seen(k)' = Seen(k) /\ Seen(k) \in Files
    BY <1>1, <1>2, <1>5 DEF Filled
  <2>2. CASE k = L
    BY <1>2, <1>5, <2>1, <2>2 DEF Filled, NamesPart
  <2>3. CASE k # L
    <3>1. Seen(k) # run.res
      BY <1>5, <2>1, <2>3, TwoLanes, KindsApart, QueueAssumption DEF Filled, NamesInv
    <3> QED
      BY <1>2, <1>5, <2>1, <3>1, QueueAssumption DEF Filled, NamesPart, OwnerInv
  <2> QED
    BY <2>2, <2>3
<1> QED
  BY <1>1, <1>3, <1>4, <1>5 DEF Kept, Sealed, Released

LEMMA HeldSteps ==
  ASSUME TypeInv, TypeInv', NamesInv, PlaceInv, OwnerInv, HeldInv, Next
  PROVE  HeldInv'
<1> USE DEF told, disk, names, bounds, HeldInv, Held
<1>a. run \in Runs /\ NamesPart /\ \A k \in Kinds : Agree(k)
  BY DEF TypeInv, RunPart, NamesInv
<1>b. UNCHANGED <<content, pc, run>> => HeldInv'
  BY DEF lane
<1>1. ASSUME Poll PROVE HeldInv'
  BY <1>1 DEF Poll
<1>2. ASSUME ScanNothing PROVE HeldInv'
  BY <1>2 DEF ScanNothing
<1>3. ASSUME NEW k \in Kinds, ScanCollision(k) PROVE HeldInv'
  BY <1>3 DEF ScanCollision, RecoverFails, Disturb
<1>4. ASSUME NEW k \in Kinds, ScanObserves(k) PROVE HeldInv'
  BY <1>4 DEF ScanObserves, Recover
<1>5. ASSUME NEW k \in Kinds, ScanReady(k) PROVE HeldInv'
  BY <1>5 DEF ScanReady, Recover
<1>6. ASSUME Begin PROVE HeldInv'
  BY <1>6 DEF Begin, Fail
<1>7. ASSUME ReadExisting PROVE HeldInv'
  BY <1>7 DEF ReadExisting, Recover, Drift, Fail, Go
<1>8. ASSUME Stage PROVE HeldInv'
  BY <1>8 DEF Stage, Drift, Fail, Go
<1>9. ASSUME Copy PROVE HeldInv'
  BY <1>9 DEF Copy, Go, Fail
<1>10. ASSUME Acquire PROVE HeldInv'
  <2>0. PICK L \in Kinds : L = lane
    BY <1>10 DEF Acquire, TypeInv, RunPart
  <2>1. CASE pc' \in {"normalize", "create"}
    BY <2>1
  <2>2. CASE /\ Readable(L) /\ Recover(L) /\ SameToken
             /\ pc' = AfterAcquire /\ run' = [run EXCEPT !.res = Seen(lane)]
    <3>1. Seen(L) \in Files /\ content[Seen(L)] \in Record
      BY <2>2, <1>a, AgreedNames, ReadsKeepType DEF Readable, NamesPart
    <3>2. content[Seen(L)].kind = L /\ content[Seen(L)].token = run.tok
      BY <2>0, <2>2, <3>1, QueueAssumption, Values DEF SameToken, OwnerInv
    <3>3. content[Seen(L)] = [kind |-> L, token |-> run.tok]
      BY <3>1, <3>2 DEF Record
    <3>4. run'.res = Seen(L) /\ run'.tok = run.tok /\ run'.lane = L
      BY <2>0, <2>2, <3>1, <1>a, FileKept DEF lane
    <3>5. content' = content /\ pc' \in {"publish", "settle"}
      BY <2>2 DEF Recover, AfterAcquire
    <3> QED
      BY <3>1, <3>3, <3>4, <3>5 DEF lane
  <2> QED
    BY <1>10, <2>0, <2>1, <2>2 DEF Acquire, Fail, Drift, Go
<1>11. ASSUME Create PROVE HeldInv'
  <2>1. CASE Fail("invalid")
    BY <2>1 DEF Fail
  <2>2. ASSUME NEW f \in Files \ InUse, content' = [content EXCEPT ![f] = Blank],
               pc' = "write", run' = [run EXCEPT !.res = f]
        PROVE  HeldInv'
    <3>1. run'.res = f /\ content'[f] = Blank
      BY <2>2, <1>a, FileKept DEF NamesPart
    <3> QED
      BY <2>2, <3>1
  <2> QED
    BY <1>11, <2>1, <2>2 DEF Create
<1>12. ASSUME Write PROVE HeldInv'
  <2>1. run.res \in Files
    BY <1>12 DEF Write, TypeInv, RunPart
  <2>2. run'.res = run.res /\ run'.tok = run.tok /\ lane' = lane
    BY <1>12, <1>a DEF Write, Runs, lane
  <2>3. content'[run.res] = [kind |-> lane, token |-> run.tok]
    BY <1>12, <2>1, <1>a DEF Write, NamesPart
  <2>4. pc' \in {"publish", "settle"}
    BY <1>12 DEF Write, AfterAcquire
  <2> QED
    BY <2>1, <2>2, <2>3, <2>4
<1>13. ASSUME Publish PROVE HeldInv'
  <2>1. pc' = "normalize" \/ (run'.res = run.res /\ run'.tok = run.tok /\ lane' = lane)
    BY <1>13, <1>a DEF Publish, Runs, lane, Drift, Fail
  <2> QED
    BY <1>13, <2>1 DEF Publish, Drift, Fail
<1>14. ASSUME Settle PROVE HeldInv'
  <2>1. pc' = "normalize" \/ (run'.res = run.res /\ run'.tok = run.tok /\ lane' = lane)
    BY <1>14, <1>a DEF Settle, Runs, lane, Drift, Fail
  <2> QED
    BY <1>14, <2>1 DEF Settle, Drift, Fail
<1>15. ASSUME Commit PROVE HeldInv'
  <2>1. content' = content /\ (pc' = "normalize" \/ run' = run)
    BY <1>15 DEF Commit, Drift, Fail, Go
  <2> QED
    BY <1>15, <2>1 DEF Commit, lane, Drift, Fail, Go
<1>16. ASSUME Detach PROVE HeldInv'
  <2>1. content' = content /\ (pc' = "normalize" \/ run' = run)
    BY <1>16 DEF Detach, Drift, Fail, Go
  <2> QED
    BY <1>16, <2>1 DEF Detach, lane, Drift, Fail, Go
<1>17. ASSUME Relink PROVE HeldInv'
  <2>1. content' = content /\ (pc' = "normalize" \/ run' = run)
    BY <1>17 DEF Relink, Drift, Fail, Go
  <2> QED
    BY <1>17, <2>1 DEF Relink, lane, Drift, Fail, Go
<1>18. ASSUME Tidy PROVE HeldInv'
  <2>1. content' = content /\ (pc' = "normalize" \/ run' = run)
    BY <1>18 DEF Tidy, Drift, Fail, Go
  <2> QED
    BY <1>18, <2>1 DEF Tidy, lane, Drift, Fail, Go
<1>19. ASSUME Confirm PROVE HeldInv'
  <2>1. content' = content /\ (pc' = "normalize" \/ run' = run)
    BY <1>19 DEF Confirm, Drift, Fail, Go
  <2> QED
    BY <1>19, <2>1 DEF Confirm, lane, Drift, Fail, Go
<1>20. ASSUME Insert PROVE HeldInv'
  BY <1>20 DEF Insert
<1>21. ASSUME GiveUp PROVE HeldInv'
  BY <1>21 DEF GiveUp, Disturb
<1>22. ASSUME Normalize PROVE HeldInv'
  BY <1>22 DEF Normalize
<1>23. ASSUME DropStaging PROVE HeldInv'
  BY <1>23 DEF DropStaging, Go, AfterStaging
<1>24. ASSUME DropMarker PROVE HeldInv'
  BY <1>24 DEF DropMarker, Go
<1>25. ASSUME DropAnchor PROVE HeldInv'
  BY <1>25 DEF DropAnchor, Go
<1>26. ASSUME Reject PROVE HeldInv'
  BY <1>26 DEF Reject, Go
<1>27. ASSUME WriteReceipt PROVE HeldInv'
  BY <1>27 DEF WriteReceipt
<1>28. ASSUME RemoveRead PROVE HeldInv'
  BY <1>28 DEF RemoveRead, Recover, RemoveEnds
<1>29. ASSUME RemoveMove PROVE HeldInv'
  BY <1>29 DEF RemoveMove, RemoveEnds, Go
<1>30. ASSUME RemoveCheck PROVE HeldInv'
  BY <1>30 DEF RemoveCheck, RemoveEnds, Go
<1>31. ASSUME RemoveEntry PROVE HeldInv'
  BY <1>31 DEF RemoveEntry, RemoveEnds, Go
<1>32. ASSUME RemoveDirectory PROVE HeldInv'
  BY <1>32 DEF RemoveDirectory, Go
<1>33. ASSUME RemoveMarker PROVE HeldInv'
  BY <1>33 DEF RemoveMarker, RemoveEnds, Go
<1>34. ASSUME RemoveAnchor PROVE HeldInv'
  BY <1>34 DEF RemoveAnchor, RemoveEnds
<1>35. ASSUME CompleteJob PROVE HeldInv'
  BY <1>35 DEF CompleteJob
<1>36. ASSUME WriteFails PROVE HeldInv'
  BY <1>36 DEF WriteFails, Disturb
<1>37. ASSUME PublicationFails PROVE HeldInv'
  BY <1>37 DEF PublicationFails, Disturb, Recover, Fail
<1>38. ASSUME CallFails PROVE HeldInv'
  BY <1>38 DEF CallFails, Disturb, Fail, ClaimCalls
<1>39. ASSUME ReadFails PROVE HeldInv'
  BY <1>39 DEF ReadFails, RecoverFails, Disturb, Fail
<1>40. ASSUME DropStagingFails PROVE HeldInv'
  BY <1>40 DEF DropStagingFails, Disturb
<1>41. ASSUME DropFails PROVE HeldInv'
  BY <1>41 DEF DropFails, RecoverFails, Disturb, Go
<1>42. ASSUME TellFails PROVE HeldInv'
  BY <1>42 DEF TellFails, Disturb
<1>43. ASSUME RemoveFails PROVE HeldInv'
  BY <1>43 DEF RemoveFails, RecoverFails, Disturb, RemoveEnds
<1>44. ASSUME Crash PROVE HeldInv'
  BY <1>44 DEF Crash, Disturb
<1>45. ASSUME NEW k \in Kinds, Deliver(k) PROVE HeldInv'
  BY <1>45, <1>b DEF Deliver
<1>46. ASSUME NEW k \in Kinds, Change(k) PROVE HeldInv'
  BY <1>46, <1>b DEF Change
<1>47. ASSUME NEW k \in Kinds, Withdraw(k) PROVE HeldInv'
  BY <1>47, <1>b DEF Withdraw
<1> QED
  BY <1>1, <1>2, <1>3, <1>4, <1>5, <1>6, <1>7, <1>8, <1>9, <1>10, <1>11, <1>12, <1>13,
     <1>14, <1>15, <1>16, <1>17, <1>18, <1>19, <1>20, <1>21, <1>22, <1>23, <1>24, <1>25, <1>26,
     <1>27, <1>28, <1>29, <1>30, <1>31, <1>32, <1>33, <1>34, <1>35, <1>36, <1>37, <1>38, <1>39,
     <1>40, <1>41, <1>42, <1>43, <1>44, <1>45, <1>46, <1>47
  DEF Next, ScanStep, ClaimStep, RemoveStep, FaultStep, OutsideStep

LEMMA StagedSteps ==
  ASSUME TypeInv, StagedInv, Next
  PROVE  StagedInv'
<1> USE DEF told, disk, names, bounds, StagedInv, Held, Claiming, TypeInv, RunPart, Runs
<1>1. ASSUME Poll PROVE StagedInv'
  BY <1>1 DEF Poll
<1>2. ASSUME ScanNothing PROVE StagedInv'
  BY <1>2 DEF ScanNothing
<1>3. ASSUME NEW k \in Kinds, ScanCollision(k) PROVE StagedInv'
  BY <1>3 DEF ScanCollision, RecoverFails, Disturb
<1>4. ASSUME NEW k \in Kinds, ScanObserves(k) PROVE StagedInv'
  BY <1>4 DEF ScanObserves, Recover
<1>5. ASSUME NEW k \in Kinds, ScanReady(k) PROVE StagedInv'
  BY <1>5 DEF ScanReady, Recover
<1>6. ASSUME Begin PROVE StagedInv'
  BY <1>6 DEF Begin, Fail
<1>7. ASSUME ReadExisting PROVE StagedInv'
  BY <1>7 DEF ReadExisting, Recover, Drift, Fail, Go
<1>8. ASSUME Stage PROVE StagedInv'
  BY <1>8 DEF Stage, Drift, Fail, Go
<1>9. ASSUME Copy PROVE StagedInv'
  BY <1>9 DEF Copy, Go, Fail
<1>10. ASSUME Acquire PROVE StagedInv'
  BY <1>10 DEF Acquire, Recover, Drift, Fail, Go, AfterAcquire
<1>11. ASSUME Create PROVE StagedInv'
  BY <1>11 DEF Create, Fail
<1>12. ASSUME Write PROVE StagedInv'
  BY <1>12 DEF Write, AfterAcquire
<1>13. ASSUME Publish PROVE StagedInv'
  BY <1>13 DEF Publish
<1>14. ASSUME Settle PROVE StagedInv'
  BY <1>14 DEF Settle, Drift, Fail
<1>15. ASSUME Commit PROVE StagedInv'
  BY <1>15 DEF Commit, Fail, Go
<1>16. ASSUME Detach PROVE StagedInv'
  BY <1>16 DEF Detach, Go
<1>17. ASSUME Relink PROVE StagedInv'
  BY <1>17 DEF Relink, Fail, Go
<1>18. ASSUME Tidy PROVE StagedInv'
  BY <1>18 DEF Tidy, Go
<1>19. ASSUME Confirm PROVE StagedInv'
  BY <1>19 DEF Confirm, Drift, Fail, Go
<1>20. ASSUME Insert PROVE StagedInv'
  BY <1>20 DEF Insert
<1>21. ASSUME GiveUp PROVE StagedInv'
  BY <1>21 DEF GiveUp, Disturb
<1>22. ASSUME Normalize PROVE StagedInv'
  BY <1>22 DEF Normalize
<1>23. ASSUME DropStaging PROVE StagedInv'
  BY <1>23 DEF DropStaging, Go, AfterStaging
<1>24. ASSUME DropMarker PROVE StagedInv'
  BY <1>24 DEF DropMarker, Go
<1>25. ASSUME DropAnchor PROVE StagedInv'
  BY <1>25 DEF DropAnchor, Go
<1>26. ASSUME Reject PROVE StagedInv'
  BY <1>26 DEF Reject, Go
<1>27. ASSUME WriteReceipt PROVE StagedInv'
  BY <1>27 DEF WriteReceipt
<1>28. ASSUME RemoveRead PROVE StagedInv'
  BY <1>28 DEF RemoveRead, Recover, RemoveEnds
<1>29. ASSUME RemoveMove PROVE StagedInv'
  BY <1>29 DEF RemoveMove, RemoveEnds, Go
<1>30. ASSUME RemoveCheck PROVE StagedInv'
  BY <1>30 DEF RemoveCheck, RemoveEnds, Go
<1>31. ASSUME RemoveEntry PROVE StagedInv'
  BY <1>31 DEF RemoveEntry, RemoveEnds, Go
<1>32. ASSUME RemoveDirectory PROVE StagedInv'
  BY <1>32 DEF RemoveDirectory, Go
<1>33. ASSUME RemoveMarker PROVE StagedInv'
  BY <1>33 DEF RemoveMarker, RemoveEnds, Go
<1>34. ASSUME RemoveAnchor PROVE StagedInv'
  BY <1>34 DEF RemoveAnchor, RemoveEnds
<1>35. ASSUME CompleteJob PROVE StagedInv'
  BY <1>35 DEF CompleteJob
<1>36. ASSUME WriteFails PROVE StagedInv'
  BY <1>36 DEF WriteFails, Disturb
<1>37. ASSUME PublicationFails PROVE StagedInv'
  BY <1>37 DEF PublicationFails, Disturb, Recover, Fail
<1>38. ASSUME CallFails PROVE StagedInv'
  BY <1>38 DEF CallFails, Disturb, Fail, ClaimCalls
<1>39. ASSUME ReadFails PROVE StagedInv'
  BY <1>39 DEF ReadFails, RecoverFails, Disturb, Fail
<1>40. ASSUME DropStagingFails PROVE StagedInv'
  BY <1>40 DEF DropStagingFails, Disturb
<1>41. ASSUME DropFails PROVE StagedInv'
  BY <1>41 DEF DropFails, RecoverFails, Disturb, Go
<1>42. ASSUME TellFails PROVE StagedInv'
  BY <1>42 DEF TellFails, Disturb
<1>43. ASSUME RemoveFails PROVE StagedInv'
  BY <1>43 DEF RemoveFails, RecoverFails, Disturb, RemoveEnds
<1>44. ASSUME Crash PROVE StagedInv'
  BY <1>44 DEF Crash, Disturb
<1>45. ASSUME NEW k \in Kinds, Deliver(k) PROVE StagedInv'
  BY <1>45 DEF Deliver
<1>46. ASSUME NEW k \in Kinds, Change(k) PROVE StagedInv'
  BY <1>46 DEF Change, Disturb
<1>47. ASSUME NEW k \in Kinds, Withdraw(k) PROVE StagedInv'
  BY <1>47 DEF Withdraw, Disturb
<1> QED
  BY <1>1, <1>2, <1>3, <1>4, <1>5, <1>6, <1>7, <1>8, <1>9, <1>10, <1>11, <1>12, <1>13,
     <1>14, <1>15, <1>16, <1>17, <1>18, <1>19, <1>20, <1>21, <1>22, <1>23, <1>24, <1>25, <1>26,
     <1>27, <1>28, <1>29, <1>30, <1>31, <1>32, <1>33, <1>34, <1>35, <1>36, <1>37, <1>38, <1>39,
     <1>40, <1>41, <1>42, <1>43, <1>44, <1>45, <1>46, <1>47
  DEF Next, ScanStep, ClaimStep, RemoveStep, FaultStep, OutsideStep

LEMMA RemovalSteps ==
  ASSUME TypeInv, TypeInv', ControlInv, NamesInv, PlaceInv, RemovalInv, Next
  PROVE  RemovalInv'
<1> USE DEF told, disk, names, bounds
<1>a. run \in Runs /\ NamesPart /\ RestPart /\ \A k \in Kinds : Agree(k)
  BY DEF TypeInv, RunPart, NamesInv
<1>b. ASSUME cleanup' = cleanup, job' = job \/ job = "none", job = "none" \/ anchor' = anchor,
             pc' \notin {"rmMove", "rmCheck", "rmEntry", "rmMarker", "rmAnchor"}
      PROVE  RemovalInv'
  <2>1. \A k \in Kinds : cleanup[k] # NoBundle => job = k /\ anchor[k] # NoFile
    BY DEF RemovalInv, RemovalIsCovered
  <2>2. job = "none" => \A k \in Kinds : cleanup[k] = NoBundle
    BY <2>1, KindsApart
  <2>3. \A k \in Kinds : cleanup'[k] # NoBundle => job' = k /\ anchor'[k] # NoFile
    BY <1>b, <2>1, <2>2
  <2> QED
    BY <1>b, <2>3 DEF RemovalInv, RemovalIsCovered
<1>c. UNCHANGED <<cleanup, job, names, pc, run>> => RemovalInv'
  BY DEF RemovalInv, RemovalIsCovered, lane, TokenOf, Seen
<1>d. pc \in Claiming \cup Catching => job = "none"
  BY DEF ControlInv
<1>1. ASSUME Poll PROVE RemovalInv'
  BY <1>1, <1>b, <1>d DEF Poll, Claiming, Catching
<1>2. ASSUME ScanNothing PROVE RemovalInv'
  BY <1>2, <1>b, <1>d DEF ScanNothing, Claiming, Catching
<1>3. ASSUME NEW k \in Kinds, ScanCollision(k) PROVE RemovalInv'
  BY <1>3, <1>b, <1>d DEF ScanCollision, RecoverFails, Disturb, Claiming, Catching
<1>4. ASSUME NEW k \in Kinds, ScanObserves(k) PROVE RemovalInv'
  BY <1>4, <1>b, <1>d DEF ScanObserves, Recover, Claiming, Catching
<1>5. ASSUME NEW k \in Kinds, ScanReady(k) PROVE RemovalInv'
  BY <1>5, <1>b, <1>d DEF ScanReady, Recover, Claiming, Catching
<1>6. ASSUME Begin PROVE RemovalInv'
  BY <1>6, <1>b, <1>d DEF Begin, Fail, Claiming, Catching
<1>7. ASSUME ReadExisting PROVE RemovalInv'
  BY <1>7, <1>b, <1>d DEF ReadExisting, Recover, Drift, Fail, Go, Claiming, Catching
<1>8. ASSUME Stage PROVE RemovalInv'
  BY <1>8, <1>b, <1>d DEF Stage, Drift, Fail, Go, Claiming, Catching
<1>9. ASSUME Copy PROVE RemovalInv'
  BY <1>9, <1>b, <1>d DEF Copy, Go, Fail, Claiming, Catching
<1>10. ASSUME Acquire PROVE RemovalInv'
  BY <1>10, <1>b, <1>d DEF Acquire, Recover, Drift, Fail, Go, AfterAcquire, Claiming, Catching
<1>11. ASSUME Create PROVE RemovalInv'
  BY <1>11, <1>b, <1>d DEF Create, Fail, Claiming, Catching
<1>12. ASSUME Write PROVE RemovalInv'
  BY <1>12, <1>b, <1>d DEF Write, AfterAcquire, Claiming, Catching
<1>13. ASSUME Publish PROVE RemovalInv'
  BY <1>13, <1>b, <1>d DEF Publish, Claiming, Catching
<1>14. ASSUME Settle PROVE RemovalInv'
  BY <1>14, <1>b, <1>d DEF Settle, Drift, Fail, Claiming, Catching
<1>15. ASSUME Commit PROVE RemovalInv'
  BY <1>15, <1>b, <1>d DEF Commit, Fail, Go, Claiming, Catching
<1>16. ASSUME Detach PROVE RemovalInv'
  BY <1>16, <1>b, <1>d DEF Detach, Go, Claiming, Catching
<1>17. ASSUME Relink PROVE RemovalInv'
  BY <1>17, <1>b, <1>d DEF Relink, Fail, Go, Claiming, Catching
<1>18. ASSUME Tidy PROVE RemovalInv'
  BY <1>18, <1>b, <1>d DEF Tidy, Go, Claiming, Catching
<1>19. ASSUME Confirm PROVE RemovalInv'
  BY <1>19, <1>b, <1>d DEF Confirm, Drift, Fail, Go, Claiming, Catching
<1>20. ASSUME Insert PROVE RemovalInv'
  BY <1>20, <1>b, <1>d DEF Insert, Claiming, Catching
<1>21. ASSUME GiveUp PROVE RemovalInv'
  BY <1>21, <1>b, <1>d DEF GiveUp, Disturb, Claiming, Catching
<1>22. ASSUME Normalize PROVE RemovalInv'
  BY <1>22, <1>b, <1>d DEF Normalize, Claiming, Catching
<1>23. ASSUME DropStaging PROVE RemovalInv'
  BY <1>23, <1>b, <1>d DEF DropStaging, Go, AfterStaging, Claiming, Catching
<1>24. ASSUME DropMarker PROVE RemovalInv'
  BY <1>24, <1>b, <1>d DEF DropMarker, Go, Claiming, Catching
<1>25. ASSUME DropAnchor PROVE RemovalInv'
  BY <1>25, <1>b, <1>d DEF DropAnchor, Go, Claiming, Catching
<1>26. ASSUME Reject PROVE RemovalInv'
  BY <1>26, <1>b, <1>d DEF Reject, Go, Claiming, Catching
<1>27. ASSUME WriteReceipt PROVE RemovalInv'
  BY <1>27, <1>b, <1>d DEF WriteReceipt, Claiming, Catching
<1>28. ASSUME RemoveRead PROVE RemovalInv'
  <2>0. PICK L \in Kinds : L = lane
    BY <1>28 DEF RemoveRead, TypeInv, RunPart
  <2>1. /\ cleanup' = cleanup /\ job' = job /\ anchor' = anchor /\ content' = content
        /\ Seen(L)' = Seen(L)
    <3>1. UNCHANGED names => /\ anchor' = anchor /\ content' = content /\ Seen(L)' = Seen(L)
      BY DEF Seen
    <3> QED
      BY <1>28, <2>0, <3>1, <1>a, RecoverEffect DEF RemoveRead, RemoveEnds
  <2>2. CASE pc' = "scan"
    BY <2>1, <2>2, <1>b
  <2>3. CASE /\ Readable(L) /\ (Gone(L) \/ Removable(L))
             /\ pc' = IF Gone(L) THEN "rmMarker"
                      ELSE IF bundle[L] # NoBundle THEN "rmMove" ELSE "rmEntry"
             /\ run' = [run EXCEPT !.res = Seen(L), !.tok = TokenOf(L)]
    <3>1. run'.tok = TokenOf(L) /\ lane' = L
      BY <2>0, <2>3, <1>a DEF Runs, lane
    <3>2. TokenOf(L)' = TokenOf(L)
      BY <2>1 DEF TokenOf
    <3>3. ~Gone(L) => anchor[L] # NoFile
      BY <2>3 DEF Removable, Committed
    <3>4. RemovalIsCovered'
      BY <2>1 DEF RemovalInv, RemovalIsCovered
    <3>5. Gone(L) => cleanup[L] = NoBundle
      BY DEF Gone
    <3> DEFINE next == IF Gone(L) THEN "rmMarker"
                       ELSE IF bundle[L] # NoBundle THEN "rmMove" ELSE "rmEntry"
    <3>6. TokenOf(lane)' = TokenOf(L) /\ anchor'[lane'] = anchor[L] /\ cleanup'[lane'] = cleanup[L]
      BY <2>1, <3>1, <3>2 DEF TokenOf, Seen
    <3>7. pc' \in {"rmMove", "rmCheck", "rmEntry"} => ~Gone(L)
      BY <2>3
    <3>8. pc' \in {"rmMarker", "rmAnchor"} => Gone(L)
      BY <2>3
    <3> QED
      BY <3>1, <3>3, <3>4, <3>5, <3>6, <3>7, <3>8 DEF RemovalInv
  <2> QED
    BY <1>28, <2>0, <2>2, <2>3 DEF RemoveRead, RemoveEnds
<1>29. ASSUME RemoveMove PROVE RemovalInv'
  <2>0. PICK L \in Kinds : L = lane
    BY <1>29 DEF RemoveMove, TypeInv, RunPart
  <2>1. CASE pc' = "scan"
    BY <1>29, <2>1, <1>b DEF RemoveMove, RemoveEnds, Go
  <2>2. CASE pc' = "rmCheck" /\ run' = run
    <3>1. \A k \in Kinds \ {L} : cleanup'[k] = cleanup[k]
      BY <1>29, <2>0, <1>a DEF RemoveMove, RestPart
    <3>2. job' = job /\ UNCHANGED names
      BY <1>29 DEF RemoveMove, RemoveEnds
    <3>3. job = L /\ anchor[L] # NoFile /\ run.tok = TokenOf(L)
      BY <1>29, <2>0 DEF RemoveMove, RemovalInv, TypeInv, ToldPart, Removing
    <3>4. RemovalIsCovered'
      BY <3>1, <3>2, <3>3 DEF RemovalInv, RemovalIsCovered
    <3>5. TokenOf(lane)' = TokenOf(L) /\ anchor'[lane'] = anchor[L] /\ run'.tok = run.tok
      BY <2>0, <2>2, <3>2 DEF TokenOf, Seen, lane
    <3> QED
      BY <2>2, <3>3, <3>4, <3>5 DEF RemovalInv
  <2> QED
    BY <1>29, <2>1, <2>2 DEF RemoveMove, RemoveEnds, Go
<1>30. ASSUME RemoveCheck PROVE RemovalInv'
  <2>0. PICK L \in Kinds : L = lane
    BY <1>30 DEF RemoveCheck, TypeInv, RunPart
  <2>1. CASE pc' = "scan"
    BY <1>30, <2>1, <1>b DEF RemoveCheck, RemoveEnds, Go
  <2>2. CASE pc' = "rmEntry" /\ run' = run
    <3>1. cleanup' = cleanup /\ job' = job /\ UNCHANGED names
      BY <1>30 DEF RemoveCheck, RemoveEnds
    <3>2. anchor[L] # NoFile /\ run.tok = TokenOf(L)
      BY <1>30, <2>0 DEF RemoveCheck, RemovalInv
    <3>3. RemovalIsCovered'
      BY <3>1 DEF RemovalInv, RemovalIsCovered
    <3>4. TokenOf(lane)' = TokenOf(L) /\ anchor'[lane'] = anchor[L] /\ run'.tok = run.tok
      BY <2>0, <2>2, <3>1 DEF TokenOf, Seen, lane
    <3> QED
      BY <2>2, <3>2, <3>3, <3>4 DEF RemovalInv
  <2> QED
    BY <1>30, <2>1, <2>2 DEF RemoveCheck, RemoveEnds, Go
<1>31. ASSUME RemoveEntry PROVE RemovalInv'
  <2>0. PICK L \in Kinds : L = lane
    BY <1>31 DEF RemoveEntry, TypeInv, RunPart
  <2>1. CASE pc' = "scan"
    BY <1>31, <2>1, <1>b DEF RemoveEntry, RemoveEnds, Go
  <2>2. CASE pc' = "rmEntry" /\ run' = run
    <3>1. cleanup' = cleanup /\ job' = job /\ UNCHANGED names
      BY <1>31 DEF RemoveEntry, RemoveEnds
    <3>2. anchor[L] # NoFile /\ run.tok = TokenOf(L)
      BY <1>31, <2>0 DEF RemoveEntry, RemovalInv
    <3>3. RemovalIsCovered'
      BY <3>1 DEF RemovalInv, RemovalIsCovered
    <3>4. TokenOf(lane)' = TokenOf(L) /\ anchor'[lane'] = anchor[L] /\ run'.tok = run.tok
      BY <2>0, <2>2, <3>1 DEF TokenOf, Seen, lane
    <3> QED
      BY <2>2, <3>2, <3>3, <3>4 DEF RemovalInv
  <2> QED
    BY <1>31, <2>1, <2>2 DEF RemoveEntry, RemoveEnds, Go
<1>32. ASSUME RemoveDirectory PROVE RemovalInv'
  <2>0. PICK L \in Kinds : L = lane
    BY <1>32 DEF RemoveDirectory, TypeInv, RunPart
  <2>1. cleanup'[L] = NoBundle /\ \A k \in Kinds \ {L} : cleanup'[k] = cleanup[k]
    BY <1>32, <2>0, <1>a DEF RemoveDirectory, RestPart
  <2>2. /\ job' = job /\ anchor' = anchor /\ lane' = L
        /\ pc' = "rmMarker"
    BY <1>32, <2>0 DEF RemoveDirectory, Go, lane
  <2> QED
    BY <2>1, <2>2 DEF RemovalInv, RemovalIsCovered
<1>33. ASSUME RemoveMarker PROVE RemovalInv'
  <2>0. PICK L \in Kinds : L = lane
    BY <1>33 DEF RemoveMarker, TypeInv, RunPart
  <2>1. CASE pc' = "scan"
    BY <1>33, <2>1, <1>b DEF RemoveMarker, RemoveEnds, Go
  <2>2. CASE pc' = "rmAnchor" /\ run' = run
    <3>1. cleanup' = cleanup /\ job' = job /\ anchor' = anchor
      BY <1>33 DEF RemoveMarker, RemoveEnds
    <3>2. cleanup'[lane'] = NoBundle
      BY <1>33, <2>2, <3>1 DEF RemoveMarker, RemovalInv, lane
    <3> QED
      BY <2>2, <3>1, <3>2 DEF RemovalInv, RemovalIsCovered
  <2> QED
    BY <1>33, <2>1, <2>2 DEF RemoveMarker, RemoveEnds, Go
<1>34. ASSUME RemoveAnchor PROVE RemovalInv'
  <2>0. PICK L \in Kinds : L = lane
    BY <1>34 DEF RemoveAnchor, TypeInv, RunPart
  <2>1. \A k \in Kinds \ {L} : anchor'[k] = anchor[k]
    BY <1>34, <2>0, <1>a DEF RemoveAnchor, NamesPart
  <2>2. cleanup[L] = NoBundle
    BY <1>34, <2>0 DEF RemoveAnchor, RemovalInv
  <2>3. cleanup' = cleanup /\ job' = job /\ pc' = "scan"
    BY <1>34 DEF RemoveAnchor, RemoveEnds
  <2> QED
    BY <2>1, <2>2, <2>3 DEF RemovalInv, RemovalIsCovered
<1>35. ASSUME CompleteJob PROVE RemovalInv'
  BY <1>35, <1>b, <1>d DEF CompleteJob, Claiming, Catching
<1>36. ASSUME WriteFails PROVE RemovalInv'
  BY <1>36, <1>b, <1>d DEF WriteFails, Disturb, Claiming, Catching
<1>37. ASSUME PublicationFails PROVE RemovalInv'
  BY <1>37, <1>b, <1>d DEF PublicationFails, Disturb, Recover, Fail, Claiming, Catching
<1>38. ASSUME CallFails PROVE RemovalInv'
  BY <1>38, <1>b, <1>d DEF CallFails, Disturb, Fail, ClaimCalls, Claiming, Catching
<1>39. ASSUME ReadFails PROVE RemovalInv'
  BY <1>39, <1>b, <1>d DEF ReadFails, RecoverFails, Disturb, Fail, Claiming, Catching
<1>40. ASSUME DropStagingFails PROVE RemovalInv'
  BY <1>40, <1>b, <1>d DEF DropStagingFails, Disturb, Claiming, Catching
<1>41. ASSUME DropFails PROVE RemovalInv'
  BY <1>41, <1>b, <1>d DEF DropFails, RecoverFails, Disturb, Go, Claiming, Catching
<1>42. ASSUME TellFails PROVE RemovalInv'
  BY <1>42, <1>b, <1>d DEF TellFails, Disturb, Claiming, Catching
<1>43. ASSUME RemoveFails PROVE RemovalInv'
  BY <1>43, <1>b, <1>d DEF RemoveFails, RecoverFails, Disturb, RemoveEnds, Claiming, Catching
<1>44. ASSUME Crash PROVE RemovalInv'
  BY <1>44, <1>b, <1>d DEF Crash, Disturb, Claiming, Catching
<1>45. ASSUME NEW k \in Kinds, Deliver(k) PROVE RemovalInv'
  BY <1>45, <1>c DEF Deliver
<1>46. ASSUME NEW k \in Kinds, Change(k) PROVE RemovalInv'
  <2>1. \A x \in Kinds : cleanup'[x] # NoBundle => cleanup[x] # NoBundle
    BY <1>46, <1>a DEF Change, RestPart
  <2>2. UNCHANGED <<job, names, pc, run>>
    BY <1>46 DEF Change
  <2>3. RemovalIsCovered'
    BY <2>1, <2>2 DEF RemovalInv, RemovalIsCovered
  <2>4. pc \in {"rmMarker", "rmAnchor"} => lane \in Kinds
    BY DEF TypeInv, RunPart
  <2> QED
    BY <2>1, <2>2, <2>3, <2>4 DEF RemovalInv, lane, TokenOf, Seen
<1>47. ASSUME NEW k \in Kinds, Withdraw(k) PROVE RemovalInv'
  BY <1>47, <1>c DEF Withdraw
<1> QED
  BY <1>1, <1>2, <1>3, <1>4, <1>5, <1>6, <1>7, <1>8, <1>9, <1>10, <1>11, <1>12, <1>13,
     <1>14, <1>15, <1>16, <1>17, <1>18, <1>19, <1>20, <1>21, <1>22, <1>23, <1>24, <1>25, <1>26,
     <1>27, <1>28, <1>29, <1>30, <1>31, <1>32, <1>33, <1>34, <1>35, <1>36, <1>37, <1>38, <1>39,
     <1>40, <1>41, <1>42, <1>43, <1>44, <1>45, <1>46, <1>47
  DEF Next, ScanStep, ClaimStep, RemoveStep, FaultStep, OutsideStep

BackedInv == OwnerInv /\ HeldInv /\ StagedInv /\ RemovalInv

LEMMA BackedSteps == SafeInv /\ SafeInv' /\ BackedInv /\ [Next]_vars => BackedInv'
<1> SUFFICES ASSUME SafeInv, SafeInv', BackedInv, [Next]_vars PROVE BackedInv'
  OBVIOUS
<1> USE DEF SafeInv, BackedInv
<1>1. CASE Next
  BY <1>1, EffectSteps, OwnerSteps, HeldSteps, StagedSteps, RemovalSteps
<1>2. CASE UNCHANGED vars
  <2> USE <1>2 DEF vars, disk, names, told, bounds
  <2>1. OwnerInv'
    BY DEF OwnerInv, Seen
  <2>2. HeldInv' /\ StagedInv'
    BY DEF HeldInv, StagedInv, lane
  <2>3. RemovalInv'
    BY DEF RemovalInv, RemovalIsCovered, TokenOf, Seen, lane
  <2> QED
    BY <2>1, <2>2, <2>3
<1> QED
  BY <1>1, <1>2

LEMMA Backed == Spec => []BackedInv
<1>1. Init => BackedInv
  <2> SUFFICES ASSUME Init PROVE BackedInv
    OBVIOUS
  <2>1. \A k \in Kinds : Seen(k) = NoFile /\ cleanup[k] = NoBundle
    BY DEF Init, Seen
  <2>2. pc = "idle"
    BY DEF Init
  <2> QED
    BY <2>1, <2>2 DEF BackedInv, OwnerInv, HeldInv, StagedInv, RemovalInv, RemovalIsCovered, Held
<1> QED
  BY <1>1, Safe, BackedSteps, PTL DEF Spec

\* A claim that reaches the runner is committed for the bundle that was read,
\* and that bundle's sound contents are staged: for any number of bundles, files
\* and disturbances.
THEOREM ClaimsAreBacked == Spec => []ClaimIsBacked
<1>1. SafeInv /\ BackedInv => ClaimIsBacked
  <2> SUFFICES ASSUME SafeInv, BackedInv, pc = "claimed"
               PROVE  /\ marker[lane] # NoFile /\ anchor[lane] = marker[lane]
                      /\ quarantine[lane] = NoFile
                      /\ content[marker[lane]] = [kind |-> lane, token |-> run.tok]
                      /\ staged = run.tok.data /\ staged \notin Unsound
    BY DEF ClaimIsBacked
  <2> USE DEF SafeInv, BackedInv
  <2>1. /\ marker[lane] = run.res /\ anchor[lane] = run.res /\ run.res \in Files
        /\ quarantine[lane] = NoFile
    BY DEF PlaceInv
  <2>2. content[run.res] = [kind |-> lane, token |-> run.tok]
    BY DEF HeldInv, Held
  <2>3. staged = run.tok.data /\ run.tok.data \notin Unsound
    BY DEF StagedInv, Held, SoundToken, Claiming
  <2> QED
    BY <2>1, <2>2, <2>3, QueueAssumption
<1> QED
  BY <1>1, Safe, Backed, PTL

\* However a removal is interrupted and taken up again, the originals that were
\* moved away have their reservation until the last of them is gone.
THEOREM RemovalsAreCovered == Spec => []RemovalIsCovered
<1>1. BackedInv => RemovalIsCovered
  BY DEF BackedInv, RemovalInv
<1> QED
  BY <1>1, Backed, PTL

\* Entries are removed by two steps only.
LEMMA EntriesRemoved ==
  ASSUME TypeInv, Next, NEW k \in Kinds, left'[k] < left[k], cleanup'[k] # NoBundle
  PROVE  pc = "rmEntry" /\ k = lane /\ cleanup[lane] = run.tok
<1>1. left' # left /\ left[k] \in 0..Entries
  BY DEF TypeInv, RestPart
<1> USE QueueAssumption DEF disk, told, bounds
<1>2. CASE RemoveEntry
  <2>1. cleanup[lane] = run.tok /\ pc = "rmEntry" /\ left' = [left EXCEPT ![lane] = @ - 1]
    BY <1>1, <1>2 DEF RemoveEntry
  <2>2. k = lane
    BY <1>1, <2>1 DEF TypeInv, RestPart
  <2> QED
    BY <2>1, <2>2
<1>3. CASE RemoveFails
  BY <1>1, <1>3 DEF RemoveFails, TypeInv, RestPart
<1>4. ~RemoveMove
  <2> SUFFICES ASSUME RemoveMove PROVE FALSE
    OBVIOUS
  <2>1. left' = [left EXCEPT ![lane] = Entries]
    BY <1>1 DEF RemoveMove
  <2>2. left'[k] \in {left[k], Entries}
    BY <2>1 DEF TypeInv, RestPart
  <2> QED
    BY <1>1, <2>2
<1>5. ~ScanStep
  BY <1>1 DEF ScanStep, Poll, ScanNothing, ScanCollision, ScanObserves, ScanReady
<1>6. ~ClaimStep
  <2>1. ~(\/ Begin \/ ReadExisting \/ Stage \/ Copy \/ Acquire \/ Create \/ Write \/ Publish)
    BY <1>1 DEF Begin, ReadExisting, Stage, Copy, Acquire, Create, Write, Publish
  <2>2. ~(\/ Settle \/ Commit \/ Detach \/ Relink \/ Tidy \/ Confirm \/ Insert \/ GiveUp)
    BY <1>1 DEF Settle, Commit, Detach, Relink, Tidy, Confirm, Insert, GiveUp
  <2>3. ~(\/ Normalize \/ DropStaging \/ DropMarker \/ DropAnchor \/ Reject \/ WriteReceipt)
    BY <1>1 DEF Normalize, DropStaging, DropMarker, DropAnchor, Reject, WriteReceipt
  <2> QED
    BY <2>1, <2>2, <2>3 DEF ClaimStep
<1>7. ~(\/ RemoveRead \/ RemoveCheck \/ RemoveDirectory \/ RemoveMarker \/ RemoveAnchor)
  BY <1>1 DEF RemoveRead, RemoveCheck, RemoveDirectory, RemoveMarker, RemoveAnchor
<1>8. ~(\/ WriteFails \/ PublicationFails \/ CallFails \/ ReadFails \/ DropStagingFails
        \/ DropFails \/ TellFails)
  BY <1>1 DEF WriteFails, PublicationFails, CallFails, ReadFails, DropStagingFails, DropFails, TellFails
<1>9. ~OutsideStep /\ ~CompleteJob
  BY <1>1 DEF OutsideStep, Crash, Deliver, Change, Withdraw, CompleteJob
<1> QED
  BY <1>2, <1>3, <1>4, <1>5, <1>6, <1>7, <1>8, <1>9 DEF Next, RemoveStep, FaultStep

\* What removeCompleted deletes is what the reservation was made for, and its job
\* is complete: for any number of changes under its feet.
THEOREM DeletionsAreOwed == Spec => OnlyTheClaimedIsDeleted
<1>1. SafeInv /\ BackedInv /\ [Next]_vars =>
        [\A k \in Kinds :
           left'[k] < left[k] /\ cleanup'[k] # NoBundle =>
             /\ receipt = "completed" /\ job = k
             /\ cleanup[k] = TokenOf(k)]_vars
  <2> SUFFICES ASSUME SafeInv, BackedInv, Next,
                      NEW k \in Kinds, left'[k] < left[k], cleanup'[k] # NoBundle
               PROVE  receipt = "completed" /\ job = k /\ cleanup[k] = TokenOf(k)
    OBVIOUS
  <2> USE DEF SafeInv, BackedInv
  <2>1. pc = "rmEntry" /\ k = lane /\ cleanup[lane] = run.tok
    BY EntriesRemoved
  <2>2. receipt = "completed" /\ job = k
    BY <2>1 DEF ControlInv, TypeInv, ToldPart, Removing
  <2>3. run.tok = TokenOf(k)
    BY <2>1 DEF RemovalInv
  <2> QED
    BY <2>1, <2>2, <2>3
<1> QED
  BY <1>1, Safe, Backed, PTL DEF Spec, OnlyTheClaimedIsDeleted

-----------------------------------------------------------------------------
(* QueueClaim implements ClaimLease.                                       *)

\* The refinement mapping.
leases == [k \in Kinds |-> LeaseOf(k)]

\* Each effect is a step of ClaimLease or none.
LEMMA LeaseSteps ==
  ASSUME TypeInv, TypeInv', NamesInv, HeldInv, Effect
  PROVE  [Lease!Next]_leases
<1>1. PICK L \in Kinds :
        /\ \A k \in Kinds \ {L} : Seen(k)' = Seen(k) /\ anchor'[k] = anchor[k]
        /\ Kept(L) \/ Opened(L) \/ Filled(L) \/ Sealed(L) \/ Released(L)
  BY DEF Effect
<1>2. NamesPart /\ NamesPart' /\ \A k \in Kinds : Seen(k) \in Files \cup {NoFile}
  BY ReadsKeepType DEF TypeInv
<1>3. ASSUME NEW k \in Kinds \ {L} PROVE LeaseOf(k)' = LeaseOf(k)
  <2>1. Seen(k)' = Seen(k) /\ anchor'[k] = anchor[k] /\ k = Other(L)
    BY <1>1, TwoLanes
  <2>2. Seen(k) # NoFile => content'[Seen(k)] = content[Seen(k)]
    <3>1. CASE content' = content
      BY <3>1
    <3>2. CASE Opened(L)
      BY <1>2, <2>1, <3>2 DEF Opened, NamesPart
    <3>3. CASE Filled(L)
      BY <1>2, <2>1, <3>3, KindsApart DEF Filled, NamesPart, NamesInv
    <3> QED
      BY <1>1, <3>1, <3>2, <3>3 DEF Kept, Sealed, Released
  <2> QED
    BY <2>1, <2>2 DEF LeaseOf
<1>4. leases' = [leases EXCEPT ![L] = LeaseOf(L)']
  BY <1>3 DEF leases
<1>5. leases[L] = LeaseOf(L)
  BY DEF leases
<1>6. CASE Kept(L)
  <2>1. LeaseOf(L)' = LeaseOf(L)
    BY <1>6 DEF Kept, LeaseOf
  <2> QED
    BY <1>4, <1>5, <2>1 DEF leases
<1>7. CASE Opened(L)
  <2>1. LeaseOf(L).state = "free"
    BY <1>7 DEF Opened, LeaseOf
  <2>2. content'[Seen(L)'] = Blank /\ Seen(L)' # NoFile
    BY <1>2, <1>7, QueueAssumption DEF Opened, NamesPart
  <2>3. LeaseOf(L)' = [state |-> "torn", token |-> NoBundle]
    BY <2>2 DEF LeaseOf
  <2> QED
    BY <1>4, <1>5, <2>1, <2>3 DEF leases, Lease!Next, Lease!Open, Lease!At
<1>8. CASE Filled(L)
  <2>1. /\ run.res \in Files /\ run.tok \in Bundle /\ content[run.res] = Blank
        /\ Seen(L) = run.res /\ Seen(L)' = run.res
    BY <1>8 DEF Filled, TypeInv, RunPart, Claiming, HeldInv
  <2>2. LeaseOf(L).state = "torn"
    BY <2>1, QueueAssumption DEF LeaseOf
  <2>3. content'[run.res] = [kind |-> L, token |-> run.tok]
    BY <1>2, <1>8, <2>1 DEF Filled, NamesPart
  <2>4. content'[run.res] # Blank
    BY <2>1, <2>3, Values
  <2>5. LeaseOf(L)' = [state |-> "held", token |-> run.tok]
    BY <1>8, <2>1, <2>3, <2>4, QueueAssumption DEF LeaseOf, Filled
  <2> QED
    BY <1>4, <1>5, <2>1, <2>2, <2>5 DEF leases, Lease!Next, Lease!Fill, Lease!At
<1>9. CASE Sealed(L)
  <2>1. LeaseOf(L) = [state |-> "held", token |-> content[Seen(L)].token]
    BY <1>9, QueueAssumption DEF Sealed, LeaseOf
  <2>2. LeaseOf(L)' = [state |-> "committed", token |-> content[Seen(L)].token]
    BY <1>9, QueueAssumption DEF Sealed, LeaseOf
  <2>3. leases[L].state = "held" /\ leases[L].token = content[Seen(L)].token
    BY <1>5, <2>1
  <2>4. Lease!Commit(L)
    BY <1>4, <2>2, <2>3 DEF leases, Lease!Commit, Lease!At
  <2> QED
    BY <2>4 DEF Lease!Next
<1>10. CASE Released(L)
  <2>1. LeaseOf(L).state # "free"
    BY <1>10 DEF Released, LeaseOf
  <2>2. LeaseOf(L)' = [state |-> "free", token |-> NoBundle]
    BY <1>10 DEF Released, LeaseOf
  <2> QED
    BY <1>4, <1>5, <2>1, <2>2 DEF leases, Lease!Next, Lease!Release, Lease!At
<1> QED
  BY <1>1, <1>6, <1>7, <1>8, <1>9, <1>10

\* To whoever reads a reservation, the commit with its quarantine, the faults, the
\* crashes and the recoveries are the four steps of ClaimLease.
THEOREM CommitsAreAtomic == Spec => CommitIsAtomic
<1>1. Init => Lease!Init
  <2> SUFFICES ASSUME Init PROVE Lease!Init
    OBVIOUS
  <2>1. \A k \in Kinds : Seen(k) = NoFile
    BY DEF Init, Seen
  <2> QED
    BY <2>1 DEF Lease!Init, LeaseOf
<1>2. SafeInv /\ SafeInv' /\ BackedInv /\ [Next]_vars => [Lease!Next]_leases
  <2> SUFFICES ASSUME SafeInv, SafeInv', BackedInv, [Next]_vars PROVE [Lease!Next]_leases
    OBVIOUS
  <2>1. CASE Next
    BY <2>1, EffectSteps, LeaseSteps DEF SafeInv, BackedInv
  <2>2. CASE UNCHANGED vars
    BY <2>2 DEF vars, disk, names, leases, LeaseOf, Seen
  <2> QED
    BY <2>1, <2>2
<1>3. SafeInv /\ SafeInv' /\ BackedInv /\ [Next]_vars =>
        [Lease!Next]_[k \in Kinds |-> LeaseOf(k)]
  BY <1>2 DEF leases
<1> QED
  BY <1>1, <1>3, Safe, Backed, PTL DEF Spec, CommitIsAtomic, Lease!Spec
=============================================================================
