------------------------------ MODULE BenchProofs ------------------------------
(***************************************************************************)
(* What holds of Bench for every set of cases, sharing of cassette files,  *)
(* provider and concurrency: its types, the semaphore, the tallies and     *)
(* what a replay repeats.                                                  *)
(***************************************************************************)
EXTENDS Bench, ListTheorems

-------------------------------------------------------------------------------
(***************************************************************************)
(* Types                                                                   *)
(***************************************************************************)
Flying == {"send", "open", "fill", "record", "release"}
Grounded == {"idle", "new", "asleep", "woken", "notify", "done"}

AnyAnswer == Answers \cup {NoAnswer}

SuiteType == [phase : {"idle", "running"}, mode : {"disabled", "record", "replay"},
              cases : SUBSET Case, count : Nat]

WorkerType == [pc : Flying \cup Grounded, bucket : Bucket, answer : AnyAnswer]

TapeType == {NoTape, EmptyTape, TornTape} \cup [state : {"whole"}, hash : Case, answer : Answers]

\* Only the cases of a running suite have a thread, and a thread that writes
\* a cassette has an answer of the provider to write.
TypeInv ==
    /\ suite \in SuiteType
    /\ worker \in [Case -> WorkerType]
    /\ permits \in Nat
    /\ cassette \in [Path -> TapeType]
    /\ recorded \in [Case -> AnyAnswer]
    /\ \A c \in Case :
          /\ worker[c].pc = "idle" <=> c \notin suite.cases
          /\ worker[c].pc \in {"open", "fill"} => worker[c].answer \in Answers
    /\ ~Running => suite.cases = {}

LEMMA IdleType == Idle \in WorkerType /\ Idle.pc = "idle"
  BY DEF Idle, WorkerType, Grounded, Bucket, AnyAnswer

LEMMA NewType ==
    ASSUME NEW pc \in Flying \cup Grounded
    PROVE  [Idle EXCEPT !.pc = pc] \in WorkerType /\ [Idle EXCEPT !.pc = pc].pc = pc
  BY DEF Idle, WorkerType, Bucket, AnyAnswer

LEMMA BucketType == \A a \in AnyAnswer : EvaluateResponse(a) \in Bucket
  <1>1. \A a : EvaluateParsed(a) \in Bucket
    BY DEF EvaluateParsed, Bucket
  <1> QED
    BY <1>1 DEF EvaluateResponse, Bucket

\* A step that changes the thread of one case, or of two.
LEMMA WorkerTypes ==
    ASSUME TypeInv, NEW c \in Case, NEW d \in Case, NEW v \in WorkerType, NEW w \in WorkerType,
           worker' = [worker EXCEPT ![c] = v, ![d] = w],
           "idle" \notin {worker[c].pc, worker[d].pc, v.pc, w.pc},
           v.pc \in {"open", "fill"} => v.answer \in Answers,
           w.pc \in {"open", "fill"} => w.answer \in Answers,
           suite' = suite, permits' \in Nat, cassette' \in [Path -> TapeType],
           recorded' \in [Case -> AnyAnswer]
    PROVE  TypeInv'
  BY DEF TypeInv, Running

LEMMA GotoTypes ==
    ASSUME TypeInv, NEW c \in Case, NEW pc \in Flying \cup Grounded, Goto(c, pc),
           "idle" \notin {worker[c].pc, pc},
           pc \in {"open", "fill"} => worker[c].pc \in {"open", "fill"},
           suite' = suite, permits' \in Nat, cassette' \in [Path -> TapeType],
           recorded' \in [Case -> AnyAnswer]
    PROVE  TypeInv'
  <1> DEFINE w == [worker[c] EXCEPT !.pc = pc]
  <1>1. worker[c] \in WorkerType
    BY DEF TypeInv
  <1>2. w \in WorkerType /\ w.pc = pc /\ w.answer = worker[c].answer
    BY <1>1 DEF WorkerType
  <1>3. worker' = [worker EXCEPT ![c] = w, ![c] = w]
    BY DEF Goto, TypeInv
  <1>4. pc \in {"open", "fill"} => w.answer \in Answers
    BY <1>2 DEF TypeInv
  <1> HIDE DEF w
  <1> QED
    BY <1>2, <1>3, <1>4, WorkerTypes

\* What the provider or a cassette has answered.
LEMMA AnsweredTypes ==
    ASSUME TypeInv, NEW c \in Case, NEW a \in AnyAnswer, NEW pc \in Flying,
           Answered(c, a, pc), worker[c].pc # "idle",
           pc \in {"open", "fill"} => a \in Answers,
           UNCHANGED <<suite, permits, cassette, recorded>>
    PROVE  TypeInv'
  <1> DEFINE w == [pc |-> pc, bucket |-> EvaluateResponse(a), answer |-> a]
  <1>1. w \in WorkerType /\ w.pc = pc /\ w.answer = a
    BY BucketType DEF WorkerType
  <1>2. worker' = [worker EXCEPT ![c] = w, ![c] = w]
    BY DEF Answered, TypeInv
  <1>3. pc # "idle"
    BY DEF Flying
  <1>4. permits' \in Nat /\ cassette' \in [Path -> TapeType] /\ recorded' \in [Case -> AnyAnswer]
    BY DEF TypeInv
  <1> HIDE DEF w
  <1> QED
    BY <1>1, <1>2, <1>3, <1>4, WorkerTypes

\* An error counts as the answer that nothing can be made of.
LEMMA UnansweredIsAnswered ==
    ASSUME NEW c, Unanswered(c)
    PROVE  Answered(c, NoAnswer, "record")
  <1>1. EvaluateResponse(NoAnswer) = "error"
    BY DEF EvaluateResponse, NoAnswer
  <1> QED
    BY <1>1 DEF Unanswered, Answered

LEMMA TearTypes ==
    ASSUME TypeInv, NEW paths, Tear(paths)
    PROVE  cassette' \in [Path -> TapeType] /\ recorded' \in [Case -> AnyAnswer]
  BY DEF TypeInv, Tear, TapeType, AnyAnswer

\* A thread leaves its own text in the file, whole, or nobody's.
LEMMA Filled ==
    ASSUME NEW c \in Case, FillCassette(c), recorded \in [Case -> AnyAnswer]
    PROVE  \/ /\ cassette' = [cassette EXCEPT ![PathOf[c]] = Tape(c, worker[c].answer)]
              /\ recorded' = [d \in Case |-> IF d = c THEN worker[c].answer ELSE
                                             IF PathOf[d] = PathOf[c] THEN NoAnswer ELSE recorded[d]]
           \/ /\ cassette' = [cassette EXCEPT ![PathOf[c]] = TornTape]
              /\ recorded' = [d \in Case |->
                                 IF PathOf[d] = PathOf[c] THEN NoAnswer ELSE recorded[d]]
  <1> DEFINE u == Unrecorded(PathOf[c])
             left == \/ /\ cassette' = [cassette EXCEPT ![PathOf[c]] = Tape(c, worker[c].answer)]
                        /\ recorded' = [u EXCEPT ![c] = worker[c].answer]
                     \/ /\ cassette' = [cassette EXCEPT ![PathOf[c]] = TornTape]
                        /\ recorded' = u
  <1>1. left
    BY Zenon DEF FillCassette
  <1>2. u = [d \in Case |-> IF PathOf[d] = PathOf[c] THEN NoAnswer ELSE recorded[d]]
    BY DEF Unrecorded
  <1> HIDE DEF u
  <1>3. [u EXCEPT ![c] = worker[c].answer]
          = [d \in Case |-> IF d = c THEN worker[c].answer ELSE
                            IF PathOf[d] = PathOf[c] THEN NoAnswer ELSE recorded[d]]
    BY <1>2
  <1> QED
    BY <1>1, <1>2, <1>3

LEMMA InitTypes == Init => TypeInv
  <1> SUFFICES ASSUME Init PROVE TypeInv
    OBVIOUS
  <1>1. suite \in SuiteType /\ suite.cases = {}
    BY DEF Init, SuiteType
  <1>2. worker \in [Case -> WorkerType] /\ \A c \in Case : worker[c].pc = "idle"
    BY IdleType DEF Init
  <1>3. /\ permits \in Nat /\ cassette \in [Path -> TapeType]
        /\ recorded \in [Case -> AnyAnswer]
    BY BenchAssumption DEF Init, TapeType, AnyAnswer
  <1> QED
    BY <1>1, <1>2, <1>3 DEF TypeInv

LEMMA WorkTypes ==
    ASSUME TypeInv, NEW c \in Case, Work(c) \/ WakeSpuriously(c)
    PROVE  TypeInv'
  <1>0. /\ permits \in Nat /\ cassette \in [Path -> TapeType]
        /\ recorded \in [Case -> AnyAnswer] /\ worker \in [Case -> WorkerType]
        /\ worker[c] \in WorkerType /\ worker[c].answer \in AnyAnswer
        /\ NoAnswer \in AnyAnswer /\ PathOf[c] \in Path
    BY DEF TypeInv, WorkerType, AnyAnswer, Path
  <1>1. CASE Acquire(c)
    <2>1. \/ Goto(c, "asleep") /\ permits' = permits
          \/ Goto(c, "send") /\ permits # 0 /\ permits' = permits - 1
      BY <1>1 DEF Acquire
    <2>2. worker[c].pc \in {"new", "woken"} /\ UNCHANGED <<suite, cassette, recorded>>
      BY <1>1 DEF Acquire, At
    <2>3. permits' \in Nat
      BY <1>0, <2>1
    <2> QED
      BY <1>0, <2>1, <2>2, <2>3, GotoTypes DEF Flying, Grounded
  <1>2. CASE Release(c)
    BY <1>0, <1>2, GotoTypes DEF Release, At, Grounded
  <1>3. CASE Notify(c)
    <2>1. CASE Asleep = {}
      BY <1>0, <1>3, <2>1, GotoTypes DEF Notify, At, Grounded
    <2>2. CASE Asleep # {}
      <3>1. PICK d \in Asleep : worker' = [worker EXCEPT ![c].pc = "done", ![d].pc = "woken"]
        BY <1>3, <2>2 DEF Notify
      <3>2. d \in Case /\ worker[d].pc = "asleep" /\ worker[c].pc = "notify" /\ d # c
        BY <1>3 DEF Asleep, Notify, At
      <3> DEFINE v == [worker[c] EXCEPT !.pc = "done"]
                 w == [worker[d] EXCEPT !.pc = "woken"]
      <3>3. worker' = [worker EXCEPT ![c] = v, ![d] = w]
        BY <1>0, <3>1, <3>2
      <3>4. v \in WorkerType /\ w \in WorkerType /\ v.pc = "done" /\ w.pc = "woken"
        BY <1>0, <3>2 DEF WorkerType, Grounded
      <3>5. UNCHANGED <<suite, permits, cassette, recorded>>
        BY <1>3 DEF Notify
      <3> HIDE DEF v, w
      <3> QED
        BY <1>0, <3>2, <3>3, <3>4, <3>5, WorkerTypes
    <2> QED
      BY <2>1, <2>2
  <1>4. CASE Send(c)
    <2>1. PICK a \in Answers, pc \in {"open", "record"} : Answered(c, a, pc)
      BY <1>4 DEF Send
    <2> QED
      BY <1>4, <2>1, AnsweredTypes DEF Send, At, AnyAnswer, Flying
  <1>5. CASE SendFails(c)
    BY <1>0, <1>5, UnansweredIsAnswered, AnsweredTypes DEF SendFails, At, Flying
  <1>6. CASE Replay(c)
    <2>1. \E a \in AnyAnswer : Answered(c, a, "record")
      <3>1. ReadCassette(c, cassette[PathOf[c]]) => cassette[PathOf[c]].answer \in AnyAnswer
        BY <1>0 DEF ReadCassette, TapeType, NoTape, EmptyTape, TornTape, AnyAnswer
      <3> QED
        BY <1>0, <1>6, <3>1, UnansweredIsAnswered DEF Replay
    <2> QED
      BY <1>6, <2>1, AnsweredTypes DEF Replay, At, Flying
  <1>7. CASE OpenCassette(c)
    <2>1. cassette' \in [Path -> TapeType] /\ recorded' \in [Case -> AnyAnswer]
      BY <1>0, <1>7 DEF OpenCassette, Unrecorded, TapeType
    <2> QED
      BY <1>0, <1>7, <2>1, GotoTypes DEF OpenCassette, At, Flying
  <1>8. CASE FillCassette(c)
    <2>1. worker[c].answer \in Answers
      BY <1>8 DEF FillCassette, At, TypeInv
    <2>2. Tape(c, worker[c].answer) \in TapeType
      BY <2>1 DEF Tape, TapeType
    <2>3. cassette' \in [Path -> TapeType] /\ recorded' \in [Case -> AnyAnswer]
      BY <1>0, <1>8, <2>1, <2>2, Filled DEF TapeType, AnyAnswer
    <2> QED
      BY <1>0, <1>8, <2>3, GotoTypes DEF FillCassette, At, Flying
  <1>9. CASE CassetteFails(c)
    <2>1. cassette' \in [Path -> TapeType] /\ recorded' \in [Case -> AnyAnswer]
      BY <1>9, TearTypes DEF CassetteFails
    <2> QED
      BY <1>0, <1>9, <2>1, GotoTypes DEF CassetteFails, At, Flying
  <1>10. CASE Record(c)
    <2> DEFINE w == [Idle EXCEPT !.pc = "release"]
    <2>1. w \in WorkerType /\ w.pc = "release"
      BY NewType DEF Flying
    <2>2. /\ worker' = [worker EXCEPT ![c] = w, ![c] = w]
          /\ UNCHANGED <<suite, permits, cassette, recorded>> /\ worker[c].pc = "record"
      BY <1>0, <1>10 DEF Record, At
    <2> HIDE DEF w
    <2> QED
      BY <1>0, <2>1, <2>2, WorkerTypes
  <1>11. CASE WakeSpuriously(c)
    BY <1>0, <1>11, GotoTypes DEF WakeSpuriously, At, Grounded
  <1> QED
    BY <1>1, <1>2, <1>3, <1>4, <1>5, <1>6, <1>7, <1>8, <1>9, <1>10, <1>11 DEF Work

LEMMA NextTypes == TypeInv /\ [Next]_vars => TypeInv'
  <1> SUFFICES ASSUME TypeInv, [Next]_vars PROVE TypeInv'
    OBVIOUS
  <1>1. ASSUME NEW mode \in {"disabled", "record", "replay"}, NEW cases \in Suites,
               Start(mode, cases)
        PROVE  TypeInv'
    <2>1. suite' \in SuiteType /\ suite'.cases = cases /\ suite'.phase = "running"
      BY <1>1, BenchAssumption DEF Start, SuiteType, TypeInv
    <2>2. /\ worker' \in [Case -> WorkerType]
          /\ \A c \in Case : worker'[c].pc = IF c \in cases THEN "new" ELSE "idle"
      BY <1>1, IdleType, NewType DEF Start, Grounded
    <2>3. permits' \in Nat /\ UNCHANGED <<cassette, recorded>>
      BY <1>1, BenchAssumption DEF Start
    <2> QED
      BY <2>1, <2>2, <2>3 DEF TypeInv, Running
  <1>2. ASSUME NEW mode, Refuse(mode)
        PROVE  TypeInv'
    BY <1>2 DEF Refuse, TypeInv, Running
  <1>3. CASE Report \/ Crash
    <2>1. suite' \in SuiteType /\ suite'.cases = {}
      BY <1>3 DEF Report, Crash, TypeInv, SuiteType
    <2>2. worker' \in [Case -> WorkerType] /\ \A c \in Case : worker'[c].pc = "idle"
      BY <1>3, IdleType DEF Report, Crash
    <2>3. permits' \in Nat
      BY <1>3, BenchAssumption DEF Report, Crash, TypeInv
    <2>4. cassette' \in [Path -> TapeType] /\ recorded' \in [Case -> AnyAnswer]
      BY <1>3, TearTypes DEF Report, Crash, TypeInv
    <2> QED
      BY <2>1, <2>2, <2>3, <2>4 DEF TypeInv
  <1>4. CASE UNCHANGED vars
    BY <1>4 DEF vars, TypeInv, Running
  <1> QED
    BY <1>1, <1>2, <1>3, <1>4, WorkTypes DEF Next, CassetteMode

LEMMA AlwaysTyped == Spec => []TypeInv
  BY InitTypes, NextTypes, PTL DEF Spec

-------------------------------------------------------------------------------
(***************************************************************************)
(* The semaphore                                                           *)
(***************************************************************************)
PermitInv == IsFiniteSet(InFlight) /\ permits + Cardinality(InFlight) = Concurrency

\* A thread that is sent off takes a permit, one that lands gives it back.
LEMMA TakeOff ==
    ASSUME TypeInv, PermitInv, NEW c \in Case, c \notin InFlight, permits' = permits - 1,
           InFlight' = InFlight \cup {c}
    PROVE  PermitInv'
  <1>1. /\ IsFiniteSet(InFlight \cup {c})
        /\ Cardinality(InFlight \cup {c}) = Cardinality(InFlight) + 1
    BY FS_AddElement DEF PermitInv
  <1>2. Cardinality(InFlight) \in Nat /\ permits \in Nat
    BY FS_CardinalityType DEF PermitInv, TypeInv
  <1> QED
    BY <1>1, <1>2 DEF PermitInv

LEMMA Land ==
    ASSUME TypeInv, PermitInv, NEW c \in Case, c \in InFlight, permits' = permits + 1,
           InFlight' = InFlight \ {c}
    PROVE  PermitInv'
  <1>1. /\ IsFiniteSet(InFlight \ {c})
        /\ Cardinality(InFlight \ {c}) = Cardinality(InFlight) - 1
    BY FS_RemoveElement DEF PermitInv
  <1>2. Cardinality(InFlight) \in Nat /\ permits \in Nat
    BY FS_CardinalityType DEF PermitInv, TypeInv
  <1> QED
    BY <1>1, <1>2 DEF PermitInv

\* Every other step leaves the flying threads and the permits alone.
LEMMA SameFlight ==
    ASSUME PermitInv, permits' = permits, InFlight' = InFlight
    PROVE  PermitInv'
  BY DEF PermitInv

LEMMA WorkPermits ==
    ASSUME TypeInv, TypeInv', PermitInv, NEW c \in Case, Work(c) \/ WakeSpuriously(c)
    PROVE  PermitInv'
  <1>0. /\ worker \in [Case -> WorkerType] /\ InFlight \subseteq Case
        /\ InFlight = {d \in Case : worker[d].pc \in Flying}
        /\ InFlight' = {d \in Case : worker'[d].pc \in Flying}
    BY DEF TypeInv, InFlight, WorkerType, Flying, Grounded
  <1>1. CASE Acquire(c)
    <2>1. worker[c].pc \notin Flying
      BY <1>1 DEF Acquire, At, Flying
    <2>2. CASE Goto(c, "asleep") /\ permits' = permits
      <3>1. \A d \in Case : worker'[d].pc \in Flying <=> worker[d].pc \in Flying
        BY <1>0, <2>1, <2>2 DEF Goto, WorkerType, Flying
      <3> QED
        BY <1>0, <2>2, <3>1, SameFlight
    <2>3. CASE Goto(c, "send") /\ permits' = permits - 1
      <3>1. \A d \in Case : worker'[d].pc \in Flying <=> d = c \/ worker[d].pc \in Flying
        BY <1>0, <2>3 DEF Goto, WorkerType, Flying
      <3>2. c \notin InFlight /\ InFlight' = InFlight \cup {c}
        BY <1>0, <2>1, <3>1
      <3> QED
        BY <2>3, <3>2, TakeOff
    <2> QED
      BY <1>1, <2>2, <2>3 DEF Acquire
  <1>2. CASE Release(c)
    <2>1. \A d \in Case : worker'[d].pc \in Flying <=> d # c /\ worker[d].pc \in Flying
      BY <1>0, <1>2 DEF Release, Goto, WorkerType, Flying
    <2>2. c \in InFlight /\ permits' = permits + 1
      BY <1>0, <1>2 DEF Release, At, Flying
    <2>3. InFlight' = InFlight \ {c}
      BY <1>0, <2>1
    <2> QED
      BY <2>2, <2>3, Land
  <1>3. CASE Notify(c) \/ WakeSpuriously(c)
    <2>1. \A d \in Case : worker'[d].pc \in Flying <=> worker[d].pc \in Flying
      BY <1>0, <1>3 DEF Notify, WakeSpuriously, At, Asleep, Goto, WorkerType, Flying
    <2>2. permits' = permits
      BY <1>3 DEF Notify, WakeSpuriously
    <2> QED
      BY <1>0, <2>1, <2>2, SameFlight
  <1>4. CASE \/ Send(c) \/ SendFails(c) \/ Replay(c) \/ OpenCassette(c) \/ FillCassette(c)
             \/ CassetteFails(c) \/ Record(c)
    <2>1. worker[c].pc \in Flying /\ permits' = permits
      BY <1>4
         DEF Send, SendFails, Replay, OpenCassette, FillCassette, CassetteFails, Record, At, Flying
    <2>2. worker'[c].pc \in Flying /\ \A d \in Case \ {c} : worker'[d] = worker[d]
      <3>1. \/ \E a, pc : Answered(c, a, pc) /\ pc \in Flying
            \/ \E pc \in Flying : Goto(c, pc)
            \/ worker' = [worker EXCEPT ![c] = [Idle EXCEPT !.pc = "release"]]
        BY <1>4, UnansweredIsAnswered
           DEF Send, SendFails, Replay, OpenCassette, FillCassette, CassetteFails, Record, Flying
      <3> QED
        BY <1>0, <3>1, NewType DEF Answered, Goto, WorkerType, Flying
    <2> QED
      BY <1>0, <2>1, <2>2, SameFlight
  <1> QED
    BY <1>1, <1>2, <1>3, <1>4 DEF Work

LEMMA PermitsCounted == Spec => []PermitInv
  <1>1. Init => PermitInv
    <2> SUFFICES ASSUME Init PROVE PermitInv
      OBVIOUS
    <2>1. InFlight = {}
      BY IdleType DEF Init, InFlight
    <2> QED
      BY <2>1, FS_EmptySet, BenchAssumption DEF Init, PermitInv
  <1>2. TypeInv /\ TypeInv' /\ PermitInv /\ [Next]_vars => PermitInv'
    <2> SUFFICES ASSUME TypeInv, TypeInv', PermitInv, [Next]_vars PROVE PermitInv'
      OBVIOUS
    <2>1. ASSUME NEW mode, NEW cases \in Suites, Start(mode, cases)
          PROVE  PermitInv'
      <3>1. \A c \in Case : worker'[c].pc \in {"new", "idle"}
        BY <2>1, IdleType, NewType DEF Start, Grounded
      <3>2. InFlight' = {}
        BY <3>1 DEF InFlight
      <3> QED
        BY <2>1, <3>2, FS_EmptySet, BenchAssumption DEF Start, PermitInv
    <2>2. ASSUME NEW mode, Refuse(mode)
          PROVE  PermitInv'
      BY <2>2, SameFlight DEF Refuse, InFlight
    <2>3. CASE Report \/ Crash
      <3>1. \A c \in Case : worker'[c].pc = "idle"
        BY <2>3, IdleType DEF Report, Crash
      <3>2. InFlight' = {}
        BY <3>1 DEF InFlight
      <3>3. permits' = Concurrency
        <4>1. CASE Crash
          BY <4>1 DEF Crash
        <4>2. CASE Report
          <5>1. \A c \in Case : worker[c].pc \in {"done", "idle"}
            BY <4>2 DEF Report, TypeInv
          <5>2. InFlight = {}
            BY <5>1 DEF InFlight
          <5> QED
            BY <4>2, <5>2, FS_EmptySet DEF Report, PermitInv, TypeInv
        <4> QED
          BY <2>3, <4>1, <4>2
      <3> QED
        BY <3>2, <3>3, FS_EmptySet, BenchAssumption DEF PermitInv
    <2>4. CASE UNCHANGED vars
      BY <2>4, SameFlight DEF vars, InFlight
    <2> QED
      BY <2>1, <2>2, <2>3, <2>4, WorkPermits DEF Next
  <1> QED
    BY <1>1, <1>2, AlwaysTyped, PTL DEF Spec

\* Permits and threads add up through every order of sleeping, waking and
\* overtaking, spurious wakes and kills of the suite, for every number of cases
\* and every concurrency: never more than `concurrency` requests are in flight,
\* and no permit is lost.
THEOREM PermitsAlwaysAddUp == Spec => []PermitsAddUp
  <1>1. TypeInv /\ PermitInv => PermitsAddUp
    BY FS_CardinalityType, BenchAssumption DEF TypeInv, PermitInv, PermitsAddUp
  <1> QED
    BY <1>1, AlwaysTyped, PermitsCounted, PTL

-------------------------------------------------------------------------------
(***************************************************************************)
(* Replays                                                                 *)
(***************************************************************************)
\* What the cassette of a case holds for its prompt.
Repeatable(c) ==
    IF ReadCassette(c, cassette[PathOf[c]]) THEN cassette[PathOf[c]].answer ELSE NoAnswer

\* No thread of a replay writes a cassette, so that what one has read stays there.
TapeInv ==
    /\ \A c \in Case : recorded[c] = Repeatable(c)
    /\ suite.mode = "replay" =>
          \A c \in Case :
             /\ worker[c].pc \notin {"open", "fill"}
             /\ worker[c].pc = "record" => worker[c].bucket = EvaluateResponse(recorded[c])

\* A step that touches neither the cassettes nor an answer.
LEMMA SameTapes ==
    ASSUME TapeInv, UNCHANGED <<suite, cassette, recorded>>,
           \A c \in Case : \/ worker'[c].pc \notin {"open", "fill", "record"}
                           \/ worker'[c] = worker[c]
    PROVE  TapeInv'
  BY DEF TapeInv, Repeatable, ReadCassette

\* Where a cassette is written nothing is replayed.
LEMMA OtherTapes ==
    ASSUME suite'.mode # "replay", \A c \in Case : recorded'[c] = Repeatable(c)'
    PROVE  TapeInv'
  BY DEF TapeInv

\* A torn file repeats nothing.
LEMMA TearTapes ==
    ASSUME TapeInv, NEW paths, Tear(paths)
    PROVE  \A c \in Case : recorded'[c] = Repeatable(c)'
  <1> SUFFICES ASSUME NEW c \in Case PROVE recorded'[c] = Repeatable(c)'
    OBVIOUS
  <1>1. PathOf[c] \in Path
    BY DEF Path
  <1>2. CASE PathOf[c] \in paths
    BY <1>1, <1>2 DEF Tear, Repeatable, ReadCassette, TornTape
  <1>3. CASE PathOf[c] \notin paths
    BY <1>1, <1>3 DEF Tear, Repeatable, ReadCassette, TapeInv
  <1> QED
    BY <1>2, <1>3

LEMMA WorkTapes ==
    ASSUME TypeInv, TapeInv, NEW c \in Case, Work(c) \/ WakeSpuriously(c)
    PROVE  TapeInv'
  <1>0. /\ worker \in [Case -> WorkerType] /\ cassette \in [Path -> TapeType] /\ PathOf[c] \in Path
        /\ recorded \in [Case -> AnyAnswer]
    BY DEF TypeInv, Path
  <1>1. CASE Acquire(c) \/ Release(c) \/ WakeSpuriously(c)
    <2>1. PICK pc \in {"asleep", "send", "notify", "woken"} : Goto(c, pc)
      BY <1>1 DEF Acquire, Release, WakeSpuriously
    <2>2. \A d \in Case : worker'[d].pc = pc \/ worker'[d] = worker[d]
      BY <1>0, <2>1 DEF Goto, WorkerType
    <2>3. UNCHANGED <<suite, cassette, recorded>>
      BY <1>1 DEF Acquire, Release, WakeSpuriously
    <2> QED
      BY <2>2, <2>3, SameTapes
  <1>2. CASE Notify(c)
    <2>1. \A d \in Case : worker'[d].pc \in {"done", "woken"} \/ worker'[d] = worker[d]
      BY <1>0, <1>2 DEF Notify, Goto, Asleep, WorkerType
    <2>2. UNCHANGED <<suite, cassette, recorded>>
      BY <1>2 DEF Notify
    <2> QED
      BY <2>1, <2>2, SameTapes
  <1>3. CASE Record(c)
    <2>1. \A d \in Case : worker'[d].pc = "release" \/ worker'[d] = worker[d]
      BY <1>0, <1>3 DEF Record, Idle
    <2>2. UNCHANGED <<suite, cassette, recorded>>
      BY <1>3 DEF Record
    <2> QED
      BY <2>1, <2>2, SameTapes
  <1>4. CASE Send(c) \/ SendFails(c)
    <2>1. suite'.mode # "replay" /\ UNCHANGED <<cassette, recorded>>
      BY <1>4 DEF Send, SendFails
    <2> QED
      BY <2>1, OtherTapes DEF TapeInv, Repeatable, ReadCassette
  <1>5. CASE Replay(c)
    <2>1. UNCHANGED <<suite, cassette, recorded>> /\ suite.mode = "replay"
      BY <1>5 DEF Replay
    <2>2. Answered(c, Repeatable(c), "record")
      BY <1>5, UnansweredIsAnswered DEF Replay, Repeatable
    <2>3. worker'[c].pc = "record" /\ worker'[c].bucket = EvaluateResponse(recorded[c])
      BY <1>0, <2>2 DEF Answered, TapeInv
    <2>4. \A d \in Case : d # c => worker'[d] = worker[d]
      BY <1>0, <2>2 DEF Answered
    <2>5. \A d \in Case : recorded'[d] = Repeatable(d)'
      BY <2>1 DEF TapeInv, Repeatable, ReadCassette
    <2> QED
      BY <2>1, <2>3, <2>4, <2>5 DEF TapeInv
  <1>6. CASE OpenCassette(c)
    <2>1. suite'.mode # "replay"
      BY <1>6 DEF OpenCassette, At, TapeInv
    <2>2. \A d \in Case : recorded'[d] = Repeatable(d)'
      <3> SUFFICES ASSUME NEW d \in Case PROVE recorded'[d] = Repeatable(d)'
        OBVIOUS
      <3>1. CASE PathOf[d] = PathOf[c]
        BY <1>0, <1>6, <3>1 DEF OpenCassette, Unrecorded, Repeatable, ReadCassette, EmptyTape
      <3>2. CASE PathOf[d] # PathOf[c]
        BY <1>0, <1>6, <3>2 DEF OpenCassette, Unrecorded, Repeatable, ReadCassette, TapeInv
      <3> QED
        BY <3>1, <3>2
    <2> QED
      BY <2>1, <2>2, OtherTapes
  <1>7. CASE FillCassette(c)
    <2>1. suite'.mode # "replay"
      BY <1>7 DEF FillCassette, At, TapeInv
    <2>2. \A d \in Case : recorded'[d] = Repeatable(d)'
      <3> SUFFICES ASSUME NEW d \in Case PROVE recorded'[d] = Repeatable(d)'
        OBVIOUS
      <3>1. CASE PathOf[d] = PathOf[c]
        <4>1. \/ /\ cassette'[PathOf[d]] = Tape(c, worker[c].answer)
                 /\ recorded'[d] = IF d = c THEN worker[c].answer ELSE NoAnswer
              \/ cassette'[PathOf[d]] = TornTape /\ recorded'[d] = NoAnswer
          <5>1. \A t : [cassette EXCEPT ![PathOf[c]] = t][PathOf[d]] = t
            BY <1>0, <3>1
          <5> QED
            BY <1>7, <1>0, <3>1, <5>1, Filled
        <4> QED
          BY <4>1 DEF Repeatable, ReadCassette, Tape, TornTape
      <3>2. CASE PathOf[d] # PathOf[c]
        <4>1. cassette'[PathOf[d]] = cassette[PathOf[d]] /\ recorded'[d] = recorded[d]
          <5>1. PathOf[d] \in Path /\ d # c
            BY <3>2 DEF Path
          <5> QED
            BY <1>7, <1>0, <3>2, <5>1, Filled
        <4> QED
          BY <4>1 DEF Repeatable, TapeInv
      <3> QED
        BY <3>1, <3>2
    <2> QED
      BY <2>1, <2>2, OtherTapes
  <1>8. CASE CassetteFails(c)
    <2>1. suite'.mode # "replay"
      BY <1>8 DEF CassetteFails, At, TapeInv
    <2> QED
      BY <1>8, <2>1, TearTapes, OtherTapes DEF CassetteFails
  <1> QED
    BY <1>1, <1>2, <1>3, <1>4, <1>5, <1>6, <1>7, <1>8 DEF Work

\* A replay repeats the recording, whatever was overwritten, torn, failed or killed
\* before, and however many cases share a cassette file and write over each other.
THEOREM ReplaysRepeat == Spec => []ReplayRepeatsRecording
  <1>1. Init => TapeInv
    BY DEF Init, TapeInv, Repeatable, ReadCassette, NoTape, Idle, Path
  <1>2. TypeInv /\ TapeInv /\ [Next]_vars => TapeInv'
    <2> SUFFICES ASSUME TypeInv, TapeInv, [Next]_vars PROVE TapeInv'
      OBVIOUS
    <2>1. ASSUME NEW mode, NEW cases, Start(mode, cases)
          PROVE  TapeInv'
      <3>1. \A c \in Case : worker'[c].pc \in {"new", "idle"}
        BY <2>1, IdleType, NewType DEF Start, Grounded
      <3>2. \A c \in Case : recorded'[c] = Repeatable(c)'
        BY <2>1 DEF Start, TapeInv, Repeatable, ReadCassette
      <3> QED
        BY <3>1, <3>2 DEF TapeInv
    <2>2. ASSUME NEW mode, Refuse(mode)
          PROVE  TapeInv'
      BY <2>2, SameTapes DEF Refuse
    <2>3. CASE Report \/ Crash
      <3>1. suite'.mode = "disabled"
        BY <2>3 DEF Report, Crash, TypeInv, SuiteType
      <3>2. \A c \in Case : recorded'[c] = Repeatable(c)'
        <4>1. CASE Report
          BY <4>1 DEF Report, TapeInv, Repeatable, ReadCassette
        <4>2. CASE Crash
          BY <4>2, TearTapes DEF Crash
        <4> QED
          BY <2>3, <4>1, <4>2
      <3> QED
        BY <3>1, <3>2, OtherTapes
    <2>4. CASE UNCHANGED vars
      BY <2>4, SameTapes DEF vars
    <2> QED
      BY <2>1, <2>2, <2>3, <2>4, WorkTapes DEF Next
  <1>3. TypeInv /\ TapeInv => ReplayRepeatsRecording
    <2>1. EvaluateResponse(NoAnswer) = "error"
      BY DEF EvaluateResponse, NoAnswer
    <2>2. TypeInv => suite.cases \subseteq Case
      BY DEF TypeInv, SuiteType
    <2> QED
      BY <2>1, <2>2 DEF TapeInv, ReplayRepeatsRecording
  <1> QED
    BY <1>1, <1>2, <1>3, AlwaysTyped, PTL DEF Spec

-------------------------------------------------------------------------------
(***************************************************************************)
(* Results, counters and the report                                        *)
(***************************************************************************)
Recorded == {c \in Case : worker[c].pc \in {"release", "notify", "done"}}

InSchema(rs) == {r \in rs : PassesSchema(r.bucket)}
InValidation(rs) == {r \in rs : PassesValidation(r.bucket)}

\* As many results as threads that have recorded theirs, and one of each.
ResInv ==
    /\ IsFiniteSet(results)
    /\ {r.case : r \in results} = Recorded
    /\ Cardinality(results) = Cardinality(Recorded)
    /\ tally = [schema |-> Cardinality(InSchema(results)),
                validate |-> Cardinality(InValidation(results))]
    /\ \A r \in results : r.ms \in Nat

LEMMA NoneRecorded ==
    ASSUME results' = {}, tally' = NoTally, Recorded' = {}
    PROVE  ResInv'
  <1>1. InSchema({}) = {} /\ InValidation({}) = {}
    BY DEF InSchema, InValidation
  <1> QED
    BY <1>1, FS_EmptySet DEF ResInv, NoTally

LEMMA SameResults ==
    ASSUME ResInv, UNCHANGED <<results, tally>>, Recorded' = Recorded
    PROVE  ResInv'
  BY DEF ResInv

LEMMA FiniteCases == \A S \in SUBSET Case : IsFiniteSet(S) /\ Cardinality(S) <= Cardinality(Case)
  BY FS_Subset, BenchAssumption

\* A counter goes up with the set it counts.
LEMMA OneMore ==
    ASSUME NEW S, IsFiniteSet(S), NEW r, r \notin S, NEW counts \in BOOLEAN
    PROVE  Cardinality(IF counts THEN S \cup {r} ELSE S) = Cardinality(S) + One(counts)
  BY FS_AddElement, FS_CardinalityType DEF One

LEMMA WorkResults ==
    ASSUME TypeInv, ResInv, NEW c \in Case, Work(c) \/ WakeSpuriously(c)
    PROVE  ResInv'
  <1>0. worker \in [Case -> WorkerType]
    BY DEF TypeInv
  <1>1. CASE Record(c)
    <2> DEFINE r == [case |-> c, bucket |-> worker[c].bucket, ms |-> worker[c].answer.ms]
    <2>1. /\ results' = results \cup {r}
          /\ tally' = [schema |-> tally.schema + One(PassesSchema(r.bucket)),
                       validate |-> tally.validate + One(PassesValidation(r.bucket))]
      BY <1>1 DEF Record
    <2>2. r.case = c /\ c \notin Recorded
      BY <1>1 DEF Record, At, Recorded
    <2>10. r.ms \in Nat
      <3>1. worker[c].answer \in AnyAnswer
        BY DEF TypeInv, WorkerType
      <3> QED
        BY <3>1, BenchAssumption DEF AnyAnswer, AnswerType, NoAnswer
    <2> HIDE DEF r
    <2>3. Recorded' = Recorded \cup {c}
      <3>1. \A d \in Case : worker'[d].pc = IF d = c THEN "release" ELSE worker[d].pc
        BY <1>0, <1>1 DEF Record, Idle
      <3> QED
        BY <3>1 DEF Recorded
    <2>4. r \notin results
      BY <2>2 DEF ResInv
    <2>5. /\ IsFiniteSet(results') /\ Cardinality(results') = Cardinality(results) + 1
      BY <2>1, <2>4, FS_AddElement DEF ResInv
    <2>6. Cardinality(Recorded') = Cardinality(Recorded) + 1
      <3>1. IsFiniteSet(Recorded)
        BY FiniteCases DEF Recorded
      <3> QED
        BY <2>2, <2>3, <3>1, FS_AddElement
    <2>7. {q.case : q \in results'} = Recorded'
      BY <2>1, <2>2, <2>3 DEF ResInv
    <2>8. tally'.schema = Cardinality(InSchema(results'))
      <3>1. PassesSchema(r.bucket) \in BOOLEAN
        BY DEF PassesSchema
      <3>2. InSchema(results') =
               IF PassesSchema(r.bucket) THEN InSchema(results) \cup {r} ELSE InSchema(results)
        BY <2>1 DEF InSchema
      <3>3. IsFiniteSet(InSchema(results)) /\ r \notin InSchema(results)
        BY <2>4, FS_Subset DEF ResInv, InSchema
      <3> QED
        BY <2>1, <3>1, <3>2, <3>3, OneMore DEF ResInv
    <2>9. tally'.validate = Cardinality(InValidation(results'))
      <3>1. PassesValidation(r.bucket) \in BOOLEAN
        BY DEF PassesValidation
      <3>2. InValidation(results') =
               IF PassesValidation(r.bucket) THEN InValidation(results) \cup {r}
                                             ELSE InValidation(results)
        BY <2>1 DEF InValidation
      <3>3. IsFiniteSet(InValidation(results)) /\ r \notin InValidation(results)
        BY <2>4, FS_Subset DEF ResInv, InValidation
      <3> QED
        BY <2>1, <3>1, <3>2, <3>3, OneMore DEF ResInv
    <2> QED
      BY <2>1, <2>5, <2>6, <2>7, <2>8, <2>9, <2>10 DEF ResInv
  <1>2. CASE Release(c) \/ Notify(c)
    <2>1. \A d \in Case : worker'[d].pc \in {"release", "notify", "done"}
                             <=> worker[d].pc \in {"release", "notify", "done"}
      BY <1>0, <1>2 DEF Release, Notify, Goto, At, Asleep, WorkerType
    <2>2. UNCHANGED <<results, tally>>
      BY <1>2 DEF Release, Notify
    <2> QED
      BY <2>1, <2>2, SameResults DEF Recorded
  <1>3. CASE \/ Acquire(c) \/ Send(c) \/ SendFails(c) \/ Replay(c) \/ OpenCassette(c)
             \/ FillCassette(c) \/ CassetteFails(c) \/ WakeSpuriously(c)
    <2>1. PICK pc \in {"asleep", "send", "open", "record", "fill", "woken"} :
             \/ Goto(c, pc)
             \/ \E a : Answered(c, a, pc)
             \/ Unanswered(c) /\ pc = "record"
      BY <1>3, Zenon DEF Acquire, Send, SendFails, Replay, OpenCassette, FillCassette,
                         CassetteFails, WakeSpuriously
    <2>2. \A d \in Case : worker'[d].pc = IF d = c THEN pc ELSE worker[d].pc
      BY <1>0, <2>1 DEF Goto, Answered, Unanswered, WorkerType
    <2>3. worker[c].pc \notin {"release", "notify", "done"}
      BY <1>3 DEF Acquire, Send, SendFails, Replay, OpenCassette, FillCassette,
                  CassetteFails, WakeSpuriously, At
    <2>4. UNCHANGED <<results, tally>>
      BY <1>3 DEF Acquire, Send, SendFails, Replay, OpenCassette, FillCassette,
                  CassetteFails, WakeSpuriously
    <2>5. Recorded' = Recorded
      BY <2>2, <2>3 DEF Recorded
    <2> QED
      BY <2>4, <2>5, SameResults
  <1> QED
    BY <1>1, <1>2, <1>3 DEF Work

LEMMA NextResults == TypeInv /\ ResInv /\ [Next]_vars => ResInv'
  <1> SUFFICES ASSUME TypeInv, ResInv, [Next]_vars PROVE ResInv'
    OBVIOUS
  <1>1. ASSUME NEW mode, NEW cases, Start(mode, cases)
        PROVE  ResInv'
    <2>1. \A c \in Case : worker'[c].pc \in {"new", "idle"}
      BY <1>1, IdleType, NewType DEF Start, Grounded
    <2> QED
      BY <1>1, <2>1, NoneRecorded DEF Start, Recorded
  <1>2. CASE Report \/ Crash
    <2>1. \A c \in Case : worker'[c].pc = "idle"
      BY <1>2, IdleType DEF Report, Crash
    <2> QED
      BY <1>2, <2>1, NoneRecorded DEF Report, Crash, Recorded
  <1>3. ASSUME NEW mode, Refuse(mode)
        PROVE  ResInv'
    BY <1>3, SameResults DEF Refuse, Recorded
  <1>4. CASE UNCHANGED vars
    BY <1>4, SameResults DEF vars, Recorded
  <1> QED
    BY <1>1, <1>2, <1>3, <1>4, WorkResults DEF Next

LEMMA AlwaysCounted == Spec => []ResInv
  <1>1. Init => ResInv
    <2> SUFFICES ASSUME Init PROVE ResInv
      OBVIOUS
    <2>1. Recorded = {}
      BY IdleType DEF Init, Recorded
    <2>2. InSchema({}) = {} /\ InValidation({}) = {}
      BY DEF InSchema, InValidation
    <2> QED
      BY <2>1, <2>2, FS_EmptySet DEF Init, ResInv, NoTally
  <1> QED
    BY <1>1, NextResults, AlwaysTyped, PTL DEF Spec

\* The exit code is 0 only if every result is compliant and 2 only if none is.
LEMMA ExitCodes ==
    ASSUME NEW rs, IsFiniteSet(rs)
    PROVE  /\ ExitCode(rs) = 0 => \A r \in rs : Compliant(r)
           /\ ExitCode(rs) = 2 => \A r \in rs : ~Compliant(r)
  <1> DEFINE bad == {r \in rs : ~Compliant(r)}
  <1>1. IsFiniteSet(bad) /\ Cardinality(bad) \in Nat /\ bad \subseteq rs
    BY FS_Subset, FS_CardinalityType
  <1>2. Count(rs, LAMBDA r : ~Compliant(r)) = Cardinality(bad)
    BY DEF Count
  <1>3. /\ Cardinality(bad) = 0 => bad = {}
        /\ Cardinality(bad) = Cardinality(rs) => bad = rs
    BY <1>1, FS_EmptySet, FS_Subset
  <1>4. ExitCode(rs) = IF Cardinality(bad) = Cardinality(rs) /\ (\E r \in rs : r.bucket = "error")
                       THEN 2 ELSE IF Cardinality(bad) > 0 THEN 1 ELSE 0
    BY <1>2 DEF ExitCode
  <1>5. ExitCode(rs) = 0 => bad = {}
    <2> HIDE DEF bad
    <2> QED
      BY <1>1, <1>3, <1>4
  <1>6. ExitCode(rs) = 2 => bad = rs
    <2> HIDE DEF bad
    <2> QED
      BY <1>1, <1>3, <1>4
  <1> QED
    BY <1>5, <1>6

\* What a report counts over a set of results.
Timed(rs) == IsFiniteSet(rs) /\ \A r \in rs : r.ms \in Nat

UpTo(rs, x) == {r \in rs : r.ms <= x}
Under(rs, x) == {r \in rs : r.ms < x}
From(rs, x) == {r \in rs : r.ms >= x}

LEMMA PartOf ==
    ASSUME NEW S, IsFiniteSet(S), NEW T \in SUBSET S
    PROVE  /\ IsFiniteSet(T) /\ Cardinality(T) \in Nat /\ Cardinality(S) \in Nat
           /\ Cardinality(T) <= Cardinality(S)
           /\ T # S => Cardinality(T) < Cardinality(S)
  BY FS_Subset, FS_CardinalityType

\* Some result took the longest: the one that most results do not exceed.
LEMMA Longest ==
    ASSUME NEW S, Timed(S), S # {}
    PROVE  \E q \in S : \A r \in S : r.ms <= q.ms
  <1> DEFINE n == Cardinality(S)
             above(q) == n - Cardinality(UpTo(S, q.ms))
             Left == {above(q) : q \in S}
  <1>1. \A q \in S : Cardinality(UpTo(S, q.ms)) \in 0 .. n /\ n \in Nat
    BY PartOf DEF Timed, UpTo
  <1>2. Left \in SUBSET Nat /\ Left # {}
    BY <1>1
  <1>3. PICK q \in S : \A r \in S : above(q) <= above(r)
    <2>1. \E m \in Left : \A l \in Left : m <= l
      <3> HIDE DEF Left
      <3> QED
        BY <1>2, LeastNumber
    <2> HIDE DEF above
    <2> QED
      BY <2>1
  <1>4. ASSUME NEW r \in S, ~(r.ms <= q.ms)
        PROVE  FALSE
    <2>1. q.ms \in Nat /\ r.ms \in Nat
      BY DEF Timed
    <2>2. /\ UpTo(S, q.ms) \subseteq UpTo(S, r.ms)
          /\ r \in UpTo(S, r.ms) /\ r \notin UpTo(S, q.ms)
      BY <1>4, <2>1 DEF UpTo, Timed
    <2>3. UpTo(S, r.ms) \in SUBSET S
      BY DEF UpTo
    <2>4. IsFiniteSet(UpTo(S, r.ms))
      BY <2>3, PartOf DEF Timed
    <2>5. Cardinality(UpTo(S, q.ms)) < Cardinality(UpTo(S, r.ms))
      BY <2>2, <2>4, PartOf
    <2>6. above(q) <= above(r)
      BY <1>3
    <2> QED
      BY <1>1, <2>5, <2>6
  <1> QED
    BY <1>4

\* The k-th latency: at least k results do not exceed it, and fewer than k are
\* under it.
LEMMA OrderStatistic ==
    ASSUME NEW rs, Timed(rs), NEW k \in 1 .. Cardinality(rs)
    PROVE  LET x == Latencies(rs)[k]
           IN  /\ x \in Nat /\ \E r \in rs : r.ms = x
               /\ Cardinality(UpTo(rs, x)) >= k /\ Cardinality(Under(rs, x)) < k
               /\ \A r \in rs : Cardinality(UpTo(rs, r.ms)) >= k => x <= r.ms
  <1> DEFINE Good == {ms \in {r.ms : r \in rs} : Cardinality(UpTo(rs, ms)) >= k}
             x == Latencies(rs)[k]
  <1>0. Cardinality(rs) \in Nat
    BY FS_CardinalityType DEF Timed
  <1>1. x = Min(Good)
    BY DEF Latencies, Count, UpTo
  <1>2. Good # {}
    <2>1. rs # {}
      BY FS_EmptySet
    <2>2. PICK q \in rs : \A r \in rs : r.ms <= q.ms
      BY <2>1, Longest
    <2>3. UpTo(rs, q.ms) = rs
      BY <2>2 DEF UpTo
    <2> QED
      BY <1>0, <2>3
  <1>3. Good \in SUBSET Nat
    BY DEF Timed
  <1>4. x \in Good /\ \A y \in Good : x <= y
    <2> HIDE DEF Good, x
    <2>1. \E y \in Good : \A z \in Good : y <= z
      BY <1>2, <1>3, LeastNumber
    <2> QED
      BY <1>1, <2>1 DEF Min
  <1>5. Cardinality(Under(rs, x)) < k
    <2> HIDE DEF x
    <2>1. CASE Under(rs, x) = {}
      BY <2>1, FS_EmptySet
    <2>2. CASE Under(rs, x) # {}
      <3>1. Under(rs, x) \in SUBSET rs
        BY DEF Under
      <3>2. Timed(Under(rs, x))
        BY <3>1, PartOf DEF Timed
      <3>3. PICK q \in Under(rs, x) : \A r \in Under(rs, x) : r.ms <= q.ms
        BY <2>2, <3>2, Longest
      <3>4. q \in rs /\ q.ms < x /\ q.ms \in Nat /\ x \in Nat
        BY <1>3, <1>4 DEF Under, Timed
      <3>5. UpTo(rs, q.ms) = Under(rs, x)
        BY <3>3, <3>4 DEF UpTo, Under, Timed
      <3>6. q.ms \notin Good
        BY <1>4, <3>4
      <3>7. ~(Cardinality(Under(rs, x)) >= k)
        BY <3>4, <3>5, <3>6
      <3>8. Cardinality(Under(rs, x)) \in Nat
        BY <3>2, FS_CardinalityType DEF Timed
      <3> QED
        BY <3>7, <3>8
    <2> QED
      BY <2>1, <2>2
  <1> QED
    BY <1>3, <1>4, <1>5

\* The median splits the latencies, and the 95th percentile is no less than it.
LEMMA Percentiles ==
    ASSUME NEW rs, Timed(rs)
    PROVE  LET p50 == Percentile(Latencies(rs), 50)
               p95 == Percentile(Latencies(rs), 95)
           IN  /\ p50 <= p95
               /\ 2 * Cardinality(UpTo(rs, p50)) >= Cardinality(rs)
               /\ 2 * Cardinality(From(rs, p50)) >= Cardinality(rs)
  <1> DEFINE n == Cardinality(rs)
             s == Latencies(rs)
             k == (50 * (n - 1) + 50) \div 100 + 1
             l == (95 * (n - 1) + 50) \div 100 + 1
  <1>1. n \in Nat
    BY FS_CardinalityType DEF Timed
  <1>2. s \in Seq(Nat) /\ Len(s) = n
    <2>1. \A i \in 1 .. n : s[i] \in Nat
      BY OrderStatistic
    <2>2. s = [i \in 1 .. n |-> s[i]]
      BY DEF Latencies
    <2> HIDE DEF n, s
    <2>3. s \in [1 .. n -> Nat]
      BY <2>1, <2>2
    <2> QED
      BY <1>1, <2>3
  <1>3. CASE n = 0
    <2>1. rs = {}
      BY <1>3, FS_EmptySet DEF Timed
    <2>2. s = <<>>
      BY <1>2, <1>3
    <2>3. UpTo(rs, 0) = {} /\ From(rs, 0) = {} /\ Cardinality({}) = 0
      BY <2>1, FS_EmptySet DEF UpTo, From
    <2>4. Percentile(s, 50) = 0 /\ Percentile(s, 95) = 0
      BY <2>2 DEF Percentile
    <2>5. /\ Cardinality(UpTo(rs, Percentile(s, 50))) = 0
          /\ Cardinality(From(rs, Percentile(s, 50))) = 0
      BY <2>3, <2>4
    <2> HIDE DEF k, l
    <2> QED
      BY <1>3, <2>4, <2>5
  <1>4. CASE n # 0
    <2>1. k \in 1 .. n /\ l \in 1 .. n /\ k <= l /\ 2 * k > n /\ 2 * (k - 1) <= n
      <3> HIDE DEF n
      <3> QED
        BY <1>1, <1>4
    <2>2. Percentile(s, 50) = s[k] /\ Percentile(s, 95) = s[l]
      <3>1. s # <<>>
        BY <1>2, <1>4
      <3> HIDE DEF n, s
      <3> QED
        BY <1>2, <3>1 DEF Percentile
    <2> HIDE DEF k, l
    <2>3. s[k] <= s[l]
      <3>1. PICK r \in rs : r.ms = s[l]
        BY <2>1, OrderStatistic
      <3>2. Cardinality(UpTo(rs, s[l])) >= l
        BY <2>1, OrderStatistic
      <3>3. Cardinality(UpTo(rs, s[l])) \in Nat
        BY PartOf DEF Timed, UpTo
      <3>4. Cardinality(UpTo(rs, r.ms)) >= k
        <4> HIDE DEF n, s
        <4> QED
          BY <1>1, <2>1, <3>1, <3>2, <3>3
      <3> QED
        BY <2>1, <3>1, <3>4, OrderStatistic
    <2>4. 2 * Cardinality(UpTo(rs, s[k])) >= n
      <3>1. Cardinality(UpTo(rs, s[k])) >= k
        BY <2>1, OrderStatistic
      <3>2. Cardinality(UpTo(rs, s[k])) \in Nat
        BY PartOf DEF Timed, UpTo
      <3> HIDE DEF n, s
      <3> QED
        BY <1>1, <2>1, <3>1, <3>2
    <2>5. 2 * Cardinality(From(rs, s[k])) >= n
      <3>1. Cardinality(Under(rs, s[k])) < k /\ s[k] \in Nat
        BY <2>1, OrderStatistic
      <3>2. From(rs, s[k]) = rs \ Under(rs, s[k])
        BY <3>1 DEF From, Under, Timed
      <3>3. Under(rs, s[k]) \in SUBSET rs
        BY DEF Under
      <3>4. Cardinality(From(rs, s[k])) = n - Cardinality(Under(rs, s[k]))
        <4>1. rs \cap Under(rs, s[k]) = Under(rs, s[k])
          BY <3>3
        <4> QED
          BY <3>2, <4>1, FS_Difference DEF Timed
      <3>5. Cardinality(Under(rs, s[k])) \in Nat
        BY <3>3, PartOf DEF Timed
      <3> HIDE DEF n, s
      <3> QED
        BY <1>1, <2>1, <3>1, <3>4, <3>5
    <2> QED
      BY <2>2, <2>3, <2>4, <2>5
  <1> QED
    BY <1>3, <1>4

\* A report names every case of its suite once, its counters are those of its
\* results although each grew under a lock of its own, its median splits their
\* latencies, and its exit code is 0 only if every case was compliant and 2 only
\* if none was.
THEOREM ReportsTellTheSuite == Spec => []ReportTellsTheSuite
  <1> DEFINE Fits(rep) ==
                /\ {r.case : r \in rep.results} = rep.cases
                /\ Cardinality(rep.results) = Cardinality(rep.cases)
                /\ rep.schema = Cardinality(InSchema(rep.results))
                /\ rep.validate = Cardinality(InValidation(rep.results))
                /\ rep.exit = 0 => \A r \in rep.results : Compliant(r)
                /\ rep.exit = 2 => \A r \in rep.results : ~Compliant(r)
                /\ rep.p50 <= rep.p95
                /\ 2 * Cardinality(UpTo(rep.results, rep.p50)) >= Cardinality(rep.results)
                /\ 2 * Cardinality(From(rep.results, rep.p50)) >= Cardinality(rep.results)
  <1>1. Fits(report) => ReportTellsTheSuite
    <2>1. Fits(report) => ReportCounts
      BY DEF ReportCounts, Count, InSchema, InValidation, PassesValidation
    <2>2. Fits(report) => MedianSplits
      BY DEF MedianSplits, Count, UpTo, From
    <2> QED
      BY <2>1, <2>2 DEF ReportTellsTheSuite
  <1>2. \A code : Fits([NoReport EXCEPT !.exit = code]) /\ Fits(NoReport)
    <2>1. /\ InSchema({}) = {} /\ InValidation({}) = {}
          /\ UpTo({}, 0) = {} /\ From({}, 0) = {}
      BY DEF InSchema, InValidation, UpTo, From
    <2> QED
      BY <2>1, FS_EmptySet DEF NoReport
  <1>3. Init => Fits(report)
    BY <1>2 DEF Init
  <1>4. TypeInv /\ ResInv /\ Fits(report) /\ [Next]_vars => Fits(report)'
    <2> SUFFICES ASSUME TypeInv, ResInv, Fits(report), [Next]_vars PROVE Fits(report')
      OBVIOUS
    <2>1. ASSUME NEW mode, NEW cases, Start(mode, cases) \/ Refuse(mode)
          PROVE  Fits(report')
      <3>1. \E code : report' \in {NoReport, [NoReport EXCEPT !.exit = code]}
        BY <2>1 DEF Start, Refuse
      <3> QED
        BY <1>2, <3>1
    <2>2. ASSUME NEW c \in Case, Work(c) \/ WakeSpuriously(c)
          PROVE  report' = report
      BY <2>2 DEF Work, WakeSpuriously, Acquire, Release, Notify, Send, SendFails, Replay,
                  OpenCassette, FillCassette, CassetteFails, Record
    <2>3. CASE Report
      <3>1. CASE report' = FromResults(results)
        <4>1. /\ report'.results = results /\ report'.cases = suite.cases
              /\ report'.schema = tally.schema /\ report'.validate = tally.validate
              /\ report'.exit = ExitCode(results)
          BY <3>1 DEF FromResults
        <4>2. Recorded = suite.cases
          BY <2>3 DEF Report, Recorded, TypeInv, SuiteType
        <4>3. /\ report'.exit = 0 => \A r \in results : Compliant(r)
              /\ report'.exit = 2 => \A r \in results : ~Compliant(r)
          BY <4>1, ExitCodes DEF ResInv
        <4>4. /\ report'.p50 <= report'.p95
              /\ 2 * Cardinality(UpTo(results, report'.p50)) >= Cardinality(results)
              /\ 2 * Cardinality(From(results, report'.p50)) >= Cardinality(results)
          <5>1. /\ report'.p50 = Percentile(Latencies(results), 50)
                /\ report'.p95 = Percentile(Latencies(results), 95)
            BY <3>1 DEF FromResults
          <5> QED
            BY <5>1, Percentiles DEF ResInv, Timed
        <4> QED
          BY <4>1, <4>2, <4>3, <4>4 DEF ResInv
      <3>2. CASE report' = [NoReport EXCEPT !.exit = 2]
        BY <1>2, <3>2
      <3> QED
        BY <2>3, <3>1, <3>2 DEF Report
    <2>4. CASE Crash \/ UNCHANGED vars
      BY <2>4 DEF Crash, vars
    <2> QED
      BY <2>1, <2>2, <2>3, <2>4 DEF Next
  <1> HIDE DEF Fits
  <1> QED
    BY <1>1, <1>3, <1>4, AlwaysTyped, AlwaysCounted, PTL DEF Spec

\* The types of the bench runner: permits never exceed the concurrency and the
\* counters never exceed the number of cases.
THEOREM TypeCorrect == Spec => []TypeOK
  <1>1. TypeInv /\ PermitInv /\ ResInv => TypeOK
    <2> SUFFICES ASSUME TypeInv, PermitInv, ResInv PROVE TypeOK
      OBVIOUS
    <2>1. permits \in 0 .. Concurrency
      BY FS_CardinalityType, BenchAssumption DEF TypeInv, PermitInv
    <2>2. ASSUME NEW S \in SUBSET results
          PROVE  Cardinality(S) \in 0 .. Cardinality(Case)
      <3>1. /\ Cardinality(S) \in Nat /\ Cardinality(results) \in Nat
            /\ Cardinality(S) <= Cardinality(results)
        BY FS_Subset, FS_CardinalityType DEF ResInv
      <3>2. Cardinality(results) <= Cardinality(Case) /\ Cardinality(Case) \in Nat
        BY FiniteCases, FS_CardinalityType, BenchAssumption DEF ResInv, Recorded
      <3> QED
        BY <3>1, <3>2
    <2>3. {tally.schema, tally.validate} \subseteq 0 .. Cardinality(Case)
      <3>1. InSchema(results) \in SUBSET results /\ InValidation(results) \in SUBSET results
        BY DEF InSchema, InValidation
      <3> QED
        BY <2>2, <3>1 DEF ResInv
    <2>4. suite.phase \in {"idle", "running"} /\ suite.cases \subseteq Case
      BY DEF TypeInv, SuiteType
    <2>5. \A c \in Case : worker[c].bucket \in Bucket
      BY DEF TypeInv, WorkerType
    <2>6. \A p \in Path : cassette[p].state = "whole" => cassette[p].answer \in Answers
      BY DEF TypeInv, TapeType, NoTape, EmptyTape, TornTape
    <2> QED
      BY <2>1, <2>3, <2>4, <2>5, <2>6 DEF TypeOK
  <1> QED
    BY <1>1, AlwaysTyped, AlwaysCounted, PermitsCounted, PTL
===============================================================================
