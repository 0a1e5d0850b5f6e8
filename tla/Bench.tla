--------------------------------- MODULE Bench ---------------------------------
(***************************************************************************)
(* `agm llm-bench` (crates/agm-cli/src/bench and commands/llm_bench.rs): a *)
(* suite runs one thread per case under a counting semaphore; a thread     *)
(* fetches an answer from the provider or from a cassette, puts it in a    *)
(* bucket, adds to two counters and pushes its result.  Suites follow each *)
(* other over the same directory of cassettes, which a killed suite leaves *)
(* as it was, with files that are empty or torn.                           *)
(*                                                                         *)
(* The text of an answer is only how it fares: whether it parses, at once  *)
(* or after normalisation, and what the validator, the schema and the      *)
(* expectations of the case say of it.  The structured answer of a tool    *)
(* call is JSON, which the parser of AGM texts refuses.                    *)
(*                                                                         *)
(* A definition marked "variant" is not the code's: it is a plausible slip *)
(* in the definition after it, kept to show that a property notices it.    *)
(***************************************************************************)
EXTENDS Integers, Sequences, SequencesExt, FiniteSetsExt

CONSTANTS
    Case,         \* cases of the suite
    PathOf,       \* the cassette file of each case: `/` and `_` are the same in it
    Answers,      \* what a provider may answer
    Concurrency,
    Normalize,    \* --normalize
    Suites,       \* the sets of cases that --case may select
    MaxSuites     \* bound on the suites run one after the other

AnswerType == [parses : {"yes", "normalized", "no"}, validates : BOOLEAN, fits_schema : BOOLEAN,
               fields : BOOLEAN, type : BOOLEAN, ms : Nat]

Bucket == {"pass", "normalize_fixable", "schema_only", "validate_only", "fail", "error"}

ASSUME BenchAssumption ==
    /\ IsFiniteSet(Case)
    /\ Answers \subseteq AnswerType /\ Normalize \in BOOLEAN
    /\ Suites \subseteq SUBSET Case
    /\ Concurrency \in Nat \ {0} /\ MaxSuites \in Nat

VARIABLES
    suite,    \* the running suite: its mode and its cases
    worker,   \* the thread of each case
    permits,  \* the count of the semaphore
    tally,    \* schema_pass and validate_pass
    results,  \* results pushed so far
    cassette, \* the cassette files
    recorded, \* the answer each case was recorded with, if its text was the last
              \* to be written to the file and came out whole
    report    \* the last report, and the exit code

vars == <<suite, worker, permits, tally, results, cassette, recorded, report>>

Path == {PathOf[c] : c \in Case}
NoTape == [state |-> "missing"]
EmptyTape == [state |-> "empty"]
TornTape == [state |-> "torn"]
Tape(c, answer) == [state |-> "whole", hash |-> c, answer |-> answer]

NoAnswer == [parses |-> "no", validates |-> FALSE, fits_schema |-> FALSE, fields |-> FALSE,
             type |-> FALSE, ms |-> 0]

NoTally == [schema |-> 0, validate |-> 0]
NoReport == [results |-> {}, schema |-> 0, validate |-> 0, p50 |-> 0, p95 |-> 0,
             exit |-> 0, cases |-> {}]

Idle == [pc |-> "idle", bucket |-> "error", answer |-> NoAnswer]
Running == suite.phase = "running"
At(c, pc) == Running /\ c \in suite.cases /\ worker[c].pc = pc
Goto(c, pc) == worker' = [worker EXCEPT ![c].pc = pc]

(***************************************************************************)
(* A suite.                                                                *)
(***************************************************************************)
\* build_cassette_mode: `--live` wins over `--record`.
CassetteMode(dir, record, live) ==
    IF ~dir \/ live THEN "disabled" ELSE IF record THEN "record" ELSE "replay"

Start(mode, cases) ==
    /\ suite.phase = "idle" /\ suite.count < MaxSuites
    /\ suite' = [phase |-> "running", mode |-> mode, cases |-> cases, count |-> suite.count + 1]
    /\ worker' = [c \in Case |-> IF c \in cases THEN [Idle EXCEPT !.pc = "new"] ELSE Idle]
    /\ permits' = Concurrency
    /\ tally' = NoTally
    /\ results' = {}
    /\ report' = NoReport
    /\ UNCHANGED <<cassette, recorded>>

\* No price for --cost-only, no case that matches: 2; no credentials: 3.
Refuse(mode) ==
    /\ suite.phase = "idle"
    /\ \E code \in {2} \union (IF mode = "replay" THEN {} ELSE {3}) :
          report' = [NoReport EXCEPT !.exit = code]
    /\ UNCHANGED <<suite, worker, permits, tally, results, cassette, recorded>>

(***************************************************************************)
(* The semaphore.  A thread that finds no permit sleeps until it is woken  *)
(* and looks again; the permit may be gone by then.                        *)
(***************************************************************************)
\* variant: `if` instead of `while`
TakeWoken(c) ==
    /\ At(c, "new") \/ At(c, "woken")
    /\ IF permits = 0 /\ At(c, "new") THEN Goto(c, "asleep") /\ UNCHANGED permits
                                     ELSE permits' = permits - 1 /\ Goto(c, "send")
    /\ UNCHANGED <<suite, tally, results, cassette, recorded, report>>

Acquire(c) ==
    /\ At(c, "new") \/ At(c, "woken")
    /\ IF permits = 0 THEN Goto(c, "asleep") /\ UNCHANGED permits
                      ELSE permits' = permits - 1 /\ Goto(c, "send")
    /\ UNCHANGED <<suite, tally, results, cassette, recorded, report>>

Release(c) ==
    /\ At(c, "release")
    /\ permits' = permits + 1 /\ Goto(c, "notify")
    /\ UNCHANGED <<suite, tally, results, cassette, recorded, report>>

Asleep == {c \in Case : worker[c].pc = "asleep"}

\* variant: the permit is put back and nobody is woken
NotifyNobody(c) ==
    /\ At(c, "notify")
    /\ Goto(c, "done")
    /\ UNCHANGED <<suite, permits, tally, results, cassette, recorded, report>>

\* notify_one
Notify(c) ==
    /\ At(c, "notify")
    /\ IF Asleep = {} THEN Goto(c, "done")
       ELSE \E d \in Asleep :
               worker' = [worker EXCEPT ![c].pc = "done", ![d].pc = "woken"]
    /\ UNCHANGED <<suite, permits, tally, results, cassette, recorded, report>>

\* A condition variable may wake a thread for no reason.
WakeSpuriously(c) ==
    /\ At(c, "asleep") /\ Goto(c, "woken")
    /\ UNCHANGED <<suite, permits, tally, results, cassette, recorded, report>>

(***************************************************************************)
(* Evaluation.                                                             *)
(***************************************************************************)
EvaluateParsed(a) ==
    CASE a.validates /\ a.fits_schema /\ a.fields /\ a.type ->
            IF a.parses = "yes" THEN "pass" ELSE "normalize_fixable"
      [] ~a.validates /\ a.fits_schema -> "schema_only"
      [] a.validates /\ ~a.fits_schema -> "validate_only"
      [] OTHER -> "fail"

\* Normalisation is tried only when the answer does not parse.
EvaluateResponse(a) ==
    IF a.parses = "yes" \/ (a.parses = "normalized" /\ Normalize) THEN EvaluateParsed(a) ELSE "error"

(***************************************************************************)
(* Fetching.                                                               *)
(***************************************************************************)
Answered(c, answer, pc) ==
    worker' = [worker EXCEPT ![c] = [pc |-> pc, bucket |-> EvaluateResponse(answer), answer |-> answer]]

\* No answer: an error of the provider, or of the cassette.
Unanswered(c) ==
    worker' = [worker EXCEPT ![c] = [pc |-> "record", bucket |-> "error", answer |-> NoAnswer]]

Send(c) ==
    /\ At(c, "send") /\ suite.mode \in {"disabled", "record"}
    /\ \E answer \in Answers :
          Answered(c, answer, IF suite.mode = "record" THEN "open" ELSE "record")
    /\ UNCHANGED <<suite, permits, tally, results, cassette, recorded, report>>

\* Authorisation, rate limit, other statuses, network, timeout, no choices.
SendFails(c) ==
    /\ At(c, "send") /\ suite.mode \in {"disabled", "record"}
    /\ Unanswered(c)
    /\ UNCHANGED <<suite, permits, tally, results, cassette, recorded, report>>

\* variant: the hash is not looked at
AnyTape(c, tape) == tape.state = "whole"

\* The hash is that of the prompt: the tape of another case does not match.
ReadCassette(c, tape) == tape.state = "whole" /\ tape.hash = c

Replay(c) ==
    /\ At(c, "send") /\ suite.mode = "replay"
    /\ LET tape == cassette[PathOf[c]]
       IN  IF ReadCassette(c, tape) THEN Answered(c, tape.answer, "record")
                                    ELSE Unanswered(c)
    /\ UNCHANGED <<suite, permits, tally, results, cassette, recorded, report>>

Filling == {c \in Case : At(c, "fill")}

\* What has been recorded once the file of a path holds no case's answer.
Unrecorded(path) == [d \in Case |-> IF PathOf[d] = path THEN NoAnswer ELSE recorded[d]]

\* fs::write empties the file before it writes.
OpenCassette(c) ==
    /\ At(c, "open")
    /\ cassette' = [cassette EXCEPT ![PathOf[c]] = EmptyTape]
    /\ recorded' = Unrecorded(PathOf[c])
    /\ Goto(c, "fill")
    /\ UNCHANGED <<suite, permits, tally, results, report>>

\* Every thread writes from the start of the file.  Where another thread of the
\* same path has put its text since the file was last emptied, a text as long
\* replaces it; behind a shorter one its tail stays, and the file does not parse.
FillCassette(c) ==
    LET path == PathOf[c]
        mine == Tape(c, worker[c].answer)
    IN  /\ At(c, "fill")
        /\ \/ /\ cassette' = [cassette EXCEPT ![path] = mine]
              /\ recorded' = [Unrecorded(path) EXCEPT ![c] = worker[c].answer]
           \/ /\ cassette[path] # EmptyTape
              /\ cassette' = [cassette EXCEPT ![path] = TornTape]
              /\ recorded' = Unrecorded(path)
        /\ Goto(c, "record")
        /\ UNCHANGED <<suite, permits, tally, results, report>>

\* The files of these paths are cut in the middle of a text, as a write that stops
\* halfway leaves them; inside another's text the two do not fit together.
Tear(paths) ==
    /\ cassette' = [p \in Path |-> IF p \in paths THEN TornTape ELSE cassette[p]]
    /\ recorded' = [d \in Case |-> IF PathOf[d] \in paths THEN NoAnswer ELSE recorded[d]]

\* The directory, the opening or the writing fails: that is only warned about.
CassetteFails(c) ==
    /\ At(c, "open") \/ At(c, "fill")
    /\ \E paths \in SUBSET {PathOf[d] : d \in {c} \cap Filling} : Tear(paths)
    /\ Goto(c, "record")
    /\ UNCHANGED <<suite, permits, tally, results, report>>

(***************************************************************************)
(* Tallies and results.                                                    *)
(***************************************************************************)
PassesSchema(bucket) == bucket \in {"pass", "normalize_fixable", "schema_only"}

PassesValidation(bucket) == bucket \in {"pass", "normalize_fixable", "validate_only"}

One(counts) == IF counts THEN 1 ELSE 0

\* Two counters and the list, each under a lock of its own; nothing reads them
\* before every thread is joined, so the three steps are one here.
Record(c) ==
    /\ At(c, "record")
    /\ LET w == worker[c]
       IN  /\ tally' = [schema |-> tally.schema + One(PassesSchema(w.bucket)),
                        validate |-> tally.validate + One(PassesValidation(w.bucket))]
           /\ results' = results \union {[case |-> c, bucket |-> w.bucket, ms |-> w.answer.ms]}
    /\ worker' = [worker EXCEPT ![c] = [Idle EXCEPT !.pc = "release"]]
    /\ UNCHANGED <<suite, permits, cassette, recorded, report>>

(***************************************************************************)
(* The report and the exit code.                                           *)
(***************************************************************************)
Compliant(r) == r.bucket \in {"pass", "normalize_fixable"}
Count(rs, P(_)) == Cardinality({r \in rs : P(r)})

\* variant: a case that errs is not a failure
FailedOnly(rs) ==
    IF Count(rs, LAMBDA r : r.bucket \in {"fail", "schema_only", "validate_only"}) > 0 THEN 1 ELSE 0

ExitCode(rs) ==
    LET failures == Count(rs, LAMBDA r : ~Compliant(r))
    IN  IF failures = Cardinality(rs) /\ (\E r \in rs : r.bucket = "error") THEN 2
        ELSE IF failures > 0 THEN 1 ELSE 0

\* The index is rounded to the nearest; indices start at 1 here.
Percentile(sorted, p) ==
    IF sorted = <<>> THEN 0 ELSE sorted[((p * (Len(sorted) - 1) + 50) \div 100) + 1]

\* In their order: the k-th is the least that k of the results do not exceed.
Latencies(rs) ==
    LET upTo(ms) == Count(rs, LAMBDA r : r.ms <= ms)
    IN  [k \in 1 .. Cardinality(rs) |-> Min({ms \in {r.ms : r \in rs} : upTo(ms) >= k})]

\* The order of the rows, by case, is left out.
FromResults(rs) ==
    [results |-> rs, schema |-> tally.schema, validate |-> tally.validate,
     p50 |-> Percentile(Latencies(rs), 50), p95 |-> Percentile(Latencies(rs), 95),
     exit |-> ExitCode(rs), cases |-> suite.cases]

\* The scope joins every thread first.
Report ==
    /\ Running /\ \A c \in suite.cases : worker[c].pc = "done"
    /\ \/ report' = FromResults(results)
       \/ report' = [NoReport EXCEPT !.exit = 2]   \* it cannot be written to --output
    /\ suite' = [suite EXCEPT !.phase = "idle", !.mode = "disabled", !.cases = {}]
    /\ worker' = [c \in Case |-> Idle] /\ results' = {} /\ tally' = NoTally
    /\ UNCHANGED <<permits, cassette, recorded>>

\* The suite is killed, in the middle of a write perhaps.
Crash ==
    /\ Running
    /\ suite' = [suite EXCEPT !.phase = "idle", !.mode = "disabled", !.cases = {}]
    /\ worker' = [c \in Case |-> Idle] /\ results' = {} /\ tally' = NoTally
    /\ permits' = Concurrency
    /\ \E paths \in SUBSET {PathOf[c] : c \in Filling} : Tear(paths)
    /\ UNCHANGED report

Init ==
    /\ suite = [phase |-> "idle", mode |-> "disabled", cases |-> {}, count |-> 0]
    /\ worker = [c \in Case |-> Idle]
    /\ permits = Concurrency
    /\ tally = NoTally
    /\ results = {}
    /\ cassette = [p \in Path |-> NoTape]
    /\ recorded = [c \in Case |-> NoAnswer]
    /\ report = NoReport

Work(c) ==
    \/ Acquire(c) \/ Release(c) \/ Notify(c)
    \/ Send(c) \/ SendFails(c) \/ Replay(c)
    \/ OpenCassette(c) \/ FillCassette(c) \/ CassetteFails(c)
    \/ Record(c)

Next ==
    \/ \E dir, record, live \in BOOLEAN, cases \in Suites :
          LET mode == CassetteMode(dir, record, live) IN Start(mode, cases) \/ Refuse(mode)
    \/ \E c \in Case : Work(c) \/ WakeSpuriously(c)
    \/ Report
    \/ Crash

Spec == Init /\ [][Next]_vars

\* Threads run; the provider answers within its timeout, or fails.
FairSpec == Spec /\ WF_vars(Report) /\ \A c \in Case : WF_vars(Work(c))

-------------------------------------------------------------------------------
\* Every variable has its type (BenchReport, CassetteEnvelope, Semaphore).
TypeOK ==
    /\ suite.phase \in {"idle", "running"} /\ suite.cases \subseteq Case
    /\ permits \in 0 .. Concurrency
    /\ \A c \in Case : worker[c].bucket \in Bucket
    /\ \A p \in Path : cassette[p].state = "whole" => cassette[p].answer \in Answers
    /\ {tally.schema, tally.validate} \subseteq 0 .. Cardinality(Case)

InFlight == {c \in Case : worker[c].pc \notin {"idle", "new", "asleep", "woken", "notify", "done"}}

\* Permits and threads add up through every order of sleeping, waking and
\* overtaking: never more than `concurrency` requests are in flight, and no permit
\* is lost (Semaphore, SemaphorePermit::drop).
PermitsAddUp ==
    /\ Cardinality(InFlight) <= Concurrency
    /\ Running => permits + Cardinality(InFlight) = Concurrency

\* Every case is reported once, and the counters agree with the results.
ReportCounts ==
    LET rs == report.results
    IN  /\ {r.case : r \in rs} = report.cases /\ Cardinality(rs) = Cardinality(report.cases)
        /\ report.schema = Count(rs, LAMBDA r : PassesSchema(r.bucket))
        /\ report.validate = Count(rs, LAMBDA r : r.bucket \in {"pass", "normalize_fixable", "validate_only"})
        /\ report.exit = 0 => \A r \in rs : Compliant(r)
        /\ report.exit = 2 => \A r \in rs : ~Compliant(r)

MedianSplits ==
    LET rs == report.results
    IN  /\ report.p50 <= report.p95
        /\ 2 * Count(rs, LAMBDA r : r.ms <= report.p50) >= Cardinality(rs)
        /\ 2 * Count(rs, LAMBDA r : r.ms >= report.p50) >= Cardinality(rs)

\* A report tells its suite: every case once, counters that agree with the
\* results although each is under a lock of its own, a median that splits the
\* latencies, and an exit code of 0 only if every case was compliant, of 2 only
\* if none was (BenchReport::from_results, llm_bench.rs).
ReportTellsTheSuite == ReportCounts /\ MedianSplits

\* A replay repeats the recording: a case whose answer came out whole as the last
\* text of its file, whatever was killed, failed or overwritten before, gets that
\* answer's bucket.  Every other case gets an error and not someone else's answer:
\* one without a tape, with another prompt's, with a file left empty or torn, or
\* with one that two threads of the same path wrote over each other.
ReplayRepeatsRecording ==
    Running /\ suite.mode = "replay" =>
        \A c \in suite.cases :
            worker[c].pc = "record" =>
                worker[c].bucket = IF recorded[c] = NoAnswer THEN "error"
                                   ELSE EvaluateResponse(recorded[c])

\* Every suite that is not killed ends with a report: no thread sleeps for ever.
SuitesEnd == Running ~> ~Running
===============================================================================
