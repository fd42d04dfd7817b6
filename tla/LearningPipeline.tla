-------------------------- MODULE LearningPipeline --------------------------
(***************************************************************************)
(* From evaluation tasks to a training set and to the decision about it:   *)
(* harness/experience.py, compiler.py and model_migration.py, the scripts  *)
(* that call them, and the verifiers of core/verifier_evaluation.py.       *)
(*                                                                         *)
(* Everything that is published is an object of the bucket whose key is    *)
(* the digest of its content, and that names what it builds on by key and  *)
(* digest. So an object is its kind, what it says and the set of objects   *)
(* it names, and equal values are one object. A script publishes in        *)
(* several writes, may die between two of them, and prints its reference   *)
(* only when a verifier has passed it: what was printed is what the next   *)
(* script is called with. The manifests of the runs, which EvidenceService *)
(* publishes, are taken for published.                                     *)
(***************************************************************************)
EXTENDS Naturals, Sequences, SequencesExt, FiniteSets

CONSTANTS
  Tasks,        \* cases of the suite
  Suites,       \* the suites to try: split and source document of every case
  Authors,      \* runs of the scripts
  Measurements, \* bound: the outcomes to try of each of the two campaigns on a suite
  Reviewed,     \* bound: the trials whose experience is published and reviewed
  Labellers,    \* bound: who writes the labels for a suite, "curator", "bridge" or "judge"
  Editions,     \* bound: the suite files that a judge of a suite may be given
  MaxLabels,    \* bound on labels
  MaxReviews,   \* bound on reviews by other people than the scripts
  MaxFailures   \* bound on scripts that die

Arms == {"base", "other"}
Campaigns == {"gap", "ab"}

ASSUME LearningAssumption ==
  /\ \A s \in Suites, c \in Campaigns :
       Measurements[s][c] \subseteq [Tasks \X Arms -> {"succeeded", "failed", "invalidated"}]
  /\ Reviewed \subseteq Tasks \X Arms
  /\ MaxLabels \in Nat /\ MaxReviews \in Nat /\ MaxFailures \in Nat

VARIABLES
  suite,        \* the suite
  objects,      \* the bucket
  trial,        \* state of the trials: one campaign against a reference, one against the adapter
  reviews,      \* status of the annotations, which have a label each
  author,       \* the scripts: objects still to write, what comes then, what was read
  printed,      \* objects whose script ended well
  failures,
  reviewCount,
  permitted     \* history: labels that were ever approved

learningVars ==
  <<suite, objects, trial, reviews, author, printed, failures, reviewCount, permitted>>

Free == [todo |-> <<>>, pc |-> "free", about |-> {}, seen |-> {}]

---------------------------------------------------------------------------
(* The objects: a kind, and what the object says. *)
Object(kind, about) == <<kind, about>>
Kind(o) == o[1]
About(o) == o[2]

Environment == Object("environment", {})
Input(t) == Object("input", t)
Criteria(t) == Object("verifier_input", t)
TaskBundle(t) == Object("task_bundle", t)

Preflight(t, ready) == Object("preflight", <<t, ready>>)
\* The receipt names its task bundle by digest only.
Receipt(t, ready) == Object("environment_receipt", <<t, ready>>)

Transcript(c, t, g, state) == Object("transcript", <<c, t, g, state>>)
GapReport(c, states) == Object("gap_report", <<c, states>>)

Event(t, g, step) == Object("event", <<t, g, step>>)
Events(t, g) == {Event(t, g, "context_built"), Event(t, g, "verifier_result")}
\* An experience as it was recorded has no labels; the one that an annotation authorizes has its label.
Experience(t, g, labels) == Object("experience", [task |-> t, arm |-> g, labels |-> labels])
\* A label has a split, a group of tasks that belong in one split, and who wrote it.
JudgeCall(pass) == Object("judge_call", pass)
Label(t, g, given, by) ==
  Object("label", [task |-> t, arm |-> g, split |-> given[t].split, group |-> given[t].document,
                   by |-> by])

Dataset(sources) == Object("dataset", sources)
CompileManifest(report, sources) ==
  Object("compile_manifest", [report |-> report, sources |-> sources])
CompileDecision(report, sources) ==
  Object("compile_decision", [report |-> report, sources |-> sources])
MigrationReport(source, report, decision) ==
  Object("migration_report", [source |-> source, report |-> report, decision |-> decision])
DpoGate(migration) == Object("dpo_gate", migration)
RlGate(dpo) == Object("rl_gate", dpo)

\* The objects that an object names.
Refs(o) ==
  LET about == About(o) IN
  CASE Kind(o) = "task_bundle" -> {Input(about), Environment, Criteria(about)}
    [] Kind(o) = "environment_receipt" -> {Preflight(about[1], about[2])}
    [] Kind(o) = "transcript" -> {Receipt(about[2], TRUE)}
    [] Kind(o) = "gap_report" -> {Transcript(about[1], x[1], x[2], about[2][x]) : x \in Tasks \X Arms}
    [] Kind(o) = "event" -> IF about[3] = "context_built" THEN {Receipt(about[1], TRUE)} ELSE {}
    [] Kind(o) = "experience" ->
         {TaskBundle(about.task), Receipt(about.task, TRUE)} \cup Events(about.task, about.arm)
    [] Kind(o) = "label" -> {Experience(about.task, about.arm, {})}
         \cup (IF about.by = "judge" THEN {JudgeCall("a"), JudgeCall("b")} ELSE {})
    [] Kind(o) = "compile_manifest" -> {about.report, Dataset(about.sources)} \cup about.sources
    [] Kind(o) = "compile_decision" -> {about.report} \cup about.sources
    [] Kind(o) = "migration_report" -> {about.source, about.report}
    [] Kind(o) \in {"dpo_gate", "rl_gate"} -> {about}
    [] OTHER -> {}

LearningInit ==
  /\ suite \in Suites
  /\ objects = {}
  /\ trial = [c \in Campaigns |-> [x \in Tasks \X Arms |-> "queued"]]
  /\ reviews = [x \in {} |-> "candidate"]
  /\ author = [p \in Authors |-> Free]
  /\ printed = {}
  /\ failures = 0
  /\ reviewCount = 0
  /\ permitted = {}

Is(p, pc) == author[p].pc = pc /\ author[p].todo = <<>>
Becomes(p, todo, pc, about) ==
  author' = [author EXCEPT ![p] = [todo |-> todo, pc |-> pc, about |-> about, seen |-> {}]]
Done(p) == author' = [author EXCEPT ![p] = Free]

---------------------------------------------------------------------------
\* _put_immutable: an object that is there must have the same bytes, which its key has.
PutImmutable(p) ==
  /\ author[p].todo # <<>>
  /\ objects' = objects \cup {Head(author[p].todo)}
  /\ author' = [author EXCEPT ![p].todo = Tail(@)]
  /\ UNCHANGED <<suite, trial, reviews, printed, failures, reviewCount, permitted>>

\* The verifiers begin by reading what an object names.
Resolves(o) == o \in objects /\ Refs(o) \subseteq objects

\* The end of a script: the verifier has passed the object, or the script raises.
Finish(p, o, passed) ==
  /\ printed' = printed \cup (IF passed THEN {o} ELSE {})
  /\ Done(p)
  /\ UNCHANGED <<suite, objects, trial, reviews, failures, reviewCount, permitted>>

\* The next of the things that a script goes through; no property tells their order apart.
Current(p) == CHOOSE x \in author[p].about : TRUE

\* publish_rag_suite: first the bundles of all cases,
PublishSuite(p) ==
  /\ Is(p, "free")
  /\ \E t \in Tasks : TaskBundle(t) \notin printed
  /\ Becomes(p, <<>>, "bundles", Tasks)
  /\ UNCHANGED <<suite, objects, trial, reviews, printed, failures, reviewCount, permitted>>

\* publish_rag_task_bundle,
PublishBundle(p) ==
  LET t == Current(p) IN
  /\ Is(p, "bundles") /\ author[p].about # {}
  /\ author' = [author EXCEPT ![p].todo = <<Input(t), Environment, Criteria(t), TaskBundle(t)>>,
                              ![p].about = @ \ {t}]
  /\ UNCHANGED <<suite, objects, trial, reviews, printed, failures, reviewCount, permitted>>

\* then one check of the environment that all cases run in,
CheckEnvironment(p) ==
  /\ Is(p, "bundles") /\ author[p].about = {}
  /\ \E ready \in BOOLEAN :
       author' = [author EXCEPT ![p].pc = "receipts", ![p].about = Tasks, ![p].seen = {ready}]
  /\ UNCHANGED <<suite, objects, trial, reviews, printed, failures, reviewCount, permitted>>

\* and a receipt of it for each case.
PublishReceipt(p) ==
  LET t == Current(p) IN
  /\ Is(p, "receipts") /\ author[p].about # {}
  /\ \E ready \in author[p].seen :
       author' = [author EXCEPT ![p].todo = <<Preflight(t, ready), Receipt(t, ready)>>,
                                ![p].about = @ \ {t}]
  /\ UNCHANGED <<suite, objects, trial, reviews, printed, failures, reviewCount, permitted>>

SuitePublished(p) ==
  /\ Is(p, "receipts") /\ author[p].about = {}
  /\ printed' = printed \cup {TaskBundle(t) : t \in Tasks}
  /\ Done(p)
  /\ UNCHANGED <<suite, objects, trial, reviews, failures, reviewCount, permitted>>

\* _assets of rerollout_task_bundles.
Runnable(t) ==
  /\ {TaskBundle(t), Input(t), Criteria(t)} \subseteq objects
  /\ Receipt(t, TRUE) \in objects

\* Two models answer every case; the second campaign compares the model with the adapter that was trained
\* from a compile manifest. Bound: each is tried once.
BeginRerollout(p, c) ==
  /\ Is(p, "free")
  /\ \A x \in Tasks \X Arms : trial[c][x] = "queued"
  /\ \A o \in objects : Kind(o) = "transcript" => About(o)[1] # c
  /\ \A q \in Authors : author[q].pc \in {"measure", "finish"} => author[q].about # {c}
  /\ \A t \in Tasks : TaskBundle(t) \in printed /\ Runnable(t)
  /\ c = "ab" => \E m \in printed : Kind(m) = "compile_manifest"
  /\ \E states \in Measurements[suite][c] :
       author' = [author EXCEPT ![p] =
         [todo |-> <<>>, pc |-> "measure", about |-> {c}, seen |-> states]]
  /\ UNCHANGED <<suite, objects, trial, reviews, printed, failures, reviewCount, permitted>>

Queued(c) == {x \in Tasks \X Arms : trial[c][x] = "queued"}

UpNext(c) == CHOOSE x \in Queued(c) : TRUE

\* run_evaluation and finish_evaluation_trials: the transcript, then the row. The order of the trials is
\* that of the arms and cases in the code; no property tells it apart.
MeasureTrial(p) ==
  \E c \in author[p].about :
    LET x == UpNext(c) IN
    /\ Is(p, "measure")
    /\ Queued(c) # {}
    /\ author' = [author EXCEPT ![p].todo = <<Transcript(c, x[1], x[2], author[p].seen[x])>>,
                                ![p].pc = "finish"]
    /\ UNCHANGED <<suite, objects, trial, reviews, printed, failures, reviewCount, permitted>>

FinishTrial(p) ==
  \E c \in author[p].about :
    /\ Is(p, "finish")
    /\ trial' = [trial EXCEPT ![c][UpNext(c)] = author[p].seen[UpNext(c)]]
    /\ author' = [author EXCEPT ![p].pc = "measure"]
    /\ UNCHANGED <<suite, objects, reviews, printed, failures, reviewCount, permitted>>

BuildGapReport(p) ==
  \E c \in author[p].about :
    /\ Is(p, "measure")
    /\ Queued(c) = {}
    /\ Becomes(p, <<GapReport(c, trial[c])>>, "reported", {GapReport(c, trial[c])})
    /\ UNCHANGED <<suite, objects, trial, reviews, printed, failures, reviewCount, permitted>>

Classification(states, t) ==
  LET outcomes == {states[t, g] : g \in Arms} IN
  CASE "invalidated" \in outcomes -> "invalid"
    [] outcomes = {"succeeded"} -> "solved"
    [] outcomes = {"failed"} -> "failed"
    [] OTHER -> "weak"

\* _gap_report: the rows and the transcripts say what the report says.
GapVerifies(r) == Resolves(r) /\ trial[About(r)[1]] = About(r)[2]

GapReported(p) ==
  \E r \in author[p].about :
    /\ Is(p, "reported")
    /\ Finish(p, r, /\ GapVerifies(r)
                   /\ \A t \in Tasks : Classification(About(r)[2], t) # "invalid")
---------------------------------------------------------------------------
Recorded(t, g) == <<Event(t, g, "context_built"), Event(t, g, "verifier_result"), Experience(t, g, {})>>

\* The source of an experience: its trial is finished and its task can be read.
Publishable(t, g) ==
  /\ <<t, g>> \in Reviewed
  /\ trial["gap"][t, g] \in {"succeeded", "failed"}
  /\ Input(t) \in objects

\* publish_trial_experience: the events are written in their order, the bundle last.
PublishExperience(p, t, g) ==
  /\ Is(p, "free")
  /\ Publishable(t, g)
  /\ Experience(t, g, {}) \notin printed
  /\ Becomes(p, Recorded(t, g), "recorded", {Experience(t, g, {})})
  /\ UNCHANGED <<suite, objects, trial, reviews, printed, failures, reviewCount, permitted>>

\* _experience_bundle: sources and events resolve, and the trial is the one that the bundle describes.
ExperienceVerifies(e) ==
  /\ Resolves(e)
  /\ trial["gap"][About(e).task, About(e).arm] \in {"succeeded", "failed"}

ExperiencePublished(p) ==
  \E e \in author[p].about : Is(p, "recorded") /\ Finish(p, e, ExperienceVerifies(e))

\* Bound: each label is annotated once, and there are few.
Labels == {o \in objects : Kind(o) = "label"}
Room(labels) ==
  labels \cap DOMAIN reviews = {} /\ Cardinality(Labels \cup labels) <= MaxLabels

\* review_experience_for_training: the label has the split of the task, and the group that the operator
\* names is taken for the document.
WriteLabel(p, t, g) ==
  LET label == Label(t, g, suite, "curator") IN
  /\ Is(p, "free")
  /\ Experience(t, g, {}) \in printed
  /\ "curator" \in Labellers[suite] /\ Room({label})
  /\ Becomes(p, <<label>>, "annotate", {label})
  /\ UNCHANGED <<suite, objects, trial, reviews, printed, failures, reviewCount, permitted>>

\* bridge_reviewed_feedback, for a task made from an approved correction: the experience and its label.
BridgeFeedback(p, t, g) ==
  LET label == Label(t, g, suite, "bridge") IN
  /\ Is(p, "free")
  /\ Publishable(t, g)
  /\ suite[t].split \in {"train", "validation"}
  /\ "bridge" \in Labellers[suite] /\ Room({label})
  /\ Becomes(p, Append(Recorded(t, g), label), "annotate", {label})
  /\ UNCHANGED <<suite, objects, trial, reviews, printed, failures, reviewCount, permitted>>

\* The cases that the model failed, of which both passes of the judge accept some.
CandidateTasks(report) ==
  {t \in Tasks : Publishable(t, "base") /\ About(report)[2][t, "base"] = "failed"}

\* review_gap_with_deepseek: the calls of the judge, then a label for each accepted case; splits and groups
\* are those of the suite file that the script is given, which may be another edition.
JudgeGap(p, report) ==
  /\ Is(p, "free")
  /\ Kind(report) = "gap_report" /\ About(report)[1] = "gap"
  /\ \E given \in Editions[suite], accepted \in (SUBSET CandidateTasks(report)) \ {{}} :
       LET labels == {Label(t, "base", given, "judge") : t \in accepted} IN
       /\ "judge" \in Labellers[suite] /\ Room(labels)
       /\ Becomes(p, <<JudgeCall("a"), JudgeCall("b")>>, "judge", labels)
  /\ UNCHANGED <<suite, objects, trial, reviews, printed, failures, reviewCount, permitted>>

\* One accepted case after the other: its experience, and its label.
JudgeNext(p) ==
  /\ Is(p, "judge")
  /\ author' = [author EXCEPT
       ![p].todo = Append(Recorded(About(Current(p)).task, About(Current(p)).arm), Current(p)),
       ![p].pc = "annotate"]
  /\ UNCHANGED <<suite, objects, trial, reviews, printed, failures, reviewCount, permitted>>

\* A label that the bridge wrote stays a candidate.
CreateAnnotation(p) ==
  LET l == Current(p) IN
  /\ Is(p, "annotate")
  /\ reviews' = [x \in DOMAIN reviews \cup {l} |->
                   IF x \in DOMAIN reviews THEN reviews[x] ELSE "candidate"]
  /\ IF About(l).by = "bridge" THEN Done(p) ELSE author' = [author EXCEPT ![p].pc = "approve"]
  /\ UNCHANGED <<suite, objects, trial, printed, failures, reviewCount, permitted>>

\* The other scripts approve what they wrote, as a second person.
ApproveAnnotation(p) ==
  LET l == Current(p) IN
  /\ Is(p, "approve")
  /\ reviews' = [reviews EXCEPT ![l] = "approved"]
  /\ permitted' = permitted \cup {l}
  /\ IF author[p].about = {l} THEN Done(p)
                              ELSE Becomes(p, <<>>, "judge", author[p].about \ {l})
  /\ UNCHANGED <<suite, objects, trial, printed, failures, reviewCount>>

\* review_annotation by a reviewer; a later review overrides an earlier one, and what is rejected or
\* revoked is `withdrawn'.
ReviewAnnotation(l, status) ==
  /\ reviewCount < MaxReviews /\ reviews[l] # status
  /\ reviewCount' = reviewCount + 1
  /\ reviews' = [reviews EXCEPT ![l] = status]
  /\ permitted' = IF status = "approved" THEN permitted \cup {l} ELSE permitted
  /\ UNCHANGED <<suite, objects, trial, author, printed, failures>>
---------------------------------------------------------------------------
\* compile_sft_experiences is called with a gap report and with the annotations to use (bound: until a
\* compilation is printed),
BeginCompile(p, report, labels) ==
  /\ Is(p, "free")
  /\ labels # {}
  /\ \A o \in printed : Kind(o) \notin {"compile_manifest", "compile_decision"}
  /\ Kind(report) = "gap_report" /\ About(report)[1] = "gap"
  /\ Becomes(p, <<>>, "read", {report} \cup labels)
  /\ UNCHANGED <<suite, objects, trial, reviews, printed, failures, reviewCount, permitted>>

LabelsOf(p) == {l \in author[p].about : Kind(l) = "label"}
ReportOf(p) == CHOOSE r \in author[p].about : Kind(r) = "gap_report"

\* reads these one after the other,
ReadAnnotation(p) ==
  LET unread == {l \in LabelsOf(p) : \A s \in author[p].seen : s[1] # l}
      l == CHOOSE l \in unread : TRUE IN
  /\ Is(p, "read") /\ unread # {}
  /\ author' = [author EXCEPT ![p].seen = @ \cup {<<l, reviews[l]>>},
                              ![p].pc = IF unread = {l} THEN "authorize" ELSE @]
  /\ UNCHANGED <<suite, objects, trial, reviews, printed, failures, reviewCount, permitted>>

Authorizable(l) == About(l).split \in {"train", "validation"}

Authorized(l) == Experience(About(l).task, About(l).arm, {l})

\* The copies that were authorized so far pass their verifier; what one passed once it passes again.
AuthorizedVerify(p) ==
  \A l \in LabelsOf(p) \ {s[1] : s \in author[p].seen} : ExperienceVerifies(Authorized(l))

\* publishes the authorized copies of their experiences and verifies each before it goes on, until one
\* annotation was not approved, its label is of no training split, or a copy does not pass,
Authorize(p) ==
  LET s == CHOOSE s \in author[p].seen : TRUE IN
  /\ Is(p, "authorize") /\ author[p].seen # {}
  /\ IF AuthorizedVerify(p) /\ s[2] = "approved" /\ Authorizable(s[1])
     THEN author' = [author EXCEPT ![p].todo = <<Authorized(s[1])>>, ![p].seen = @ \ {s}]
     ELSE Done(p)
  /\ UNCHANGED <<suite, objects, trial, reviews, printed, failures, reviewCount, permitted>>

Trainable(report, l) ==
  /\ Classification(About(report)[2], About(l).task) \in {"weak", "failed"}
  /\ About(report)[2][About(l).task, "base"] = "failed"

\* Defect: the split of the task is not looked at.
EligibleOfAnySplit(report, l) == Trainable(report, l)

\* The exclusions of compile_sft_success, without --include-reviewed-successes.
Eligible(report, l) ==
  /\ Trainable(report, l)
  /\ suite[About(l).task].split # "evaluation_holdout"

\* Two experiences of one task, a group on both sides, or a side without a sample: no training.
Balanced(labels) ==
  /\ \A l, k \in labels : About(l).task = About(k).task => l = k
  /\ \A l, k \in labels : About(l).group = About(k).group => About(l).split = About(k).split
  /\ {"train", "validation"} \subseteq {About(l).split : l \in labels}

Compiled(report, labels) ==
  LET eligible == {l \in labels : Eligible(report, l)} IN
  IF Balanced(eligible) THEN CompileManifest(report, {Authorized(l) : l \in eligible})
                        ELSE CompileDecision(report, {Authorized(l) : l \in labels})

\* and compiles them once the last has passed as well: the dataset is written before its manifest.
Compile(p) ==
  LET result == Compiled(ReportOf(p), LabelsOf(p)) IN
  /\ Is(p, "authorize") /\ author[p].seen = {}
  /\ IF AuthorizedVerify(p)
     THEN IF Kind(result) = "compile_manifest"
          THEN Becomes(p, <<Dataset(About(result).sources), result>>, "snapshot", {result})
          ELSE Becomes(p, <<result>>, "compiled", {result})
     ELSE Done(p)
  /\ UNCHANGED <<suite, objects, trial, reviews, printed, failures, reviewCount, permitted>>

StillApproved(e) == \A l \in About(e).labels : reviews[l] = "approved"

\* _compile_manifest reads again all that could have changed.
ManifestVerifies(m) ==
  /\ Resolves(m)
  /\ \A e \in About(m).sources : ExperienceVerifies(e) /\ StillApproved(e)

DecisionVerifies(d) ==
  \A r \in Refs(d) : IF Kind(r) = "experience" THEN ExperienceVerifies(r) ELSE Resolves(r)

\* create_snapshot reads the annotations once more.
CreateSnapshot(p) ==
  \E m \in author[p].about :
    /\ Is(p, "snapshot")
    /\ IF \A e \in About(m).sources : StillApproved(e)
       THEN Becomes(p, <<>>, "compiled", {m})
       ELSE Done(p)
    /\ UNCHANGED <<suite, objects, trial, reviews, printed, failures, reviewCount, permitted>>

CompilationPublished(p) ==
  \E o \in author[p].about :
    /\ Is(p, "compiled")
    /\ Finish(p, o, IF Kind(o) = "compile_manifest" THEN ManifestVerifies(o) ELSE DecisionVerifies(o))
---------------------------------------------------------------------------
SuccessesOf(states, g, cases) == {t \in cases : states[t, g] = "succeeded"}

Valid(states, g) == \A t \in Tasks : states[t, g] # "invalidated"

Cases(split) == {t \in Tasks : suite[t].split = split}

\* What a target has to show to be chosen: every outcome counts, and the tasks of the critical split
\* succeeded.
HardGates(states, g) ==
  Valid(states, g) /\ SuccessesOf(states, g, Cases("evaluation")) = Cases("evaluation")

\* _decision: the held-out tasks decide, under a policy that asks for one of them at least, for all of
\* them to succeed and for an improvement. Costs, latencies and how many critical cases the policy asks
\* for are left open: a cost that nobody recorded or too few cases block, a limit that is exceeded refuses.
MigrationDecisions(source, states) ==
  LET held == Cases("evaluation_holdout")
      valid(g) == {t \in held : states[t, g] # "invalidated"}
      passes(g) == HardGates(states, g) /\ SuccessesOf(states, g, held) = valid(g)
      gain == Cardinality(SuccessesOf(states, "other", held)) * Cardinality(valid("base"))
                > Cardinality(SuccessesOf(states, "base", held)) * Cardinality(valid("other")) IN
  {"BLOCKED"} \cup
  CASE \/ Kind(source) = "compile_decision"
       \/ ~Valid(states, "other") \/ valid("base") = {} \/ valid("other") = {} -> {}
    [] OTHER -> CASE passes("base") -> {"NO-TRAIN"}
                  [] ~passes("base") /\ gain /\ passes("other") -> {"GO", "NO-GO"}
                  [] OTHER -> {"NO-GO"}

Decide(p, o) ==
  /\ Is(p, "free")
  /\ o \notin printed /\ Becomes(p, <<o>>, "decided", {o})
  /\ UNCHANGED <<suite, objects, trial, reviews, printed, failures, reviewCount, permitted>>

\* (bound: a source is decided about once with a campaign).
DecideMigration(p, source, report) ==
  \E decision \in MigrationDecisions(source, About(report)[2]) :
    /\ \A o \in printed : Kind(o) = "migration_report" => Refs(o) # {source, report}
    /\ Decide(p, MigrationReport(source, report, decision))

\* A decision not to train is reported with the campaign that it was made from,
DecideModelMigration(p, source, report) ==
  /\ Kind(source) = "compile_decision"
  /\ Kind(report) = "gap_report" /\ About(report)[1] = "gap"
  /\ DecideMigration(p, source, report)

\* and a trained adapter with the campaign that compares it with its base.
DecideGapAB(p, source, report) ==
  /\ Kind(source) = "compile_manifest"
  /\ Kind(report) = "gap_report" /\ About(report)[1] = "ab"
  /\ DecideMigration(p, source, report)

\* _model_migration, _dpo_gate and _rl_gate: each verifies the whole chain below it again.
MigrationVerifies(o) ==
  /\ Resolves(o)
  /\ \A r \in Refs(o) : CASE Kind(r) = "gap_report" -> GapVerifies(r)
                         [] Kind(r) = "compile_manifest" -> ManifestVerifies(r)
                         [] Kind(r) = "compile_decision" -> DecisionVerifies(r)

DpoGateVerifies(o) == Resolves(o) /\ \A m \in Refs(o) : MigrationVerifies(m)

RlGateVerifies(o) == Resolves(o) /\ \A d \in Refs(o) : DpoGateVerifies(d)

\* Neither gate can say yes.
DecideDpoGate(p, migration) ==
  Kind(migration) = "migration_report" /\ Decide(p, DpoGate(migration))

DecideRlGate(p, dpo) ==
  Kind(dpo) = "dpo_gate" /\ Decide(p, RlGate(dpo))

DecisionPublished(p) ==
  \E o \in author[p].about :
    /\ Is(p, "decided")
    /\ Finish(p, o, CASE Kind(o) = "migration_report" -> MigrationVerifies(o)
                      [] Kind(o) = "dpo_gate" -> DpoGateVerifies(o)
                      [] Kind(o) = "rl_gate" -> RlGateVerifies(o))
---------------------------------------------------------------------------
ScriptFails(p) ==
  /\ author[p] # Free
  /\ failures < MaxFailures
  /\ failures' = failures + 1
  /\ Done(p)
  /\ UNCHANGED <<suite, objects, trial, reviews, printed, reviewCount, permitted>>

AuthorStep(p) ==
  \/ PutImmutable(p)
  \/ PublishSuite(p) \/ PublishBundle(p) \/ CheckEnvironment(p) \/ PublishReceipt(p) \/ SuitePublished(p)
  \/ \E c \in Campaigns : BeginRerollout(p, c)
  \/ MeasureTrial(p) \/ FinishTrial(p) \/ BuildGapReport(p) \/ GapReported(p)
  \/ \E t \in Tasks, g \in Arms :
       PublishExperience(p, t, g) \/ WriteLabel(p, t, g) \/ BridgeFeedback(p, t, g)
  \/ ExperiencePublished(p)
  \/ \E r \in printed : JudgeGap(p, r)
  \/ JudgeNext(p) \/ CreateAnnotation(p) \/ ApproveAnnotation(p)
  \/ \E r \in printed, labels \in SUBSET DOMAIN reviews :
       BeginCompile(p, r, labels)
  \/ ReadAnnotation(p) \/ Authorize(p) \/ Compile(p) \/ CreateSnapshot(p) \/ CompilationPublished(p)
  \/ \E source, report \in printed :
       DecideModelMigration(p, source, report) \/ DecideGapAB(p, source, report)
  \/ \E o \in printed : DecideDpoGate(p, o) \/ DecideRlGate(p, o)
  \/ DecisionPublished(p)

LearningStep ==
  \/ \E p \in Authors : AuthorStep(p) \/ ScriptFails(p)
  \/ \E l \in DOMAIN reviews, status \in {"approved", "withdrawn"} :
       ReviewAnnotation(l, status)

---------------------------------------------------------------------------
LearningTypeOK ==
  /\ suite \in Suites
  /\ trial \in [Campaigns ->
       [Tasks \X Arms -> {"queued", "succeeded", "failed", "invalidated"}]]
  /\ \A l \in DOMAIN reviews : l \in objects /\ Kind(l) = "label"
  /\ \A p \in Authors : DOMAIN author[p] = DOMAIN Free
  /\ failures \in 0..MaxFailures

\* Whichever scripts ran side by side and wherever one died, everything that an object names was
\* published before it,
ReferencesClosed == \A o \in objects : Refs(o) \subseteq objects

\* and a training set holds only tasks that the model failed and that are not held out, each once, under
\* a label that somebody approved, no group on both sides.
CompiledIsPermitted ==
  \A m \in {o \in objects : Kind(o) = "compile_manifest"} :
    LET labels == UNION {About(e).labels : e \in About(m).sources} IN
    /\ Balanced(labels)
    /\ labels \subseteq permitted
    /\ \A l \in labels :
         /\ suite[About(l).task].split # "evaluation_holdout"
         /\ About(About(m).report)[2][About(l).task, "base"] = "failed"

LearningIsGrounded == ReferencesClosed /\ CompiledIsPermitted
=============================================================================
