----------------------------- MODULE Templates -----------------------------
(***************************************************************************)
(* From a pipeline's request to the report: what the gRPC servicer and the *)
(* use cases behind it accept, which template versions a run is pinned to, *)
(* and what AssembleAndDeliverUseCase renders from the stages it collected.*)
(*                                                                         *)
(* The manifest and the template sources are files an operator edits at    *)
(* any time.  The manifest and the context schemas are read when the       *)
(* process starts; a source is read at its first rendering and kept, so a  *)
(* run may meet other files than the ones it was accepted under.           *)
(*                                                                         *)
(* Races between requests, the sweeper and the delivery task are           *)
(* RunLifecycle's subject, sending is Delivery's: here a request, a        *)
(* delivery and a resend are one step each.  No step of the assembly after *)
(* the stages are read waits for anything.                                 *)
(***************************************************************************)
EXTENDS Integers, Sequences, FiniteSets, SequencesExt

CONSTANTS
  Runs,          \* run identifiers BeginRun may mint
  StageIds,      \* stage identifiers: numbers in lexicographic order, 0 is ""
  NoPath,        \* those that hold U+0000, of which no path can be made
  Names,         \* template names; "" is the empty one
  Versions,      \* version strings; "" is the empty one
  Rank,          \* Rank[v]: place of the parsed version, 0 if it cannot be parsed
  Contexts,      \* contexts of a contribution
  Size,          \* Size[c]: bytes of the context as JSON
  Grown,         \* Grown[c]: bytes of what is rendered from it
  NonFinite,     \* contexts with an infinite number or a NaN
  OffSchema,     \* contexts a template's schema rejects
  Undefined,     \* contexts that lack a variable the template uses
  Crashing,      \* contexts on which rendering raises no TemplateError (x / 0)
  Blank,         \* contexts rendered to white space
  MaxContext,    \* templates.max_context_bytes
  MaxRendered,   \* templates.max_rendered_bytes
  Pipelines,     \* pipelines.registered
  Tags,          \* tag names
  DefaultBody,   \* templates.email_body_template_ref
  Overrides,     \* pipelines.email_body_template_overrides
  Files,         \* the manifest and tag vocabulary files the operator may write
  Edits,         \* changes <<template, text>> the operator may make to sources
  BeginRequests, \* BeginRun requests pipelines may make
  Submissions    \* SubmitStageReport requests pipelines may make

Latest == "latest"
NULL == "null"
None == "none"
Text == {"a", "b", "malformed", "missing", "undecodable"}
Key == [name : Names, version : Versions]
\* A [[template]] table: ok unless a field is missing, unknown or invalid.
\* Its context_schema_path: none, a schema that rejects OffSchema, one with a
\* $ref to nowhere, or no schema at all.
Entry == [key : Key, ok : BOOLEAN, schema : {"none", "strict", "unresolvable", "invalid"}]
\* A [[tag]] table: ok unless a field is missing, unknown or no tag name.
TagEntry == [tag : Tags, ok : BOOLEAN]
Position == {"BEFORE_STAGES_SUMMARY", "AFTER_STAGES_SUMMARY"}
Mode == {"SINGLE_AGGREGATED", "PER_STAGE"}
RunState == {"none", "INITIATED", "AGGREGATING", "READY", "SENDING", "SENT", "FAILED"}
Declared == [stage_id : StageIds, stage_order : Nat, ref : Key]
Contribution == [report : Contexts \union {NULL}, body : Contexts \union {NULL},
                 position : Position \union {NULL}]
\* A BeginRun request names stages and templates as it likes.
Asked == [stage_id : StageIds, stage_order : Int, ref : [name : STRING, version : STRING]]
Submission == [stage_id : StageIds, report : Contexts \union {NULL},
               body : Contexts \union {NULL}, position : STRING]
Stage == [state : {"PENDING", "SUBMITTED", "RETRIED"}, ref : Key, row : Contribution]
Status == {"OK", "INVALID_ARGUMENT", "NOT_FOUND", "FAILED_PRECONDITION", "INTERNAL"}

ASSUME RankAssumption == Rank \in [Versions -> Nat]
ASSUME SizeAssumption == Size \in [Contexts -> Nat] /\ Grown \in [Contexts -> Nat]
ASSUME FilesAssumption ==
  \A f \in Files : f.templates \in Seq(Entry) /\ f.tags \in Seq(TagEntry)
ASSUME EditsAssumption == Edits \subseteq Key \X Text
ASSUME StageIdAssumption == StageIds \subseteq Nat
ASSUME RequestsAssumption ==
  /\ \A q \in BeginRequests : q.declared \in Seq(Asked)
  /\ Submissions \subseteq Submission

VARIABLES
  file,      \* the manifest and the tag vocabulary on disk
  text,      \* the template sources on disk
  loaded,    \* what the running process loaded of them
  up,
  cache,     \* compiled templates of the running process
  run,       \* rows of the runs table
  stage,     \* rows of the stages table
  tasks,     \* runs with a delivery task in this process
  answer,    \* the answer of the RPC that was the last step
  begun,     \* the request each run began with, and the manifest loaded then
  latest,    \* the last accepted submission of each stage
  emails     \* the e-mails this process assembled for each run

templatesVars == <<file, text, loaded, up, cache, run, stage, tasks, answer, begun, latest, emails>>
disk == <<file, text>>
process == <<loaded, up>>
rows == <<run, stage>>
history == <<begun, latest>>

NoFile == [templates |-> <<>>, tags |-> <<>>]
NoRef == [name |-> "", version |-> ""]
NoRun == [state |-> "none", pipeline |-> None, mode |-> None, agg |-> NoRef, declared |-> <<>>]
NoAnswer == [rpc |-> None, contexts |-> {}, status |-> "OK", retry |-> FALSE,
             expected |-> FALSE]
Empty == [report |-> NULL, body |-> NULL, position |-> NULL]

TemplatesTypeOK ==
  /\ file \in Files
  /\ text \in [Key -> Text]
  /\ up \in BOOLEAN
  /\ IsInjective([i \in DOMAIN loaded.templates |-> loaded.templates[i].key])
  /\ \A i \in DOMAIN loaded.tags : loaded.tags[i].ok
  /\ cache \in [Key -> {"a", "b", None}]
  /\ \A r \in Runs :
       /\ run[r].state \in RunState
       /\ run[r].state # "none" =>
            /\ run[r].pipeline \in Pipelines
            /\ run[r].mode \in Mode
            /\ run[r].agg \in (IF run[r].mode = "PER_STAGE" THEN {NoRef} ELSE Key \ {NoRef})
            /\ \A i \in DOMAIN run[r].declared : run[r].declared[i] \in Declared
       /\ \A s \in DOMAIN stage[r] : stage[r][s] \in Stage
  /\ tasks \subseteq Runs
  /\ answer.status \in Status

\* build_service on the operator's first manifest.
TemplatesInit ==
  /\ file \in Files
  /\ text = [k \in Key |-> "a"]
  /\ loaded = NoFile
  /\ up = FALSE
  /\ cache = [k \in Key |-> None]
  /\ run = [r \in Runs |-> NoRun]
  /\ stage = [r \in Runs |-> <<>>]
  /\ tasks = {}
  /\ answer = NoAnswer
  /\ begun = [r \in Runs |-> None]
  /\ latest = [r \in Runs |-> <<>>]
  /\ emails = [r \in Runs |-> {}]

-----------------------------------------------------------------------------
(* The manifest and the process that read it.                              *)

EditFiles ==
  /\ \E f \in Files \ {file} : file' = f
  /\ UNCHANGED <<text, process, cache, rows, tasks, history, emails>>
  /\ answer' = NoAnswer

EditSource ==
  /\ \E e \in Edits : text[e[1]] # e[2] /\ text' = [text EXCEPT ![e[1]] = e[2]]
  /\ UNCHANGED <<file, process, cache, rows, tasks, history, emails>>
  /\ answer' = NoAnswer

Keys(m) == {m[i].key : i \in DOMAIN m}

\* load_template_manifest and _build_validators raise ConfigurationError
\* otherwise: a bad entry, a key given twice, a schema that is no schema.  The
\* meta-schema has nothing against a $ref that leads nowhere.
Loadable(m) ==
  /\ \A i \in DOMAIN m : m[i].ok /\ m[i].schema # "invalid"
  /\ \A i, j \in DOMAIN m : m[i].key = m[j].key => i = j

\* _resolve_body_template_overrides; the default body template is not looked up.
OverridesResolve(m) == \A p \in DOMAIN Overrides : Overrides[p] \in Keys(m)

\* load_tag_vocabulary raises ConfigurationError otherwise.
VocabularyLoads(v) ==
  /\ \A i \in DOMAIN v : v[i].ok
  /\ \A i, j \in DOMAIN v : v[i].tag = v[j].tag => i = j

\* build_service reads the files, or the process does not come up.
Start ==
  /\ ~up
  /\ VocabularyLoads(file.tags)
  /\ Loadable(file.templates) /\ OverridesResolve(file.templates)
  /\ up' = TRUE
  /\ loaded' = file
  /\ UNCHANGED <<disk, cache, rows, tasks, history, emails>>
  /\ answer' = NoAnswer

\* The process ends; its tasks and its compiled templates end with it.
Stop ==
  /\ up
  /\ up' = FALSE
  /\ loaded' = NoFile
  /\ cache' = [k \in Key |-> None]
  /\ tasks' = {}
  /\ emails' = [r \in Runs |-> {}]
  /\ answer' = NoAnswer
  /\ UNCHANGED <<disk, rows, history>>

\* InMemoryTemplateRepository.exists
Exists(ref) == ref \in Keys(loaded.templates)

\* InMemoryTagVocabulary.contains
ContainsTag(tag) == \E i \in DOMAIN loaded.tags : loaded.tags[i].tag = tag

\* Where in the file the entries of a name are whose version parses.
Candidates(name) ==
  {i \in DOMAIN loaded.templates : /\ loaded.templates[i].key.name = name
                                   /\ Rank[loaded.templates[i].key.version] # 0}

\* Mutant of ResolveLatest: the last entry of the name.
ResolveLastListed(name) == loaded.templates[Max(Candidates(name))].key

\* resolve_latest: the first of the highest, under its own version string.
ResolveLatest(name) ==
  LET rank(i) == Rank[loaded.templates[i].key.version]
      highest == {i \in Candidates(name) : \A j \in Candidates(name) : rank(j) <= rank(i)}
  IN loaded.templates[Min(highest)].key

\* _maybe_resolve_latest
MaybeResolveLatest(ref) == IF ref.version = Latest THEN ResolveLatest(ref.name) ELSE ref

\* Neither the resolution nor the look-up raises UnknownTemplateError.
Known(ref) ==
  /\ ref.version = Latest => Candidates(ref.name) # {}
  /\ Exists(MaybeResolveLatest(ref))

-----------------------------------------------------------------------------
(* Errors and the status a caller sees.                                    *)

ValidationErrors == {"MalformedRequest", "UnknownPipelineType", "UnknownTag",
                     "DuplicateStageId", "MissingAggregationTemplate", "UnknownTemplate",
                     "UnknownStage"}
NotFoundErrors == {"RunNotFound"}
PreconditionErrors == {"InvalidRunState", "InvalidStageState"}

\* Mutant of StatusCodeFor: pydantic's errors are not adapted.
StatusCodeOnlyKnown(err) ==
  CASE err \in ValidationErrors \ {"MalformedRequest"} -> "INVALID_ARGUMENT"
    [] err \in NotFoundErrors -> "NOT_FOUND"
    [] err \in PreconditionErrors -> "FAILED_PRECONDITION"
    [] err = None -> "OK"
    [] OTHER -> "INTERNAL"

\* translate_to_grpc_status, _status_code_for
StatusCodeFor(err) ==
  CASE err \in ValidationErrors -> "INVALID_ARGUMENT"
    [] err \in NotFoundErrors -> "NOT_FOUND"
    [] err \in PreconditionErrors -> "FAILED_PRECONDITION"
    [] err = None -> "OK"
    [] OTHER -> "INTERNAL"

\* A check that raises err unless it passes.
Unless(ok, err) == IF ok THEN None ELSE err

\* The error of the first check that raises one.
FirstError(errors) ==
  LET failed == {i \in DOMAIN errors : errors[i] # None}
  IN IF failed = {} THEN None ELSE errors[Min(failed)]

Answer(rpc, contexts, err, retry, expected) ==
  answer' = [rpc |-> rpc, contexts |-> contexts, status |-> StatusCodeFor(err),
             retry |-> retry, expected |-> expected]

-----------------------------------------------------------------------------
(* BeginRun.                                                               *)

\* _template_ref_to_domain, TemplateRef.__post_init__
RefGiven(ref) == ref.name # "" /\ ref.version # ""
\* _has_template_ref
HasRef(ref) == ref.name # "" \/ ref.version # ""

\* _attachment_mode_to_domain, for the values it knows
DomainMode(mode) == IF mode = "UNSPECIFIED" THEN "SINGLE_AGGREGATED" ELSE mode

\* The servicer's adaptation, then the checks of BeginRunUseCase, in order.
BeginRunError(q) ==
  LET mode == DomainMode(q.mode)
      single == mode = "SINGLE_AGGREGATED"
      D == DOMAIN q.declared
  IN FirstError(<<
       Unless(mode \in Mode, "MalformedRequest"),
       Unless(\A i \in D : /\ RefGiven(q.declared[i].ref)
                      /\ q.declared[i].stage_id # 0 /\ q.declared[i].stage_order >= 0,
         "MalformedRequest"),
       Unless(HasRef(q.agg) => RefGiven(q.agg), "MalformedRequest"),
       Unless(q.pipeline # "", "MalformedRequest"),
       Unless(q.pipeline \in Pipelines, "UnknownPipelineType"),
       Unless(\A t \in q.tags : ContainsTag(t), "UnknownTag"),
       Unless(\A i, j \in D : q.declared[i].stage_id = q.declared[j].stage_id => i = j,
         "DuplicateStageId"),
       Unless(single => HasRef(q.agg), "MissingAggregationTemplate"),
       Unless(single => Known(q.agg), "UnknownTemplate"),
       Unless(\A i \in D : Known(q.declared[i].ref), "UnknownTemplate") >>)

\* BeginRunUseCase.execute from step 6: the aggregate, the stages, one commit.
Begun(r, q) ==
  LET mode == DomainMode(q.mode)
      declared == [i \in DOMAIN q.declared |->
                     [q.declared[i] EXCEPT !.ref = MaybeResolveLatest(@)]]
      ids == {declared[i].stage_id : i \in DOMAIN declared}
      refOf(s) == (CHOOSE i \in DOMAIN declared : declared[i].stage_id = s)
  IN /\ run' = [run EXCEPT ![r] =
          [state |-> "INITIATED", pipeline |-> q.pipeline, mode |-> mode,
           agg |-> IF mode = "SINGLE_AGGREGATED" THEN MaybeResolveLatest(q.agg) ELSE NoRef,
           declared |-> declared]]
     /\ stage' = [stage EXCEPT ![r] =
          [s \in ids |-> [state |-> "PENDING", ref |-> declared[refOf(s)].ref,
                          row |-> Empty]]]
     /\ begun' = [begun EXCEPT ![r] = [request |-> q, manifest |-> loaded.templates]]
     /\ UNCHANGED latest

\* MessageServiceServicer.BeginRun
BeginRun(r, q) ==
  /\ up
  /\ run[r].state = "none"
  /\ LET err == BeginRunError(q) IN
       /\ Answer("BeginRun", {}, err, FALSE, FALSE)
       /\ IF err = None THEN Begun(r, q) ELSE UNCHANGED <<rows, history>>
  /\ UNCHANGED <<disk, process, cache, tasks, emails>>

-----------------------------------------------------------------------------
(* SubmitStageReport and FinalizeRun.                                      *)

\* _struct_to_dict: protobuf refuses a number that is not finite.
Convertible(c) == c \notin NonFinite

\* _email_body_position_to_domain, for the values it knows
DomainPosition(p) == IF p = "UNSPECIFIED" THEN "AFTER_STAGES_SUMMARY" ELSE p

\* Mutant of ToRow: an absent report keeps what an earlier submission stored.
ToRowKeepsReport(r, q) ==
  [report |-> IF q.report = NULL THEN stage[r][q.stage_id].row.report ELSE q.report,
   body |-> q.body,
   position |-> IF q.body = NULL THEN NULL ELSE DomainPosition(q.position)]

\* The new Stage's columns: an absent contribution is stored as NULL, and a
\* position is stored exactly with a body contribution.
ToRow(r, q) ==
  [report |-> q.report, body |-> q.body,
   position |-> IF q.body = NULL THEN NULL ELSE DomainPosition(q.position)]

\* The servicer's adaptation, then the checks of SubmitStageReportUseCase.
SubmitError(r, q) ==
  LET known == r \in Runs /\ run[r].state # "none" IN FirstError(<<
    Unless(q.report # NULL => Convertible(q.report), "ValueError"),
    Unless(q.body # NULL => Convertible(q.body), "ValueError"),
    Unless(q.body # NULL => DomainPosition(q.position) \in Position, "MalformedRequest"),
    Unless(q.stage_id # 0, "MalformedRequest"),
    Unless(r \in Runs, "MalformedRequest"),
    Unless(known, "RunNotFound"),
    Unless(known => run[r].state \in {"INITIATED", "AGGREGATING"}, "InvalidRunState"),
    Unless(known => q.stage_id \in DOMAIN stage[r], "UnknownStage") >>)

\* The stage had a submission before.
WasRetry(r, s) == stage[r][s].state # "PENDING"

\* MessageServiceServicer.SubmitStageReport; r is no run identifier at all when
\* it is not in Runs.
SubmitStageReport(r, q) ==
  /\ up
  /\ LET err == SubmitError(r, q)
         s == q.stage_id
     IN IF err # None
        THEN /\ Answer("SubmitStageReport", {q.report, q.body}, err, FALSE, FALSE)
             /\ UNCHANGED <<rows, latest>>
        ELSE LET retry == WasRetry(r, s) IN
             /\ Answer("SubmitStageReport", {q.report, q.body}, err, retry,
                       s \in DOMAIN latest[r])
             /\ stage' = [stage EXCEPT ![r][s] =
                   [@ EXCEPT !.state = IF retry THEN "RETRIED" ELSE "SUBMITTED",
                             !.row = ToRow(r, q)]]
             /\ run' = [run EXCEPT ![r].state = "AGGREGATING"]
             /\ latest' = [latest EXCEPT ![r] =
                   [x \in DOMAIN @ \union {s} |-> IF x = s THEN q ELSE @[x]]]
  /\ UNCHANGED <<disk, process, cache, tasks, begun, emails>>

\* MessageServiceServicer.FinalizeRun
FinalizeRun(r) ==
  /\ up
  /\ LET known == r \in Runs /\ run[r].state # "none"
         err == FirstError(<<
                  Unless(r \in Runs, "MalformedRequest"),
                  Unless(known, "RunNotFound"),
                  Unless(known => run[r].state = "AGGREGATING", "InvalidRunState") >>)
     IN /\ Answer("FinalizeRun", {}, err, FALSE, FALSE)
        /\ IF err = None
           THEN /\ run' = [run EXCEPT ![r].state = "READY"]
                /\ tasks' = tasks \union {r}
           ELSE UNCHANGED <<run, tasks>>
  /\ UNCHANGED <<disk, process, cache, stage, history, emails>>

-----------------------------------------------------------------------------
(* Rendering.                                                              *)

Sum(seq, f) == FoldLeft(LAMBDA acc, c : acc + f[c], 0, seq)

\* The text a template has in this process: the compiled one, else the file's.
TextOf(ref) == IF cache[ref] # None THEN cache[ref] ELSE text[ref]

SchemaOf(ref) ==
  IF Exists(ref)
  THEN loaded.templates[CHOOSE i \in DOMAIN loaded.templates :
                          loaded.templates[i].key = ref].schema
  ELSE "none"

\* What render() raises for a template and the contexts it is given, None if it
\* returns; measured is Size for a context as submitted, Grown for one that
\* holds rendered fragments.
RenderError(job) ==
  LET has(set) == \E i \in DOMAIN job.contexts : job.contexts[i] \in set
      t == TextOf(job.ref)
  IN FirstError(<<
       Unless(Sum(job.contexts, job.measured) <= MaxContext, "ContextSizeExceeded"),
       Unless(SchemaOf(job.ref) # "unresolvable", "Unresolvable"),
       Unless(SchemaOf(job.ref) = "strict" => ~has(OffSchema), "ContextSchemaViolation"),
       Unless(Exists(job.ref), "UnknownTemplate"),
       Unless(t # "undecodable", "UnicodeDecodeError"),
       Unless(t \notin {"missing", "malformed"}, "TemplateRender"),
       Unless(~has(Undefined), "TemplateRender"),
       Unless(~has(Crashing), "ZeroDivisionError"),
       Unless(Sum(job.contexts, Grown) <= MaxRendered, "RenderedSizeExceeded") >>)

\* The template is compiled, whatever becomes of the rendering.
Compiles(job) ==
  /\ Exists(job.ref) /\ TextOf(job.ref) \in {"a", "b"}
  /\ RenderError(job) \notin {"ContextSizeExceeded", "Unresolvable", "ContextSchemaViolation"}

-----------------------------------------------------------------------------
(* Assembling.                                                             *)

OrderOf(declared, s) ==
  declared[CHOOSE i \in DOMAIN declared : declared[i].stage_id = s].stage_order

\* _sort_key: by stage_order, then by stage_id
SortKeyBelow(declared, s1, s2) ==
  \/ OrderOf(declared, s1) < OrderOf(declared, s2)
  \/ OrderOf(declared, s1) = OrderOf(declared, s2) /\ s1 < s2

\* A set of stages in the order of the report.
InOrder(declared, S) ==
  CHOOSE q \in [1 .. Cardinality(S) -> S] :
    \A i, j \in 1 .. Cardinality(S) : i < j => SortKeyBelow(declared, q[i], q[j])

\* Stages that take part, and those of them with a report.
Reported(r) == {s \in DOMAIN stage[r] : stage[r][s].state \in {"SUBMITTED", "RETRIED"}}
Rendered(r) == {s \in Reported(r) : stage[r][s].row.report # NULL}
Included(r) == InOrder(run[r].declared, Reported(r))

\* _load_and_render_stages: a stage without a report context is not rendered.
FragmentJobs(r) ==
  LET rendered == InOrder(run[r].declared, Rendered(r))
  IN [i \in DOMAIN rendered |->
        [ref |-> stage[r][rendered[i]].ref, measured |-> Size,
         contexts |-> <<stage[r][rendered[i]].row.report>>]]

\* _build_attachments: the aggregation template, over the rendered fragments.
AttachmentJobs(r) ==
  IF run[r].mode = "PER_STAGE" THEN <<>>
  ELSE LET f == FragmentJobs(r)
       IN <<[ref |-> run[r].agg, measured |-> Grown,
             contexts |-> [i \in DOMAIN f |-> f[i].contexts[1]]]>>

BodyRef(r) ==
  IF run[r].pipeline \in DOMAIN Overrides THEN Overrides[run[r].pipeline] ELSE DefaultBody

\* _bucket: the contributions of one position, in the order of the report.
Bucket(r, position) ==
  LET ids == InOrder(run[r].declared, {s \in Reported(r) : stage[r][s].row.position = position})
  IN [i \in DOMAIN ids |-> [stage_id |-> ids[i], context |-> stage[r][ids[i]].row.body]]

\* _render_email_body
BodyJob(r) ==
  LET all == Bucket(r, "BEFORE_STAGES_SUMMARY") \o Bucket(r, "AFTER_STAGES_SUMMARY")
  IN [ref |-> BodyRef(r), measured |-> Size,
      contexts |-> [i \in DOMAIN all |-> all[i].context]]

\* Everything an e-mail needs rendered, in the order the code renders it.
RenderJobs(r) == FragmentJobs(r) \o AttachmentJobs(r) \o <<BodyJob(r)>>

\* What a sequence of renderings raises.
ErrorOf(jobs) == FirstError([i \in DOMAIN jobs |-> RenderError(jobs[i])])

\* Stages with a fragment that shows something: the others are not saved, and a
\* PER_STAGE run does not attach them.
Shown(r) == {s \in Rendered(r) : stage[r][s].row.report \notin Blank}

\* _save_fragments, once all fragments are rendered: what the store cannot write
\* is logged, but the ValueError of Path.resolve on a name with U+0000 is no
\* PersistenceError.
SaveRaises(r) == ErrorOf(FragmentJobs(r)) = None /\ Shown(r) \intersect NoPath # {}

\* What a delivery renders before it stops, and the error that stops it.
DeliveryJobs(r) == IF SaveRaises(r) THEN FragmentJobs(r) ELSE RenderJobs(r)
DeliveryError(r) == IF SaveRaises(r) THEN "ValueError" ELSE ErrorOf(RenderJobs(r))

\* Templates compiled by renderings: up to the one that fails.
CompiledBy(jobs) ==
  LET reached(i) == \A j \in 1 .. i - 1 : RenderError(jobs[j]) = None
  IN {jobs[i].ref : i \in {i \in DOMAIN jobs : reached(i) /\ Compiles(jobs[i])}}

\* Mutant of CacheAfter: the compiled template is not kept.
CacheAfterForgets(jobs) == UNCHANGED cache

\* The renderer's cache after them.
CacheAfter(jobs) ==
  cache' = [k \in Key |-> IF k \in CompiledBy(jobs) THEN TextOf(k) ELSE cache[k]]

\* The attachments of a PER_STAGE run leave blank fragments out.
Attached(r) == InOrder(run[r].declared, Shown(r))

\* PreparedEmail: what it shows of which stage, and in which template texts.
Email(r) ==
  [stages |-> [i \in DOMAIN Included(r) |->
                 LET st == stage[r][Included(r)[i]]
                 IN [stage_id |-> Included(r)[i], report |-> st.row.report,
                     text |-> IF st.row.report = NULL THEN None ELSE TextOf(st.ref)]],
   attached |-> IF run[r].mode = "PER_STAGE" THEN Attached(r) ELSE <<TextOf(run[r].agg)>>,
   body |-> TextOf(BodyRef(r)),
   before |-> Bucket(r, "BEFORE_STAGES_SUMMARY"),
   after |-> Bucket(r, "AFTER_STAGES_SUMMARY")]

\* Mutant of CaughtErrors: the schema violation is not among them.
CaughtErrorsNoSchema == {"TemplateRender", "RenderedSizeExceeded", "ContextSizeExceeded"}

\* The except clauses around the assembly.
CaughtErrors ==
  {"TemplateRender", "RenderedSizeExceeded", "ContextSizeExceeded", "ContextSchemaViolation"}

\* AssembleAndDeliverUseCase.execute; the relay's part is Delivery's subject, so
\* the run ends in either state.  An error nobody catches ends the task and
\* leaves the run in SENDING.
Deliver(r) ==
  /\ r \in tasks
  /\ tasks' = tasks \ {r}
  /\ CacheAfter(DeliveryJobs(r))
  /\ LET err == DeliveryError(r) IN
       \/ /\ err = None
          /\ \E s \in {"SENT", "FAILED"} : run' = [run EXCEPT ![r].state = s]
          /\ emails' = [emails EXCEPT ![r] = @ \union {Email(r)}]
       \/ /\ err \in CaughtErrors
          /\ run' = [run EXCEPT ![r].state = "FAILED"]
          /\ UNCHANGED emails
       \/ /\ err \notin CaughtErrors \union {None}
          /\ run' = [run EXCEPT ![r].state = "SENDING"]
          /\ UNCHANGED emails
  /\ answer' = NoAnswer
  /\ UNCHANGED <<disk, process, stage, history>>

\* ResendRunUseCase: prepare_email renders again from the rows and saves nothing;
\* an error is the administrator's answer and changes nothing.
Resend(r) ==
  /\ up
  /\ run[r].state \in {"SENT", "FAILED"}
  /\ CacheAfter(RenderJobs(r))
  /\ emails' = IF ErrorOf(RenderJobs(r)) = None
               THEN [emails EXCEPT ![r] = @ \union {Email(r)}] ELSE emails
  /\ answer' = NoAnswer
  /\ UNCHANGED <<disk, process, rows, tasks, history>>

NotARun == "not-a-run-id"

TemplatesNext ==
  \/ EditFiles
  \/ EditSource
  \/ Start
  \/ Stop
  \/ \E r \in Runs, q \in BeginRequests : BeginRun(r, q)
  \/ \E r \in Runs \union {NotARun}, q \in Submissions : SubmitStageReport(r, q)
  \/ \E r \in Runs \union {NotARun} : FinalizeRun(r)
  \/ \E r \in Runs : Deliver(r)
  \/ \E r \in Runs : Resend(r)

TemplatesSpec == TemplatesInit /\ [][TemplatesNext]_templatesVars

-----------------------------------------------------------------------------
(* Properties.                                                             *)

\* What a reference asked for at BeginRun was pinned to: itself, or for
\* "latest" an entry of the manifest loaded then that no entry of the name
\* outranks.
PinnedAs(asked, pin, manifest) ==
  /\ pin \in Keys(manifest)
  /\ asked.version # Latest => pin = asked
  /\ asked.version = Latest =>
       /\ pin.name = asked.name
       /\ \A k \in Keys(manifest) :
            k.name = pin.name => Rank[k.version] <= Rank[pin.version]

(***************************************************************************)
(* PinsAreFrozen: whatever the operator does to the manifest afterwards,   *)
(* and through every restart, the templates of a run and of its stages are *)
(* the ones the manifest of its BeginRun gave: a version asked for by name *)
(* stays that version, and "latest" stays the highest parsed version of    *)
(* that moment under the string the manifest spells it with (L3-TMPL-009   *)
(* to -011).  A submission never changes the template of its stage.        *)
(***************************************************************************)
PinsAreFrozen ==
  /\ TemplatesTypeOK
  /\ \A r \in Runs : run[r].state # "none" =>
       LET q == begun[r].request
           m == begun[r].manifest
       IN /\ run[r].agg # NoRef => PinnedAs(q.agg, run[r].agg, m)
          /\ \A i \in DOMAIN q.declared :
               /\ PinnedAs(q.declared[i].ref, run[r].declared[i].ref, m)
               /\ stage[r][q.declared[i].stage_id].ref = run[r].declared[i].ref

(***************************************************************************)
(* LastSubmissionShown: every e-mail assembled for a run shows exactly the *)
(* stages that submitted, in the order (stage_order, stage_id), each with  *)
(* its last accepted submission: a report that submission left out is not  *)
(* shown however often it was sent before, and a body contribution is in   *)
(* one bucket, the one its submission asked for, "after" if it asked for   *)
(* none (L3-STAGE-008 and -011, L3-AGGR-004, -005 and -012).               *)
(***************************************************************************)
LastSubmissionShown ==
  \A r \in Runs : \A e \in emails[r] :
    LET shown == {e.stages[i].stage_id : i \in DOMAIN e.stages}
        order(s) == begun[r].request.declared[CHOOSE i \in DOMAIN begun[r].request.declared :
                      begun[r].request.declared[i].stage_id = s].stage_order
        inBucket(bucket, s) == \E i \in DOMAIN bucket :
            bucket[i] = [stage_id |-> s, context |-> latest[r][s].body]
        count(bucket, s) == Cardinality({i \in DOMAIN bucket : bucket[i].stage_id = s})
    IN /\ shown = DOMAIN latest[r]
       /\ \A i \in DOMAIN e.stages :
            e.stages[i].report = latest[r][e.stages[i].stage_id].report
       /\ \A i, j \in DOMAIN e.stages : i < j =>
            LET s == e.stages[i].stage_id
                t == e.stages[j].stage_id
            IN order(s) < order(t) \/ (order(s) = order(t) /\ s < t)
       /\ \A s \in shown :
            /\ count(e.before, s) + count(e.after, s)
                 = IF latest[r][s].body = NULL THEN 0 ELSE 1
            /\ latest[r][s].body # NULL =>
                 inBucket(IF latest[r][s].position = "BEFORE_STAGES_SUMMARY"
                          THEN e.before ELSE e.after, s)

(***************************************************************************)
(* ResendShowsTheSame: as long as the process lives, a resend assembles    *)
(* the e-mail the first delivery assembled, although sources and manifest  *)
(* are edited in between: stages are closed and compiled templates kept.   *)
(***************************************************************************)
ResendShowsTheSame == \A r \in Runs : Cardinality(emails[r]) <= 1

(***************************************************************************)
(* StrandingExplained: a delivery task that ends with its run in SENDING   *)
(* met an error that is no MessageServiceError the code catches, and these *)
(* are all there are.  The operator's files: a template of the run is no   *)
(* longer in the manifest (the default body template may never have been   *)
(* there, an override always is), is not UTF-8, or has a schema with a     *)
(* $ref to nowhere.  The pipeline: a context on which a template raises no *)
(* TemplateError, or a report under a stage_id that holds U+0000.  Never   *)
(* sizes, contexts off their schema, missing variables and sources, or     *)
(* what cannot be saved for another reason (L3-RUN-029).                   *)
(***************************************************************************)
StrandingExplained ==
  [][\A r \in tasks : run'[r].state = "SENDING" =>
       \/ \E k \in {RenderJobs(r)[i].ref : i \in DOMAIN RenderJobs(r)} :
            \/ ~Exists(k) /\ (k = BodyRef(r) => run[r].pipeline \notin DOMAIN Overrides)
            \/ TextOf(k) = "undecodable"
            \/ SchemaOf(k) = "unresolvable"
       \/ \E s \in Reported(r) : {stage[r][s].row.report, stage[r][s].row.body}
                                   \intersect Crashing # {}
       \/ \E s \in Shown(r) : s \in NoPath]_templatesVars

(***************************************************************************)
(* AnswersAreTruthful: no request is answered with INTERNAL for what is in *)
(* it, a number that is not finite excepted: _struct_to_dict lets the      *)
(* ValueError of the protobuf library through.  And was_retry is true      *)
(* exactly when this stage of this run had an accepted submission before   *)
(* (L3-STAGE-007), also across restarts.                                   *)
(***************************************************************************)
AnswersAreTruthful ==
  /\ answer.status = "INTERNAL" => answer.contexts \intersect NonFinite # {}
  /\ answer.retry = answer.expected
=============================================================================
