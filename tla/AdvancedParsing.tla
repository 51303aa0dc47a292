--------------------------- MODULE AdvancedParsing ---------------------------
(***************************************************************************)
(* A file in the hands of the advanced parsers: the members of a chain are *)
(* asked in order until one yields text, each may be without its libraries *)
(* or fail, what comes out empty may be read by OCR, and in the end there  *)
(* is the basic parser of the format.  Ingestion asks through              *)
(* AdvancedParserBridge, the corpus check through AdvancedParserRunner,    *)
(* which has no basic parser to fall back on.                              *)
(***************************************************************************)
EXTENDS Naturals, Sequences

VARIABLES
  use,       \* who asks: "ingestion" or "check"
  format,    \* of the file: "pdf", or "office" for docx, pptx and xlsx
  ocr,       \* [enabled, engine]: what Tesseract would make of the pages
  chain,     \* the adapters still to be asked
  tried,  \* results in the order they came; the check keeps no such list
  best,      \* best_degraded
  skip,      \* best_skip
  errors,    \* the check's list of errors is not empty
  missing,   \* its list of adapters without their libraries is not empty
  answer     \* what the caller gets

parsingVars == <<use, format, ocr, chain, tried, best, skip, errors, missing, answer>>

\* Text is some, none, or blank: white space alone.
Text == {"some", "none", "blank"}
Able == {"healthy", "degraded"}
Reason ==
  {"none", "missing_dependency", "parser_error", "partial_success", "empty_output",
   "service", "own", "ocr", "ocr_fallback", "unavailable", "fallback_parser_error",
   "corrupt_artifact"}

Result(by, status, reason, text) == [by |-> by, status |-> status, reason |-> reason, text |-> text]
Nothing == Result("nobody", "none", "none", "none")
Unavailable == Result("advanced.none", "degraded", "unavailable", "none")

\* _adapters_for_strategy and the adapters of the check; MinerU reads PDF only.
Chains(u) ==
  IF u = "check" THEN {<<"docling", "mineru", "unstructured">>}
  ELSE {<<"docling", "mineru">>, <<"docling">>, <<"mineru">>}
CanParse(adapter, f) == adapter = "mineru" => f = "pdf"

ParsingInit ==
  /\ use \in {"ingestion", "check"}
  /\ format \in {"pdf", "office"}
  /\ ocr \in [enabled : BOOLEAN, engine : {"missing", "fails", "empty", "text"}]
  /\ use = "ingestion" => ocr.enabled
  /\ \E c \in Chains(use) : chain = SelectSeq(c, LAMBDA a : CanParse(a, format))
  /\ tried = << >>
  /\ best = Nothing /\ skip = Nothing /\ errors = FALSE /\ missing = FALSE
  /\ answer = Nothing

-----------------------------------------------------------------------------
(* Plausible slips in the definitions below, used to see that the          *)
(* property notices them; no specification refers to one.                  *)

NeedsOcrIfHealthy(r) == r.status = "healthy" /\ r.text = "none"

-----------------------------------------------------------------------------
(* What an adapter returns.                                                *)

\* _service_status: what a service says of itself, but a text without content is
\* not healthy; a status that is none goes by the text.
ServiceStatus(said, text) ==
  IF said = "unknown" \/ said = "healthy"
  THEN IF text = "some" THEN "healthy" ELSE "degraded"
  ELSE said

ServiceReason(status, own, text) ==
  CASE status = "healthy" -> "none"
    [] status # "healthy" /\ own -> "own"
    [] status # "healthy" /\ ~ own /\ text # "some" -> "empty_output"
    [] OTHER -> IF status = "degraded" THEN "partial_success" ELSE "parser_error"

\* parse_with_service: an answer, or a failure to get one, which is a skip if
\* nobody can be reached.
FromService(a) ==
  {Result(a, ServiceStatus(said, text), ServiceReason(ServiceStatus(said, text), own, text), text) :
     said \in {"healthy", "degraded", "skip", "failure", "unknown"}, own \in BOOLEAN, text \in Text}
  \cup {Result(a, status, "service", "none") : status \in {"failure", "skip"}}

FromDocling ==
  {Result("docling", "failure", "parser_error", "none"),
   Result("docling", "healthy", "none", "some"),
   Result("docling", "degraded", "partial_success", "some")}
  \cup {Result("docling", "degraded", "empty_output", text) : text \in {"none", "blank"}}

\* MinerU reads again with OCR of its own what comes out empty.
FromMinerU ==
  {Result("mineru", "failure", "parser_error", "none"), Result("mineru", "healthy", "none", "some")}
  \cup {Result("mineru", "degraded", "ocr", text) : text \in {"none", "blank"}}

\* The pieces Unstructured finds are stripped, so what it yields is not blank.
FromUnstructured ==
  {Result("unstructured", "failure", "parser_error", "none"),
   Result("unstructured", "healthy", "none", "some"),
   Result("unstructured", "degraded", "parser_error", "none")}

Parsed(a) ==
  CASE a = "docling" -> FromDocling \cup FromService(a)
    [] a = "mineru" -> FromMinerU \cup FromService(a)
    [] OTHER -> FromUnstructured

-----------------------------------------------------------------------------
(* OCR of what came out empty.                                             *)

NeedsOcr(r) == r.status \in Able /\ r.text = "none"

\* apply_ocr_fallback: the pages of a PDF, if it is enabled and can be run.
WithOcr(r) ==
  CASE ~ NeedsOcr(r) -> r
    [] NeedsOcr(r) /\ ocr.enabled /\ format = "pdf" /\ ocr.engine = "text" ->
         Result(r.by, "degraded", "ocr_fallback", "some")
    [] OTHER -> [r EXCEPT !.status = "degraded", !.reason = "ocr"]

-----------------------------------------------------------------------------
(* The chain.                                                              *)

Asking == answer = Nothing /\ chain # << >>
Exhausted == answer = Nothing /\ chain = << >>
Note(r) == tried' = Append(tried, r)

\* The check does not ask at all about a file it cannot read, or an empty one.
RefuseFile ==
  /\ use = "check" /\ Asking /\ tried = << >>
  /\ \E status \in {"failure", "degraded"} :
       answer' = Result("none", status, "corrupt_artifact", "none")
  /\ UNCHANGED <<use, format, ocr, chain, tried, best, skip, errors, missing>>

\* An adapter without its libraries is passed over,
PassOver ==
  /\ Asking
  /\ Note(Result(Head(chain), "skip", "missing_dependency", "none"))
  /\ chain' = Tail(chain)
  /\ missing' = (use = "check" \/ missing)
  /\ UNCHANGED <<use, format, ocr, best, skip, errors, answer>>

\* and one whose check or parser raises has failed.
Raise ==
  /\ Asking
  /\ \E reason \in {"missing_dependency", "parser_error"} :
       Note(Result(Head(chain), "failure", reason, "none"))
  /\ chain' = Tail(chain)
  /\ errors' = (use = "check" \/ errors)
  /\ UNCHANGED <<use, format, ocr, best, skip, missing, answer>>

\* The first that yields text answers,
Answer ==
  /\ Asking
  /\ \E r \in {WithOcr(p) : p \in Parsed(Head(chain))} :
       /\ r.status \in Able /\ r.text = "some"
       /\ Note(r) /\ answer' = r
  /\ chain' = Tail(chain)
  /\ UNCHANGED <<use, format, ocr, best, skip, errors, missing>>

\* the last that could read the file but found nothing is kept,
KeepEmpty ==
  /\ Asking
  /\ \E r \in {WithOcr(p) : p \in Parsed(Head(chain))} :
       /\ r.status \in Able /\ r.text # "some"
       /\ Note(r) /\ best' = r
  /\ chain' = Tail(chain)
  /\ UNCHANGED <<use, format, ocr, skip, errors, missing, answer>>

\* and from a result that is a skip or a failure even a text is not taken.
Decline ==
  /\ Asking
  /\ \E r \in Parsed(Head(chain)) :
       /\ r.status \notin Able
       /\ Note(r)
       /\ skip' = IF use = "check" /\ r.status = "skip" THEN r ELSE skip
       /\ errors' = (errors \/ (use = "check" /\ r.status = "failure"))
  /\ chain' = Tail(chain)
  /\ UNCHANGED <<use, format, ocr, best, missing, answer>>

-----------------------------------------------------------------------------
(* The end of the chain.                                                   *)

\* The basic parser answers; that of PDF raises when there is no text.
FallBack ==
  /\ use = "ingestion" /\ Exhausted
  /\ \E text \in Text :
       /\ format = "pdf" => text = "some"
       /\ answer' = Result("basic", "basic",
                           IF best = Nothing THEN "unavailable" ELSE best.reason, text)
  /\ UNCHANGED <<use, format, ocr, chain, tried, best, skip, errors, missing>>

\* It raises as well: what came out empty is the answer, or what OCR makes of
\* the pages if nobody could read them at all.
FallBackFails ==
  LET failed == Append(tried, Result("basic", "failure", "fallback_parser_error", "none"))
      read == WithOcr(Unavailable)
  IN  /\ use = "ingestion" /\ Exhausted
      /\ answer' = CASE best # Nothing -> best
                     [] best = Nothing /\ format = "pdf" /\ ocr.enabled -> read
                     [] OTHER -> Unavailable
      /\ tried' = IF best = Nothing /\ format = "pdf" /\ ocr.enabled
                     THEN Append(failed, read) ELSE failed
      /\ UNCHANGED <<use, format, ocr, chain, best, skip, errors, missing>>

\* The check answers by the best it has: empty, skipped if nothing failed, or
\* failed.
GiveUp ==
  /\ use = "check" /\ Exhausted
  /\ answer' = CASE best # Nothing -> best
                 [] best = Nothing /\ skip # Nothing /\ ~ errors -> skip
                 [] best = Nothing /\ skip = Nothing /\ missing /\ ~ errors ->
                      Result("some adapter", "skip", "missing_dependency", "none")
                 [] OTHER -> Result("all adapters", "failure", "parser_error", "none")
  /\ UNCHANGED <<use, format, ocr, chain, tried, best, skip, errors, missing>>

ParsingNext ==
  \/ RefuseFile \/ PassOver \/ Raise \/ Answer \/ KeepEmpty \/ Decline
  \/ FallBack \/ FallBackFails \/ GiveUp

ParsingSpec == ParsingInit /\ [][ParsingNext]_parsingVars

-----------------------------------------------------------------------------
(* Properties.                                                             *)

\* What the bridge and the check hold.
ParsingTypeOK ==
  LET Results == [by : STRING, reason : Reason, text : Text,
                  status : Able \cup {"none", "basic", "skip", "failure"}]
  IN  /\ use \in {"ingestion", "check"} /\ format \in {"pdf", "office"}
      /\ {best, skip, answer} \subseteq Results
      /\ \A i \in DOMAIN tried : tried[i] \in Results
      /\ errors \in BOOLEAN /\ missing \in BOOLEAN

Heard == {tried[i] : i \in DOMAIN tried}
Readable == format = "pdf" /\ ocr.enabled /\ ocr.engine = "text"

\* A text that anybody who was able to read the file has found is not lost: there
\* is one at most, the last to be asked, and it is the answer.
FirstTextAnswers ==
  \A i \in DOMAIN tried :
    tried[i].status \in Able /\ tried[i].text = "some" =>
      i = Len(tried) /\ answer = tried[i]

\* A scan OCR can read is read whenever somebody found it empty, or nobody could
\* read it in any other way; the check alone has no last resort.
ScanIsRead ==
  (answer # Nothing /\ answer.text # "some" /\ Readable) =>
    \/ \E r \in Heard : r.status \in Able /\ r.text = "blank"
    \/ use = "check" /\ \A r \in Heard : r.status \notin Able

\* A file without text is never reported without a reason, and the check calls
\* one skipped only if nobody failed with it.
EmptyIsExplained ==
  answer # Nothing =>
    /\ answer.text # "some" => answer.status # "healthy" /\ answer.reason # "none"
    /\ use = "check" /\ answer.status = "skip" =>
         \A r \in Heard : r.status = "skip"

\* What parsing a file through a chain of optional parsers promises
\* (parsers/advanced/parser.py:43, runner.py:179): no text is lost that any of
\* them found, and no lack of one goes unexplained.
ParsedIfReadable == FirstTextAnswers /\ ScanIsRead /\ EmptyIsExplained
=============================================================================
